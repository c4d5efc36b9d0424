--------------------------------- MODULE Auth ---------------------------------
(***************************************************************************)
(* Sessions and the API token: auth.cpp.                                   *)
(*                                                                         *)
(* A few sessions, the least recently used first: it makes room for a new  *)
(* one. Checking one uses it. No token is held twice. The API token is a   *)
(* number, one more each time it is generated. Left out: the password, its *)
(* hash and the lock after wrong ones; that tokens are random; storing the *)
(* API token.                                                              *)
(***************************************************************************)
EXTENDS Integers, Sequences, SequencesExt

CONSTANT MaxSessions  \* MAX_SESSIONS

ASSUME SessionsAssumption == MaxSessions \in Nat \ {0}

VARIABLES
  sessions,  \* s_sessions, by last_used_us: the tokens
  issued,    \* tokens made so far
  api_token  \* s_api_token

authVars == <<sessions, issued, api_token>>

NoToken == 0

AuthInit == sessions = <<>> /\ issued = 0 /\ api_token = 1

\* session_valid, and what it does to last_used_us
IsSession(token) == Contains(sessions, token)
Used(token) == Append(RemoveFirst(sessions, token), token)

\* create_session
CreateSession ==
  /\ issued' = issued + 1
  /\ sessions' = Append(IF Len(sessions) = MaxSessions THEN Tail(sessions) ELSE sessions, issued + 1)
  /\ UNCHANGED api_token

\* end_session, and a session that was not used for SESSION_IDLE_US
EndSession(token) ==
  /\ sessions' = RemoveFirst(sessions, token)
  /\ UNCHANGED <<issued, api_token>>

\* api_token_valid
IsApiToken(token) == token = api_token

\* regenerate_api_token
Regenerate ==
  /\ api_token' = api_token + 1
  /\ UNCHANGED <<sessions, issued>>

AuthTypeOK ==
  /\ Len(sessions) <= MaxSessions /\ IsInjective(sessions)
  /\ issued \in Nat /\ api_token \in Nat
  /\ \A i \in DOMAIN sessions : sessions[i] \in 1..issued
=============================================================================
