---------------------------- MODULE Rfc2217Proofs ----------------------------
(***************************************************************************)
(* Proofs about Rfc2217Proto and Rfc2217, for any clients, slots, sizes of  *)
(* the ring and of the buffers, and anything that is said, typed or asked.  *)
(*                                                                         *)
(* Three parts: what the functions of rfc2217_proto.c do with one byte and  *)
(* hence with many; how Telnet is read, and that the server reads what the  *)
(* program means; and the invariant Inv, of which Fine(c) speaks of one     *)
(* client at a time.                                                       *)
(***************************************************************************)
EXTENDS Rfc2217, FiniteSetTheorems, SequenceTheorems, WellFoundedInduction, TLAPS

\* A set of numbers that is not empty has a least member.
LEMMA Least ==
  ASSUME NEW S \in SUBSET Nat, S # {}
  PROVE  \E m \in S : \A k \in S : m <= k
<1>1. PICK m \in S : \A k \in S : ~(<<k, m>> \in OpToRel(<, Nat))
  BY NatLessThanWellFounded, WFMin
<1>2. ASSUME NEW k \in S PROVE ~(k < m)
  <2>1. <<k, m>> \in Nat \X Nat /\ <<k, m>>[1] = k /\ <<k, m>>[2] = m
    BY <1>1
  <2> QED
    BY <1>1, <2>1 DEF OpToRel
<1> QED
  BY <1>2

\* What holds of 0 and passes from each number to the next holds up to n: the
\* induction that is behind every loop here.
LEMMA Upto ==
  ASSUME NEW n \in Nat, NEW A, 0 \in A, \A i \in 1..n : i - 1 \in A => i \in A
  PROVE  \A i \in 0..n : i \in A
<1> DEFINE S == {i \in 0..n : i \notin A}
<1> SUFFICES ASSUME S # {} PROVE FALSE
  OBVIOUS
<1>1. S \in SUBSET Nat /\ S # {}
  OBVIOUS
<1>2. PICK m \in S : \A k \in S : m <= k
  <2> HIDE DEF S
  <2> QED
    BY <1>1, Least
<1>3. m \in 1..n /\ m - 1 \in S
  OBVIOUS
<1> QED
  BY <1>2, <1>3

\* f is a loop from a on whose body is g.
Runs(f, n, a, g) == f[0] = a /\ \A i \in 1..n : f[i] = g[<<f[i - 1], i>>]

\* A loop over 1..n whose body is g runs to its end.
LEMMA Recursion ==
  ASSUME NEW n \in Nat, NEW S, NEW a \in S, NEW g \in [S \X (1..n) -> S]
  PROVE  \E f \in [0..n -> S] : Runs(f, n, a, g)
<1> DEFINE A == {k \in 0..n : \E f \in [0..k -> S] : Runs(f, k, a, g)}
<1>1. 0 \in A
  <2> DEFINE f == [i \in 0..0 |-> a]
  <2>1. f \in [0..0 -> S] /\ f[0] = a
    OBVIOUS
  <2> HIDE DEF f
  <2>2. Runs(f, 0, a, g)
    BY <2>1 DEF Runs
  <2> QED
    BY <2>1, <2>2
<1>2. ASSUME NEW k \in 1..n, k - 1 \in A PROVE k \in A
  <2>1. PICK f \in [0..(k - 1) -> S] : Runs(f, k - 1, a, g)
    BY <1>2
  <2> DEFINE h == [i \in 0..k |-> IF i = k THEN g[<<f[k - 1], k>>] ELSE f[i]]
  <2>2. <<f[k - 1], k>> \in S \X (1..n)
    OBVIOUS
  <2>3. h \in [0..k -> S]
    BY <2>2
  <2>4. h[0] = a
    BY <2>1 DEF Runs
  <2>5. ASSUME NEW i \in 1..k PROVE h[i] = g[<<h[i - 1], i>>]
    <3>1. h[i - 1] = f[i - 1]
      OBVIOUS
    <3>2. CASE i = k
      <4>1. h[k] = g[<<f[k - 1], k>>] /\ h[k - 1] = f[k - 1]
        BY <3>1, <3>2
      <4> HIDE DEF h
      <4> QED
        BY <4>1, <3>2
    <3>3. CASE i # k
      <4>1. i \in 1..(k - 1) /\ h[i] = f[i]
        BY <3>3
      <4> QED
        BY <2>1, <3>1, <4>1 DEF Runs
    <3> QED
      BY <3>2, <3>3
  <2> HIDE DEF h
  <2>6. Runs(h, k, a, g)
    BY <2>4, <2>5 DEF Runs
  <2>7. k \in 0..n
    OBVIOUS
  <2> QED
    BY <2>3, <2>6, <2>7
<1>3. n \in A
  <2> HIDE DEF A
  <2> QED
    BY <1>1, <1>2, Upto
<1> QED
  BY <1>3

\* What a recursive function is, step by step, determines it.
Alike(f, h, n) == f[0] = h[0] /\ \A i \in 1..n : f[i - 1] = h[i - 1] => f[i] = h[i]

\* Two runs of the same loop end alike.
LEMMA SameRun ==
  ASSUME NEW n \in Nat, NEW f, NEW h, Alike(f, h, n)
  PROVE  f[n] = h[n]
<1> DEFINE A == {i \in 0..n : f[i] = h[i]}
<1>1. 0 \in A
  BY DEF Alike
<1>2. ASSUME NEW i \in 1..n, i - 1 \in A PROVE i \in A
  BY <1>2 DEF Alike
<1>3. \A i \in 0..n : i \in A
  <2> HIDE DEF A
  <2> QED
    BY <1>1, <1>2, Upto
<1> QED
  BY <1>3

\* The of a set of one is its element.
LEMMA TheOne ==
  ASSUME NEW x
  PROVE  The({x}) = x
BY DEF The

-----------------------------------------------------------------------------
(* The parser *)

Protos ==
  {s \in [st : States, verb : Byte, sb : Seq(Byte), overflow : BOOLEAN,
          we : SUBSET we_accept, they : SUBSET they_accept, set : [1..4 -> Seq(Byte)], dtr : BOOLEAN] :
     (s.st = "verb" => s.verb \in WILL..DONT) /\ Len(s.sb) <= SbMax}

IOs == [data : Seq(Byte), reply : Seq(Byte), raised : BOOLEAN]
Results == [s : Protos, io : IOs]

\* The bytes that Telnet gives a meaning are bytes, and its verbs are the
\* four.
LEMMA Consts ==
  /\ {IAC, DONT, DO, WONT, WILL, SB, SE, OPT_BINARY, OPT_SGA, OPT_COM_PORT} \subseteq Byte
  /\ WILL..DONT = {WILL, WONT, DO, DONT}
  /\ WILL..DONT \subseteq Byte
BY DEF IAC, DONT, DO, WONT, WILL, SB, SE, OPT_BINARY, OPT_SGA, OPT_COM_PORT, Byte

Doubled(b) == IF b = IAC THEN <<IAC, IAC>> ELSE <<b>>

\* How rfc2217_escape goes from byte to byte
LEMMA EscapeRuns ==
  ASSUME NEW bytes \in Seq(Byte)
  PROVE  \E f \in [0..Len(bytes) -> Seq(Byte)] :
           /\ f[0] = <<>>
           /\ \A i \in 1..Len(bytes) : f[i] = f[i - 1] \o Doubled(bytes[i])
           /\ Escape(bytes) = f[Len(bytes)]
<1> DEFINE n == Len(bytes)
           S == Seq(Byte)
           a == <<>>
           G(x, i) == x \o Doubled(bytes[i])
           g == [p \in S \X (1..n) |-> G(p[1], p[2])]
           body(f) == [i \in 0..n |-> IF i = 0 THEN a ELSE G(f[i - 1], i)]
           all == CHOOSE f : f = body(f)
<1>1. n \in Nat /\ a \in S
  OBVIOUS
<1>2. ASSUME NEW x \in S, NEW i \in 1..n PROVE G(x, i) \in S
  <2>1. Doubled(bytes[i]) \in Seq(Byte)
    BY Consts DEF Doubled
  <2> QED
    BY <2>1
<1>3. Escape(bytes) = all[n]
  BY DEF Escape, Doubled
<1> HIDE DEF n, S, a, G
<1>4. g \in [S \X (1..n) -> S]
  BY <1>2
<1>5. PICK f \in [0..n -> S] : Runs(f, n, a, g)
  <2> HIDE DEF g
  <2> QED
    BY <1>1, <1>4, Recursion
<1>6. ASSUME NEW i \in 1..n PROVE f[i] = G(f[i - 1], i)
  <2>1. <<f[i - 1], i>> \in S \X (1..n)
    BY <1>1
  <2> QED
    BY <2>1, <1>5 DEF Runs
<1>7. f = body(f) /\ f[0] = a
  BY <1>1, <1>5, <1>6 DEF Runs
<1>8. all = body(all)
  <2> HIDE DEF body
  <2> QED
    BY <1>7
<1>9. Alike(f, all, n)
  <2> HIDE DEF all
  <2>1. \A i \in 0..n : all[i] = body(all)[i]
    BY <1>8
  <2> QED
    BY <1>1, <1>6, <1>7, <2>1 DEF Alike
<1>10. all[n] = f[n]
  <2> HIDE DEF all
  <2> QED
    BY <1>1, <1>9, SameRun
<1> QED
  BY <1>3, <1>6, <1>7, <1>10 DEF n, S, a, G

\* What rfc2217_escape makes of bytes is bytes.
LEMMA EscapeType ==
  ASSUME NEW bytes \in Seq(Byte)
  PROVE  Escape(bytes) \in Seq(Byte)
<1>1. PICK f \in [0..Len(bytes) -> Seq(Byte)] : Escape(bytes) = f[Len(bytes)]
  BY EscapeRuns
<1> QED
  BY <1>1

\* A COM port reply (put_cpo) is bytes.
LEMMA CpoType ==
  ASSUME NEW cmd \in Byte, NEW payload \in Seq(Byte)
  PROVE  Cpo(cmd, payload) \in Seq(Byte)
<1>1. (cmd + SERVER_OFFSET) % 256 \in Byte
  BY DEF SERVER_OFFSET, Byte
<1>2. <<IAC, SB, OPT_COM_PORT, (cmd + SERVER_OFFSET) % 256>> \in Seq(Byte) /\ <<IAC, SE>> \in Seq(Byte)
  BY <1>1, Consts
<1>3. Escape(payload) \in Seq(Byte)
  BY EscapeType
<1> QED
  BY <1>2, <1>3 DEF Cpo

\* put adds to the reply and to nothing else.
LEMMA PutType ==
  ASSUME NEW io \in IOs, NEW bytes \in Seq(Byte)
  PROVE  Put(io, bytes) \in IOs /\ Put(io, bytes).data = io.data /\ Put(io, bytes).raised = io.raised
<1> DEFINE all == io.reply \o bytes
           k == IF Len(all) < ReplyMax THEN Len(all) ELSE ReplyMax
<1>1. all \in Seq(Byte) /\ k \in 0..Len(all)
  BY ProtoAssumption DEF IOs
<1>2. SubSeq(all, 1, k) \in Seq(Byte)
  <2> HIDE DEF all, k
  <2>1. \A i \in 1..k : all[i] \in Byte
    BY <1>1
  <2> QED
    BY <1>1, <2>1
<1> QED
  BY <1>2 DEF Put, IOs

\* on_verb answers in bytes and turns options on and off that there are.
LEMMA VerbTypes ==
  ASSUME NEW s \in Protos, NEW verb \in WILL..DONT, NEW opt \in Byte
  PROVE  Told(s, verb, opt) \in Protos /\ Answer(s, verb, opt) \in Seq(Byte)
<1>1. verb \in {WILL, WONT, DO, DONT}
  BY Consts
<1>2. Told(s, verb, opt) \in Protos
  <2>1. ASSUME NEW X \in SUBSET they_accept PROVE [s EXCEPT !.they = X] \in Protos
    BY DEF Protos
  <2>2. ASSUME NEW X \in SUBSET we_accept PROVE [s EXCEPT !.we = X] \in Protos
    BY DEF Protos
  <2>3. /\ s.they \cup (Bit(opt) \cap they_accept) \in SUBSET they_accept
        /\ s.they \ {opt} \in SUBSET they_accept
        /\ s.we \cup (Bit(opt) \cap we_accept) \in SUBSET we_accept
        /\ s.we \ {opt} \in SUBSET we_accept
    BY DEF Protos
  <2>4. Told(s, verb, opt) \in
          {s, [s EXCEPT !.they = @ \cup (Bit(opt) \cap they_accept)], [s EXCEPT !.they = @ \ {opt}],
           [s EXCEPT !.we = @ \cup (Bit(opt) \cap we_accept)], [s EXCEPT !.we = @ \ {opt}]}
    BY <1>1 DEF Told, WILL, WONT, DO, DONT
  <2> QED
    BY <2>1, <2>2, <2>3, <2>4
<1>3. \A v \in WILL..DONT : <<IAC, v, opt>> \in Seq(Byte)
  BY Consts
<1>4. <<>> \in Seq(Byte)
  OBVIOUS
<1>5. Answer(s, verb, opt) \in {<<>>} \cup {<<IAC, v, opt>> : v \in WILL..DONT}
  BY <1>1 DEF Answer, WILL, WONT, DO, DONT
<1> QED
  BY <1>2, <1>3, <1>4, <1>5

\* A reply to a setting is bytes, once the argument is as long as the setting
\* is wide.
LEMMA SettingType ==
  ASSUME NEW s \in Protos, NEW cmd \in 1..4, NEW arg \in Seq(Byte), Len(arg) >= SettingWidth[cmd]
  PROVE  Setting(s, cmd, arg) \in Seq(Byte)
<1>1. SettingWidth[cmd] \in 1..4
  BY DEF SettingWidth
<1>2. SubSeq(arg, 1, SettingWidth[cmd]) \in Seq(Byte)
  BY <1>1
<1>3. s.set[cmd] \in Seq(Byte)
  BY DEF Protos
<1> QED
  BY <1>2, <1>3 DEF Setting

\* on_subneg leaves the data that was found alone.
LEMMA SubnegType ==
  ASSUME NEW r \in Results, NEW m \in Byte
  PROVE  OnSubneg(r, m) \in Results /\ OnSubneg(r, m).io.data = r.io.data
<1> DEFINE cmd == Command(r.s)
           arg == Argument(r.s)
           Reply(payload) == Put(r.io, Cpo(cmd, payload))
<1> SUFFICES ASSUME ~r.s.overflow, Len(r.s.sb) >= 2
             PROVE  Subneg(r, m) \in Results /\ Subneg(r, m).io.data = r.io.data
  BY DEF OnSubneg, Results, Protos
<1>1. r.s \in Protos /\ r.io \in IOs /\ r.s.sb \in Seq(Byte) /\ r.s.set \in [1..4 -> Seq(Byte)]
  BY DEF Results, Protos
<1>2. cmd \in Byte /\ arg \in Seq(Byte)
  BY <1>1 DEF Command, Argument
<1>3. \A payload \in Seq(Byte) : Reply(payload) \in IOs /\ Reply(payload).data = r.io.data
  <2> SUFFICES ASSUME NEW payload \in Seq(Byte)
               PROVE  Reply(payload) \in IOs /\ Reply(payload).data = r.io.data
    OBVIOUS
  <2>1. Cpo(cmd, payload) \in Seq(Byte)
    BY <1>2, CpoType
  <2> QED
    BY <1>1, <2>1, PutType
<1> HIDE DEF Reply
<1>4. \A payload \in Seq(Byte) :
        [r EXCEPT !.io = Reply(payload)] \in Results /\ [r EXCEPT !.io = Reply(payload)].io.data = r.io.data
  BY <1>3 DEF Results
<1>5. arg # <<>> => <<arg[1]>> \in Seq(Byte)
  BY <1>2
<1>0. DOMAIN SettingWidth = 1..4 /\ SettingWidth \in [1..4 -> Nat]
  BY DEF SettingWidth
<1>a. /\ CPO_SIGNATURE = 0 /\ CPO_SET_CONTROL = 5 /\ CPO_NOTIFY_LINESTATE = 6 /\ CPO_NOTIFY_MODEMSTATE = 7
      /\ CPO_FLOWCONTROL = {8, 9}
  BY DEF CPO_NOTIFY_MODEMSTATE, CPO_NOTIFY_LINESTATE, CPO_SIGNATURE, CPO_SET_CONTROL, CPO_FLOWCONTROL
<1>6. CASE cmd = CPO_SIGNATURE
  <2>1. SIGNATURE \in Seq(Byte)
    BY DEF SIGNATURE, Byte
  <2> QED
    <3>1. Subneg(r, m) = IF arg = <<>> THEN [r EXCEPT !.io = Reply(SIGNATURE)] ELSE r
      BY <1>0, <1>a, <1>6 DEF Subneg, Reply
    <3> QED
      BY <1>4, <2>1, <3>1
<1>7. CASE cmd \in 1..4
  <2>1. DOMAIN SettingWidth = 1..4 /\ cmd # CPO_SIGNATURE
    BY <1>7, <1>0 DEF CPO_SIGNATURE
  <2>2. CASE Len(arg) < SettingWidth[cmd]
    <3>1. Subneg(r, m) = r
      BY <1>0, <1>a, <1>7, <2>2 DEF Subneg
    <3> QED
      BY <3>1
  <2>3. CASE ~(Len(arg) < SettingWidth[cmd])
    <3>1. Setting(r.s, cmd, arg) \in Seq(Byte)
      <4>1. Len(arg) >= SettingWidth[cmd]
        BY <1>2, <1>7, <2>3 DEF SettingWidth
      <4> QED
        BY <1>1, <1>2, <1>7, <4>1, SettingType
    <3>2. [r.s EXCEPT !.set[cmd] = Setting(r.s, cmd, arg)] \in Protos
      BY <1>1, <1>7, <3>1 DEF Protos
    <3>3. Subneg(r, m) = [s |-> [r.s EXCEPT !.set[cmd] = Setting(r.s, cmd, arg)],
                              io |-> Reply(Setting(r.s, cmd, arg))]
      BY <1>0, <1>a, <1>7, <2>3 DEF Subneg, Reply
    <3> QED
      BY <1>3, <3>1, <3>2, <3>3 DEF Results
  <2> QED
    BY <2>2, <2>3
<1>8. CASE cmd \in {CPO_NOTIFY_MODEMSTATE, CPO_NOTIFY_LINESTATE}
  <2>1. <<m>> \in Seq(Byte) /\ <<96>> \in Seq(Byte)
    BY DEF Byte
  <2>2. Subneg(r, m) \in {[r EXCEPT !.io = Reply(<<m>>)], [r EXCEPT !.io = Reply(<<96>>)]}
    BY <1>0, <1>a, <1>8 DEF Subneg, Reply
  <2> QED
    BY <1>4, <2>1, <2>2
<1>9. CASE cmd = CPO_SET_CONTROL /\ arg # <<>>
  <2>1. Reply(<<arg[1]>>) \in IOs /\ Reply(<<arg[1]>>).data = r.io.data
    BY <1>3, <1>5, <1>9
  <2>2. Subneg(r, m) =
          [s |-> [r.s EXCEPT !.dtr = (arg[1] = CONTROL_DTR_ON) \/ (@ /\ arg[1] # CONTROL_DTR_OFF)],
           io |-> [Reply(<<arg[1]>>) EXCEPT !.raised = @ \/ (arg[1] = CONTROL_DTR_ON /\ ~r.s.dtr)]]
    BY <1>0, <1>a, <1>9 DEF Subneg, Reply
  <2>3. [r.s EXCEPT !.dtr = (arg[1] = CONTROL_DTR_ON) \/ (@ /\ arg[1] # CONTROL_DTR_OFF)] \in Protos
    BY <1>1 DEF Protos
  <2>4. [Reply(<<arg[1]>>) EXCEPT !.raised = @ \/ (arg[1] = CONTROL_DTR_ON /\ ~r.s.dtr)] \in IOs
    BY <2>1 DEF IOs
  <2> QED
    BY <2>1, <2>2, <2>3, <2>4 DEF Results, IOs
<1>10. CASE cmd \in CPO_FLOWCONTROL \/ (cmd = CPO_SET_CONTROL /\ arg = <<>>)
  <2>1. Subneg(r, m) = r
    BY <1>0, <1>a, <1>10 DEF Subneg
  <2> QED
    BY <2>1
<1>11. CASE /\ cmd \notin 1..4 \cup CPO_FLOWCONTROL
            /\ cmd \notin {CPO_SIGNATURE, CPO_NOTIFY_MODEMSTATE, CPO_NOTIFY_LINESTATE, CPO_SET_CONTROL}
  <2>1. Subneg(r, m) = IF arg = <<>> THEN r ELSE [r EXCEPT !.io = Reply(<<arg[1]>>)]
    BY <1>0, <1>a, <1>11 DEF Subneg, Reply
  <2> QED
    BY <1>4, <1>5, <2>1
<1> QED
  BY <1>6, <1>7, <1>8, <1>9, <1>10, <1>11

\* The buffer of a subnegotiation does not overflow.
LEMMA KeepType ==
  ASSUME NEW s \in Protos, NEW b \in Byte
  PROVE  Keep(s, b) \in Protos
<1>1. CASE Len(s.sb) < SbMax
  <2>1. Append(s.sb, b) \in Seq(Byte) /\ Len(Append(s.sb, b)) <= SbMax
    BY <1>1, ProtoAssumption DEF Protos
  <2> QED
    BY <1>1, <2>1 DEF Keep, Protos
<1>2. CASE ~(Len(s.sb) < SbMax)
  BY <1>2 DEF Keep, Protos
<1> QED
  BY <1>1, <1>2

\* A byte more leaves the parser in one of its states.
LEMMA TakeType ==
  ASSUME NEW r \in Results, NEW b \in Byte, NEW m \in Byte
  PROVE  Take(r, b, m) \in Results
<1> DEFINE To(st) == [r EXCEPT !.s.st = st]
           Data == [r EXCEPT !.s.st = "data", !.io.data = Append(@, b)]
<1>1. r.s \in Protos /\ r.io \in IOs /\ r.s.st \in States
  BY DEF Results, Protos
<1>2. ASSUME NEW st \in States \ {"verb"} PROVE To(st) \in Results
  BY DEF Results, Protos, States
<1>3. Data \in Results
  <2>1. Append(r.io.data, b) \in Seq(Byte)
    BY <1>1 DEF IOs
  <2> QED
    BY <2>1 DEF Results, Protos, States, IOs
<1>4. ASSUME NEW v \in WILL..DONT PROVE [r EXCEPT !.s.st = "verb", !.s.verb = v] \in Results
  BY Consts DEF Results, Protos, States
<1>5. [r EXCEPT !.s.st = "sb", !.s.sb = <<>>, !.s.overflow = FALSE] \in Results
  <2>1. <<>> \in Seq(Byte) /\ Len(<<>>) <= SbMax
    BY ProtoAssumption
  <2> QED
    BY <2>1 DEF Results, Protos, States
<1>6. ASSUME NEW q \in Results PROVE [q EXCEPT !.s.st = "data"] \in Results
  BY DEF Results, Protos, States
<1>7. ASSUME NEW s \in Protos, NEW st \in {"sb", s.st}
      PROVE  [r EXCEPT !.s = s] \in Results /\ [r EXCEPT !.s = [s EXCEPT !.st = "sb"]] \in Results
  BY DEF Results, Protos, States
<1>8. Keep(r.s, b) \in Protos
  BY <1>1, KeepType
<1>9. CASE r.s.st = "data"
  <2>1. Take(r, b, m) \in {To("iac"), Data}
    BY <1>9 DEF Take
  <2>2. To("iac") \in Results
    BY <1>2 DEF States
  <2> QED
    BY <1>3, <2>1, <2>2
<1>10. CASE r.s.st = "iac"
  <2>1. \/ Take(r, b, m) \in {Data, [r EXCEPT !.s.st = "sb", !.s.sb = <<>>, !.s.overflow = FALSE], To("data")}
        \/ b \in WILL..DONT /\ Take(r, b, m) = [r EXCEPT !.s.st = "verb", !.s.verb = b]
    <3>1. /\ IAC # SB /\ IAC \notin WILL..DONT /\ SB \notin WILL..DONT
      BY DEF IAC, WILL, DONT, SB
    <3> QED
      BY <1>10, <3>1 DEF Take
  <2>2. To("data") \in Results
    BY <1>2 DEF States
  <2> QED
    BY <1>3, <1>4, <1>5, <2>1, <2>2
<1>11. CASE r.s.st = "verb"
  <2>1. r.s.verb \in WILL..DONT
    BY <1>1, <1>11 DEF Protos
  <2>2. OnVerb(r, r.s.verb, b) \in Results
    <3>1. Told(r.s, r.s.verb, b) \in Protos /\ Answer(r.s, r.s.verb, b) \in Seq(Byte)
      BY <1>1, <2>1, VerbTypes
    <3>2. Put(r.io, Answer(r.s, r.s.verb, b)) \in IOs
      BY <1>1, <3>1, PutType
    <3> QED
      BY <3>1, <3>2 DEF OnVerb, Results
  <2> QED
    BY <1>6, <1>11, <2>2 DEF Take
<1>12. CASE r.s.st = "sb"
  <2>1. Take(r, b, m) \in {To("sb_iac"), [r EXCEPT !.s = Keep(r.s, b)]}
    BY <1>12 DEF Take
  <2>2. To("sb_iac") \in Results
    BY <1>2 DEF States
  <2> QED
    BY <1>7, <1>8, <2>1, <2>2
<1>13. CASE r.s.st = "sb_iac"
  <2>1. Take(r, b, m) \in {[r EXCEPT !.s = [Keep(r.s, b) EXCEPT !.st = "sb"]],
           [OnSubneg(r, m) EXCEPT !.s.st = "data"], To("sb")}
    BY <1>13 DEF Take, IAC, SE
  <2>2. To("sb") \in Results
    BY <1>2 DEF States
  <2>3. OnSubneg(r, m) \in Results
    BY SubnegType
  <2> QED
    BY <1>6, <1>7, <1>8, <2>1, <2>2, <2>3
<1> QED
  BY <1>1, <1>9, <1>10, <1>11, <1>12, <1>13 DEF States

NoIO == [data |-> <<>>, reply |-> <<>>, raised |-> FALSE]

\* How rfc2217_input goes from byte to byte
LEMMA InputRuns ==
  ASSUME NEW s \in Protos, NEW bytes \in Seq(Byte), NEW m \in Byte
  PROVE  \E f \in [0..Len(bytes) -> Results] :
           /\ f[0] = [s |-> s, io |-> NoIO]
           /\ \A i \in 1..Len(bytes) : f[i] = Take(f[i - 1], bytes[i], m)
           /\ Input(s, bytes, m) = f[Len(bytes)]
<1> DEFINE n == Len(bytes)
           S == Results
           a == [s |-> s, io |-> NoIO]
           G(x, i) == The({Take(r, bytes[i], m) : r \in {x}})
           g == [p \in S \X (1..n) |-> G(p[1], p[2])]
           body(f) == [i \in 0..n |-> IF i = 0 THEN a ELSE G(f[i - 1], i)]
           all == CHOOSE f : f = body(f)
<1>1. n \in Nat /\ a \in S
  <2>1. NoIO \in IOs
    BY DEF NoIO, IOs
  <2> QED
    BY <2>1 DEF Results
<1>2. ASSUME NEW x \in S, NEW i \in 1..n PROVE G(x, i) \in S
  <2>1. G(x, i) = Take(x, bytes[i], m)
    BY DEF The
  <2> QED
    BY <2>1, TakeType
<1>3. Input(s, bytes, m) = all[n]
  BY DEF Input, NoIO
<1> HIDE DEF n, S, a, G
<1>4. g \in [S \X (1..n) -> S]
  BY <1>2
<1>5. PICK f \in [0..n -> S] : Runs(f, n, a, g)
  <2> HIDE DEF g
  <2> QED
    BY <1>1, <1>4, Recursion
<1>6. ASSUME NEW i \in 1..n PROVE f[i] = G(f[i - 1], i)
  <2>1. <<f[i - 1], i>> \in S \X (1..n)
    BY <1>1
  <2> QED
    BY <2>1, <1>5 DEF Runs
<1>7. f = body(f) /\ f[0] = a
  BY <1>1, <1>5, <1>6 DEF Runs
<1>8. all = body(all)
  <2> HIDE DEF body
  <2> QED
    BY <1>7
<1>9. Alike(f, all, n)
  <2> HIDE DEF all
  <2>1. \A i \in 0..n : all[i] = body(all)[i]
    BY <1>8
  <2> QED
    BY <1>1, <1>6, <1>7, <2>1 DEF Alike
<1>10. all[n] = f[n]
  <2> HIDE DEF all
  <2> QED
    BY <1>1, <1>9, SameRun
<1> QED
  <2>1. \A i \in 1..n : G(f[i - 1], i) = Take(f[i - 1], bytes[i], m)
    BY DEF G, The
  <2> QED
    BY <1>3, <1>6, <1>7, <1>10, <2>1 DEF n, S, a

\* So does a chunk (rfc2217_input).
LEMMA InputType ==
  ASSUME NEW s \in Protos, NEW bytes \in Seq(Byte), NEW m \in Byte
  PROVE  Input(s, bytes, m) \in Results
<1>1. PICK f \in [0..Len(bytes) -> Results] : Input(s, bytes, m) = f[Len(bytes)]
  BY InputRuns
<1> QED
  BY <1>1

-----------------------------------------------------------------------------
(* The echo filter and the ring *)

Items == [at : Nat, b : Byte]
Inputs == Nat \cup {NoInput}
Echos == {e \in [input : Inputs, hold : Seq(Items)] :
            Len(e.hold) < HoldMax /\ (e.input = NoInput => e.hold = <<>>)}
Filters == [e : Echos, out : Seq(Items)]

\* The filter at rest, and when an input has been asked for, holds nothing.
LEMMA NoEchoType == NoEcho \in Echos /\ \A n \in Inputs : Expect(n) \in Echos
BY ProtoAssumption DEF NoEcho, Expect, Echos, Inputs, NoInput

\* A byte more leaves room in the filter's buffer.
LEMMA FilterOneType ==
  ASSUME NEW f \in Filters, NEW item \in Items
  PROVE  FilterOne(f, item) \in Filters
<1> DEFINE hold == Append(f.e.hold, item)
           goesOn == f.out \o hold
<1>1. f.e \in Echos /\ f.out \in Seq(Items) /\ f.e.hold \in Seq(Items) /\ f.e.input \in Inputs
  BY DEF Filters, Echos
<1>2. hold \in Seq(Items) /\ Len(hold) = Len(f.e.hold) + 1
  BY <1>1
<1>3. goesOn \in Seq(Items) /\ Append(f.out, item) \in Seq(Items)
  BY <1>1, <1>2
<1>4. NoEcho \in Echos /\ Expect(f.e.input) \in Echos
  BY <1>1, NoEchoType
<1>5. CASE f.e.input = NoInput
  <2>1. FilterOne(f, item) = [f EXCEPT !.out = Append(@, item)]
    BY <1>5 DEF FilterOne
  <2> QED
    BY <1>1, <1>3, <2>1 DEF Filters
<1>6. CASE f.e.input # NoInput /\ item.b = Newline
  <2>1. FilterOne(f, item) \in {[f EXCEPT !.e = NoEcho], [e |-> Expect(f.e.input), out |-> goesOn]}
    BY <1>6 DEF FilterOne
  <2>2. [f EXCEPT !.e = NoEcho] \in Filters
    BY <1>4 DEF Filters
  <2>3. [e |-> Expect(f.e.input), out |-> goesOn] \in Filters
    BY <1>3, <1>4 DEF Filters
  <2> QED
    BY <2>1, <2>2, <2>3
<1>7. CASE f.e.input # NoInput /\ item.b # Newline /\ Len(hold) = HoldMax
  <2>1. FilterOne(f, item) = [e |-> NoEcho, out |-> goesOn]
    BY <1>7 DEF FilterOne
  <2> QED
    BY <1>3, <1>4, <2>1 DEF Filters
<1>8. CASE f.e.input # NoInput /\ item.b # Newline /\ Len(hold) # HoldMax
  <2>1. FilterOne(f, item) = [f EXCEPT !.e.hold = hold]
    BY <1>8 DEF FilterOne
  <2>2. Len(hold) < HoldMax
    BY <1>1, <1>2, <1>8, ProtoAssumption DEF Echos
  <2>3. [f.e EXCEPT !.hold = hold] \in Echos
    BY <1>1, <1>2, <1>8, <2>2 DEF Echos
  <2> QED
    BY <1>1, <2>1, <2>3 DEF Filters
<1> QED
  BY <1>5, <1>6, <1>7, <1>8

\* How rfc2217_echo_filter goes from byte to byte
LEMMA FilterRuns ==
  ASSUME NEW e \in Echos, NEW items \in Seq(Items)
  PROVE  \E f \in [0..Len(items) -> Filters] :
           /\ f[0] = [e |-> e, out |-> <<>>]
           /\ \A i \in 1..Len(items) : f[i] = FilterOne(f[i - 1], items[i])
           /\ EchoFilter(e, items) = f[Len(items)]
<1> DEFINE n == Len(items)
           S == Filters
           a == [e |-> e, out |-> <<>>]
           G(x, i) == The({FilterOne(u, items[i]) : u \in {x}})
           g == [p \in S \X (1..n) |-> G(p[1], p[2])]
           body(f) == [i \in 0..n |-> IF i = 0 THEN a ELSE G(f[i - 1], i)]
           all == CHOOSE f : f = body(f)
<1>1. n \in Nat /\ a \in S
  BY DEF Filters
<1>2. ASSUME NEW x \in S, NEW i \in 1..n PROVE G(x, i) \in S
  <2>1. G(x, i) = FilterOne(x, items[i])
    BY DEF The
  <2> QED
    BY <2>1, FilterOneType
<1>3. EchoFilter(e, items) = all[n]
  BY DEF EchoFilter
<1> HIDE DEF n, S, a, G
<1>4. g \in [S \X (1..n) -> S]
  BY <1>2
<1>5. PICK f \in [0..n -> S] : Runs(f, n, a, g)
  <2> HIDE DEF g
  <2> QED
    BY <1>1, <1>4, Recursion
<1>6. ASSUME NEW i \in 1..n PROVE f[i] = G(f[i - 1], i)
  <2>1. <<f[i - 1], i>> \in S \X (1..n)
    BY <1>1
  <2> QED
    BY <2>1, <1>5 DEF Runs
<1>7. f = body(f) /\ f[0] = a
  BY <1>1, <1>5, <1>6 DEF Runs
<1>8. all = body(all)
  <2> HIDE DEF body
  <2> QED
    BY <1>7
<1>9. Alike(f, all, n)
  <2> HIDE DEF all
  <2>1. \A i \in 0..n : all[i] = body(all)[i]
    BY <1>8
  <2> QED
    BY <1>1, <1>6, <1>7, <2>1 DEF Alike
<1>10. all[n] = f[n]
  <2> HIDE DEF all
  <2> QED
    BY <1>1, <1>9, SameRun
<1> QED
  <2>1. \A i \in 1..n : G(f[i - 1], i) = FilterOne(f[i - 1], items[i])
    BY DEF G, The
  <2> QED
    BY <1>3, <1>6, <1>7, <1>10, <2>1 DEF n, S, a

\* So does a chunk (rfc2217_echo_filter).
LEMMA FilterType ==
  ASSUME NEW e \in Echos, NEW items \in Seq(Items)
  PROVE  EchoFilter(e, items) \in Filters
<1>1. PICK f \in [0..Len(items) -> Filters] : EchoFilter(e, items) = f[Len(items)]
  BY FilterRuns
<1> QED
  BY <1>1

\* A sequence of bytes spells a number or none.
LEMMA NumberType ==
  ASSUME NEW bytes \in Seq(Byte)
  PROVE  Number(bytes) \in Inputs
<1> DEFINE n == Len(bytes)
           S == Inputs
           a == NoInput
           G(x, i) == IF bytes[i] \notin Digits THEN x
                      ELSE (IF x = NoInput THEN 0 ELSE x * 10) + bytes[i] - 48
           g == [p \in S \X (1..n) |-> G(p[1], p[2])]
           body(f) == [i \in 0..n |-> IF i = 0 THEN a ELSE G(f[i - 1], i)]
           all == CHOOSE f : f = body(f)
<1>1. n \in Nat /\ a \in S
  BY DEF Inputs
<1>2. ASSUME NEW x \in S, NEW i \in 1..n PROVE G(x, i) \in S
  BY DEF Inputs, NoInput, Digits, Byte
<1>3. Number(bytes) = all[n]
  BY DEF Number
<1> HIDE DEF n, S, a, G
<1>4. g \in [S \X (1..n) -> S]
  BY <1>2
<1>5. PICK f \in [0..n -> S] : Runs(f, n, a, g)
  <2> HIDE DEF g
  <2> QED
    BY <1>1, <1>4, Recursion
<1>6. ASSUME NEW i \in 1..n PROVE f[i] = G(f[i - 1], i)
  <2>1. <<f[i - 1], i>> \in S \X (1..n)
    BY <1>1
  <2> QED
    BY <2>1, <1>5 DEF Runs
<1>7. f = body(f) /\ f[0] = a
  BY <1>1, <1>5, <1>6 DEF Runs
<1>8. all = body(all)
  <2> HIDE DEF body
  <2> QED
    BY <1>7
<1>9. Alike(f, all, n)
  <2> HIDE DEF all
  <2>1. \A i \in 0..n : all[i] = body(all)[i]
    BY <1>8
  <2> QED
    BY <1>1, <1>6, <1>7, <2>1 DEF Alike
<1>10. all[n] = f[n]
  <2> HIDE DEF all
  <2> QED
    BY <1>1, <1>9, SameRun
<1> QED
  BY <1>1, <1>3, <1>10 DEF S

\* A trimmed line is bytes.
LEMMA SpelledLine ==
  ASSUME NEW line \in Seq(Byte)
  PROVE  Trimmed(line) \in Seq(Byte)
<1> DEFINE kept == {i \in DOMAIN line : ~IsEnd(line[i])}
           first == CHOOSE i \in kept : \A j \in kept : i <= j
           last == CHOOSE i \in kept : \A j \in kept : i >= j
<1> SUFFICES ASSUME kept # {} PROVE SubSeq(line, first, last) \in Seq(Byte)
  BY DEF Trimmed
<1>1. kept \subseteq 1..Len(line)
  OBVIOUS
<1>2. first \in kept
  <2>1. \E i \in kept : \A j \in kept : i <= j
    <3> HIDE DEF kept
    <3>1. kept \in SUBSET Nat
      BY <1>1
    <3> QED
      BY <3>1, Least
  <2> QED
    BY <2>1
<1>3. last \in kept
  <2>1. \E i \in kept : \A j \in kept : i >= j
    <3> DEFINE S == {Len(line) - i : i \in kept}
    <3>1. S \in SUBSET Nat /\ S # {}
      BY <1>1
    <3>2. PICK m \in S : \A k \in S : m <= k
      <4> HIDE DEF S
      <4> QED
        BY <3>1, Least
    <3>3. PICK i \in kept : m = Len(line) - i
      BY <3>2
    <3>4. ASSUME NEW j \in kept PROVE i >= j
      <4>1. m <= Len(line) - j /\ i \in Int /\ j \in Int /\ Len(line) \in Int
        BY <3>2, <1>1
      <4> QED
        BY <4>1, <3>3
    <3> QED
      BY <3>3, <3>4
  <2> QED
    BY <2>1
<1> HIDE DEF first, last
<1>4. first \in 1..Len(line) /\ last \in 1..Len(line)
  BY <1>1, <1>2, <1>3
<1>5. \A i \in first..last : line[i] \in Byte
  BY <1>4
<1> QED
  BY <1>4, <1>5

\* Two places that are less than the size of a ring apart are different slots.
LEMMA SlotsApart ==
  ASSUME NEW T \in Nat \ {0}, NEW a \in Nat, NEW b \in Nat, a < b, b - a < T
  PROVE  a % T # b % T
<1> SUFFICES ASSUME a % T = b % T PROVE FALSE
  OBVIOUS
<1> DEFINE p == a \div T
           q == b \div T
<1>1. p \in Int /\ q \in Int /\ a = T * p + (a % T) /\ b = T * q + (b % T)
  OBVIOUS
<1> HIDE DEF p, q
<1>2. b - a = T * q - T * p
  BY <1>1
<1>3. b - a = T * (q - p)
  BY <1>1, <1>2
<1>4. CASE q - p <= 0
  <2>1. T * (q - p) <= 0
    BY <1>1, <1>4
  <2> QED
    BY <1>3, <2>1
<1>5. CASE q - p >= 1
  <2>1. T * (q - p) >= T
    BY <1>1, <1>5
  <2> QED
    BY <1>3, <2>1
<1> QED
  BY <1>1, <1>4, <1>5

\* A place modulo the size of the ring is a slot.
LEMMA SlotType ==
  ASSUME NEW T \in Nat \ {0}, NEW a \in Nat
  PROVE  a % T \in 0..T - 1
OBVIOUS

Slots == 0..TapSize - 1

\* The ring r holds what was said last of text.
Rings(r, text) ==
  \A p \in 1..Len(text) :
    Len(text) - p < TapSize => r[(p - 1) % TapSize] = [at |-> p, b |-> text[p]]

IsTapRun(f, r, text, bytes) ==
  /\ f[0] = r
  /\ \A i \in 1..Len(bytes) :
       f[i] = [f[i - 1] EXCEPT ![(Len(text) + i - 1) % TapSize] = [at |-> Len(text) + i, b |-> bytes[i]]]
  /\ TapAdd(r, Len(text), bytes) = f[Len(bytes)]

\* The sizes of the ring and of the buffers are numbers, and not 0.
LEMMA TapSizes == TapSize \in Nat \ {0} /\ RawMax \in Nat \ {0} /\ LineMax \in Nat \ {0}
BY ServerAssumption

\* How tap_add goes from byte to byte, if the SVS said text before
LEMMA TapRuns ==
  ASSUME NEW text \in Seq(Byte), NEW bytes \in Seq(Byte), NEW r \in [Slots -> Items]
  PROVE  \E f \in [0..Len(bytes) -> [Slots -> Items]] :
           IsTapRun(f, r, text, bytes)
<1> DEFINE n == Len(bytes)
           S == [Slots -> Items]
           a == r
           G(x, i) == [x EXCEPT ![(Len(text) + i - 1) % TapSize] = [at |-> Len(text) + i, b |-> bytes[i]]]
           g == [p \in S \X (1..n) |-> G(p[1], p[2])]
           body(f) == [i \in 0..n |-> IF i = 0 THEN a ELSE G(f[i - 1], i)]
           all == CHOOSE f : f = body(f)
<1>1. n \in Nat /\ a \in S
  OBVIOUS
<1>2. ASSUME NEW x \in S, NEW i \in 1..n PROVE G(x, i) \in S
  <2>1. [at |-> Len(text) + i, b |-> bytes[i]] \in Items
    BY DEF Items
  <2> QED
    BY <2>1
<1>3. TapAdd(r, Len(text), bytes) = all[n]
  BY DEF TapAdd
<1> HIDE DEF n, S, a, G
<1>4. g \in [S \X (1..n) -> S]
  BY <1>2
<1>5. PICK f \in [0..n -> S] : Runs(f, n, a, g)
  <2> HIDE DEF g
  <2> QED
    BY <1>1, <1>4, Recursion
<1>6. ASSUME NEW i \in 1..n PROVE f[i] = G(f[i - 1], i)
  <2>1. <<f[i - 1], i>> \in S \X (1..n)
    BY <1>1
  <2> QED
    BY <2>1, <1>5 DEF Runs
<1>7. f = body(f) /\ f[0] = a
  BY <1>1, <1>5, <1>6 DEF Runs
<1>8. all = body(all)
  <2> HIDE DEF body
  <2> QED
    BY <1>7
<1>9. Alike(f, all, n)
  <2> HIDE DEF all
  <2>1. \A i \in 0..n : all[i] = body(all)[i]
    BY <1>8
  <2> QED
    BY <1>1, <1>6, <1>7, <2>1 DEF Alike
<1>10. all[n] = f[n]
  <2> HIDE DEF all
  <2> QED
    BY <1>1, <1>9, SameRun
<1> QED
  BY <1>3, <1>6, <1>7, <1>10 DEF IsTapRun, n, S, a, G

\* tap_add keeps the ring.
LEMMA TapKept ==
  ASSUME NEW text \in Seq(Byte), NEW bytes \in Seq(Byte), NEW r \in [Slots -> Items], Rings(r, text)
  PROVE  /\ TapAdd(r, Len(text), bytes) \in [Slots -> Items]
         /\ Rings(TapAdd(r, Len(text), bytes), text \o bytes)
<1> USE TapSizes
<1> DEFINE n == Len(text)
           all == text \o bytes
           Good(x, i) == \A p \in 1..n + i : n + i - p < TapSize => x[(p - 1) % TapSize] = [at |-> p, b |-> all[p]]
<1>1. PICK f \in [0..Len(bytes) -> [Slots -> Items]] :
           IsTapRun(f, r, text, bytes)
  <2> HIDE DEF n
  <2> QED
    BY TapRuns
<1>0. n \in Nat /\ Len(bytes) \in Nat /\ Len(all) = n + Len(bytes) /\ \A p \in 1..n : all[p] = text[p]
  OBVIOUS
<1>2. Good(f[0], 0)
  <2> SUFFICES ASSUME NEW p \in 1..n, n - p < TapSize PROVE f[0][(p - 1) % TapSize] = [at |-> p, b |-> all[p]]
    BY <1>0
  <2> QED
    BY <1>0, <1>1 DEF Rings, IsTapRun
<1>3. ASSUME NEW i \in 1..Len(bytes), Good(f[i - 1], i - 1)
      PROVE  Good(f[i], i)
  <2> SUFFICES ASSUME NEW p \in 1..n + i, n + i - p < TapSize
               PROVE  f[i][(p - 1) % TapSize] = [at |-> p, b |-> all[p]]
    OBVIOUS
  <2>1. f[i - 1] \in [Slots -> Items] /\ n \in Nat
    <3>1. i - 1 \in 0..Len(bytes)
      OBVIOUS
    <3> HIDE DEF n
    <3> QED
      BY <1>0, <3>1
  <2>2. (n + i - 1) % TapSize \in Slots /\ (p - 1) % TapSize \in Slots
    <3>1. n + i - 1 \in Nat /\ p - 1 \in Nat
      BY <2>1
    <3> QED
      BY <3>1, SlotType DEF Slots
  <2>3. CASE p = n + i
    <3>1. all[p] = bytes[i]
      BY <2>3
    <3>2. f[i][(n + i - 1) % TapSize] = [at |-> n + i, b |-> bytes[i]]
      BY <1>1, <2>1, <2>2 DEF IsTapRun
    <3> QED
      BY <2>3, <3>1, <3>2
  <2>4. CASE p # n + i
    <3>0. p \in Nat /\ p <= n + i /\ p >= 1 /\ i \in Nat /\ i >= 1
      BY <2>1
    <3>a. n \in Nat /\ TapSize \in Nat
      BY <1>0
    <3>b. p <= n + (i - 1) /\ n + (i - 1) - p < TapSize /\ n + (i - 1) \in Nat
      <4> HIDE DEF n
      <4> QED
        BY <2>4, <3>0, <3>a
    <3>1. p \in 1..n + (i - 1) /\ n + (i - 1) - p < TapSize
      <4> HIDE DEF n
      <4> QED
        BY <3>0, <3>b
    <3>2. p - 1 < n + i - 1 /\ (n + i - 1) - (p - 1) < TapSize /\ p - 1 \in Nat /\ n + i - 1 \in Nat
      BY <2>1, <3>1
    <3>3. (p - 1) % TapSize # (n + i - 1) % TapSize
      BY <3>2, SlotsApart
    <3>4. f[i - 1][(p - 1) % TapSize] = [at |-> p, b |-> all[p]]
      BY <1>3, <3>1
    <3>5. f[i][(p - 1) % TapSize] = f[i - 1][(p - 1) % TapSize]
      BY <1>1, <2>1, <2>2, <3>3 DEF IsTapRun
    <3> QED
      BY <3>4, <3>5
  <2> QED
    BY <2>3, <2>4
<1>4. \A i \in 0..Len(bytes) : Good(f[i], i)
  <2> DEFINE A == {i \in 0..Len(bytes) : Good(f[i], i)}
  <2> HIDE DEF Good
  <2>1. 0 \in A /\ \A i \in 1..Len(bytes) : i - 1 \in A => i \in A
    BY <1>2, <1>3
  <2>2. \A i \in 0..Len(bytes) : i \in A
    <3> HIDE DEF A
    <3>1. Len(bytes) \in Nat
      OBVIOUS
    <3> QED
      BY <2>1, <3>1, Upto
  <2> QED
    BY <2>2
<1>5. Good(f[Len(bytes)], Len(bytes))
  <2> HIDE DEF Good
  <2> QED
    BY <1>0, <1>4
<1>6. Rings(f[Len(bytes)], all)
  <2> HIDE DEF all
  <2> QED
    BY <1>0, <1>5 DEF Rings
<1>7. f[Len(bytes)] \in [Slots -> Items] /\ TapAdd(r, Len(text), bytes) = f[Len(bytes)]
  BY <1>0, <1>1 DEF IsTapRun
<1> QED
  BY <1>6, <1>7

\* The ring holds nothing from beyond what was said.
LEMMA TapBound ==
  ASSUME NEW text \in Seq(Byte), NEW bytes \in Seq(Byte), NEW r \in [Slots -> Items],
         \A j \in Slots : r[j].at <= Len(text)
  PROVE  \A j \in Slots : TapAdd(r, Len(text), bytes)[j].at <= Len(text \o bytes)
<1> DEFINE n == Len(text)
           Below(x, i) == \A j \in Slots : x[j].at <= n + i
<1>1. PICK f \in [0..Len(bytes) -> [Slots -> Items]] : IsTapRun(f, r, text, bytes)
  BY TapRuns
<1>2. n \in Nat /\ Len(bytes) \in Nat /\ Len(text \o bytes) = n + Len(bytes)
  OBVIOUS
<1> DEFINE A == {i \in 0..Len(bytes) : Below(f[i], i)}
<1>3. 0 \in A
  <2>1. f[0] = r
    BY <1>1 DEF IsTapRun
  <2>2. \A j \in Slots : f[0][j].at <= n + 0
    BY <1>2, <2>1
  <2> QED
    BY <1>2, <2>2
<1>4. ASSUME NEW i \in 1..Len(bytes), i - 1 \in A PROVE i \in A
  <2>1. f[i - 1] \in [Slots -> Items] /\ i \in 0..Len(bytes)
    <3>1. i - 1 \in 0..Len(bytes)
      OBVIOUS
    <3> QED
      BY <3>1
  <2>2. ASSUME NEW j \in Slots PROVE f[i][j].at <= n + i
    <3>1. f[i - 1][j].at <= n + (i - 1) /\ f[i - 1][j].at \in Nat
      BY <1>4, <2>1 DEF Items
    <3>2. f[i][j] = f[i - 1][j] \/ f[i][j] = [at |-> n + i, b |-> bytes[i]]
      BY <1>1, <2>1 DEF IsTapRun
    <3> QED
      BY <1>2, <3>1, <3>2
  <2> QED
    BY <2>1, <2>2
<1>5. Len(bytes) \in A
  <2>1. \A i \in 0..Len(bytes) : i \in A
    <3> HIDE DEF A
    <3> QED
      BY <1>2, <1>3, <1>4, Upto
  <2> HIDE DEF A
  <2> QED
    BY <1>2, <2>1
<1> QED
  BY <1>1, <1>2, <1>5 DEF IsTapRun

-----------------------------------------------------------------------------
(* Clients *)

Asked == [input : Inputs, held : SUBSET Nat]

\* A client, whatever it typed
Kinds ==
  [proto : Protos, pos : Nat, modem : {-1, MODEM_LINK_UP, MODEM_LINK_DOWN}, line : Seq(Byte), echo : Echos,
   late : BOOLEAN, from : Nat, got : Seq(Nat), asks : Seq(Asked), passed : Seq(Byte), whole : BOOLEAN]

IsProper(k) == k \in Kinds /\ Len(k.line) < LineMax /\ (k.echo.input = NoInput => ~k.late)
Proper == {k \in Kinds : IsProper(k)}

\* What is held, by place
Held(e) == {e.hold[i].at : i \in DOMAIN e.hold}

\* A line was an Y or G of input n.
Asks(k, n) ==
  [k EXCEPT !.line = <<>>, !.echo = Expect(n), !.late = FALSE,
            !.asks = Append(@, [input |-> n, held |-> Held(k.echo)])]

\* Asking for an input leaves a client's fields in their types.
LEMMA AskType ==
  ASSUME NEW k \in Proper, NEW n \in Inputs
  PROVE  Asks(k, n) \in Proper
<1>1. k \in Kinds /\ k.echo \in Echos /\ k.asks \in Seq(Asked)
  BY DEF Proper, Kinds
<1>2. Held(k.echo) \in SUBSET Nat
  <2>1. k.echo.hold \in Seq(Items)
    BY <1>1 DEF Echos
  <2>2. \A i \in DOMAIN k.echo.hold : k.echo.hold[i] \in Items
    BY <2>1
  <2> QED
    BY <2>2 DEF Held, Items
<1>3. Append(k.asks, [input |-> n, held |-> Held(k.echo)]) \in Seq(Asked)
  BY <1>1, <1>2 DEF Asked
<1>4. Expect(n) \in Echos
  BY NoEchoType
<1>5. <<>> \in Seq(Byte) /\ Len(<<>>) < LineMax
  BY TapSizes
<1>6. Asks(k, n) \in Kinds
  BY <1>1, <1>3, <1>4, <1>5 DEF Asks, Kinds
<1>7. Asks(k, n).line = <<>> /\ ~Asks(k, n).late
  BY <1>1 DEF Asks, Kinds
<1> QED
  BY <1>5, <1>6, <1>7 DEF Proper, IsProper

\* So does a shorter line being typed.
LEMMA LineType ==
  ASSUME NEW k \in Proper, NEW line \in Seq(Byte), Len(line) < LineMax
  PROVE  [k EXCEPT !.line = line] \in Proper
BY DEF Proper, IsProper, Kinds

\* What a byte that a client types does
LEMMA TypedEffect ==
  ASSUME NEW k \in Proper, NEW b \in Byte
  PROVE  \/ \E line \in Seq(Byte) : Len(line) < LineMax /\ Typed(k, b) = [k EXCEPT !.line = line]
         \/ \E n \in Inputs : Typed(k, b) = Asks(k, n)
<1> DEFINE line == IF Len(k.line) < LineMax THEN Append(k.line, b) ELSE k.line
           kept == [k EXCEPT !.line = line]
           cmd == Trimmed(line)
<1>1. k \in Kinds /\ k.line \in Seq(Byte) /\ Len(k.line) < LineMax
  BY DEF Proper, IsProper, Kinds
<1>2. line \in Seq(Byte) /\ Len(line) = Len(k.line) + 1
  BY <1>1
<1>3. cmd \in Seq(Byte)
  BY <1>2, SpelledLine
<1>4. kept.line = line /\ kept.echo = k.echo /\ kept.asks = k.asks
  BY <1>1 DEF Kinds
<1>5. Typed(k, b) = IF b = Newline \/ Len(line) = LineMax THEN LogLine(kept) ELSE kept
  BY <1>1, <1>4 DEF Typed
<1>6. CASE ~(b = Newline \/ Len(line) = LineMax)
  <2>1. Len(line) < LineMax
    BY <1>1, <1>2, <1>6, TapSizes
  <2> HIDE DEF line
  <2> QED
    BY <1>2, <1>5, <1>6, <2>1
<1>7. CASE (b = Newline \/ Len(line) = LineMax) /\ ~IsAsk(cmd)
  <2> HIDE DEF line
  <2>1. LogLine(kept) = [kept EXCEPT !.line = <<>>]
    BY <1>4, <1>7 DEF LogLine
  <2>2. [kept EXCEPT !.line = <<>>] = [k EXCEPT !.line = <<>>]
    BY <1>1 DEF Kinds
  <2>3. <<>> \in Seq(Byte) /\ Len(<<>>) < LineMax
    BY TapSizes
  <2> QED
    BY <1>5, <1>7, <2>1, <2>2, <2>3
<1>8. CASE (b = Newline \/ Len(line) = LineMax) /\ IsAsk(cmd)
  <2> HIDE DEF line
  <2>1. Tail(cmd) \in Seq(Byte)
    <3>1. Len(cmd) \in 2..4
      BY <1>8 DEF IsAsk
    <3> HIDE DEF cmd
    <3> QED
      BY <1>3, <3>1
  <2>2. Number(Tail(cmd)) \in Inputs
    BY <2>1, NumberType
  <2>3. LogLine(kept) = [kept EXCEPT !.line = <<>>, !.echo = Expect(Number(Tail(cmd))), !.late = FALSE,
                     !.asks = Append(@, [input |-> Number(Tail(cmd)), held |-> Held(k.echo)])]
    BY <1>4, <1>8 DEF LogLine, Held
  <2>4. LogLine(kept) = Asks(k, Number(Tail(cmd)))
    <3> HIDE DEF cmd
    <3> QED
      BY <1>1, <2>3 DEF Asks, Kinds
  <2> QED
    BY <1>5, <1>8, <2>2, <2>4
<1> QED
  BY <1>6, <1>7, <1>8

\* So does a typed byte (log_line): the line has room for the next one.
LEMMA TypedType ==
  ASSUME NEW k \in Proper, NEW b \in Byte
  PROVE  Typed(k, b) \in Proper
BY TypedEffect, AskType, LineType

\* How from_client goes from byte to byte
LEMMA TypedRuns ==
  ASSUME NEW k \in Proper, NEW bytes \in Seq(Byte)
  PROVE  \E f \in [0..Len(bytes) -> Proper] :
           /\ f[0] = k
           /\ \A i \in 1..Len(bytes) : f[i] = Typed(f[i - 1], bytes[i])
           /\ TypedAll(k, bytes) = f[Len(bytes)]
<1> DEFINE n == Len(bytes)
           S == Proper
           a == k
           G(x, i) == The({Typed(u, bytes[i]) : u \in {x}})
           g == [p \in S \X (1..n) |-> G(p[1], p[2])]
           body(f) == [i \in 0..n |-> IF i = 0 THEN a ELSE G(f[i - 1], i)]
           all == CHOOSE f : f = body(f)
<1>1. n \in Nat /\ a \in S
  OBVIOUS
<1>2. ASSUME NEW x \in S, NEW i \in 1..n PROVE G(x, i) \in S
  <2>1. G(x, i) = Typed(x, bytes[i])
    BY DEF The
  <2> QED
    BY <2>1, TypedType
<1>3. TypedAll(k, bytes) = all[n]
  BY DEF TypedAll
<1> HIDE DEF n, S, a, G
<1>4. g \in [S \X (1..n) -> S]
  BY <1>2
<1>5. PICK f \in [0..n -> S] : Runs(f, n, a, g)
  <2> HIDE DEF g
  <2> QED
    BY <1>1, <1>4, Recursion
<1>6. ASSUME NEW i \in 1..n PROVE f[i] = G(f[i - 1], i)
  <2>1. <<f[i - 1], i>> \in S \X (1..n)
    BY <1>1
  <2> QED
    BY <2>1, <1>5 DEF Runs
<1>7. f = body(f) /\ f[0] = a
  BY <1>1, <1>5, <1>6 DEF Runs
<1>8. all = body(all)
  <2> HIDE DEF body
  <2> QED
    BY <1>7
<1>9. Alike(f, all, n)
  <2> HIDE DEF all
  <2>1. \A i \in 0..n : all[i] = body(all)[i]
    BY <1>8
  <2> QED
    BY <1>1, <1>6, <1>7, <2>1 DEF Alike
<1>10. all[n] = f[n]
  <2> HIDE DEF all
  <2> QED
    BY <1>1, <1>9, SameRun
<1> QED
  <2>1. \A i \in 1..n : G(f[i - 1], i) = Typed(f[i - 1], bytes[i])
    BY DEF G, The
  <2> QED
    BY <1>3, <1>6, <1>7, <1>10, <2>1 DEF n, S, a

-----------------------------------------------------------------------------
(* The program at the other end reads *)

Verbs == WILL..DONT
Places == {"data", "command", "option", "inside", "end"}
Readers == [at : Places, verb : Verbs, data : Seq(Byte), verbs : Seq(Verbs \X Byte)]

\* A reader that is at a place and read nothing yet
At(a) == [Fragment EXCEPT !.at = a]

\* A reader that has read nothing yet is a reader.
LEMMA AtType ==
  ASSUME NEW a \in Places
  PROVE  At(a) \in Readers /\ At(a).at = a /\ At(a).data = <<>>
<1>1. At(a) = [at |-> a, verb |-> DONT, data |-> <<>>, verbs |-> <<>>]
  BY DEF At, Fragment
<1>2. DONT \in Verbs
  BY Consts DEF Verbs
<1>3. <<>> \in Seq(Byte) /\ <<>> \in Seq(Verbs \X Byte)
  OBVIOUS
<1> QED
  BY <1>1, <1>2, <1>3 DEF Readers

\* The one that begins outside of any command is the one Telnet begins with.
LEMMA AtData == At("data") = Fragment /\ Fragment \in Readers
<1>1. At("data") = Fragment
  BY DEF At, Fragment
<1> QED
  BY <1>1, AtType DEF Places

\* What a byte does to a reader
LEMMA ReadOneStep ==
  ASSUME NEW t \in Readers, NEW b \in Byte
  PROVE  /\ ReadOne(t, b) \in Readers
         /\ ReadOne(t, b).at =
              CASE t.at = "data" -> IF b = IAC THEN "command" ELSE "data"
                [] t.at = "command" -> IF b \in Verbs THEN "option" ELSE IF b = SB THEN "inside" ELSE "data"
                [] t.at = "option" -> "data"
                [] t.at = "inside" -> IF b = IAC THEN "end" ELSE "inside"
                [] t.at = "end" -> IF b = SE THEN "data" ELSE "inside"
         /\ ReadOne(t, b).data =
              IF (t.at = "data" /\ b # IAC) \/ (t.at = "command" /\ b = IAC) THEN Append(t.data, b) ELSE t.data
<1>1. t.at \in Places /\ t.verb \in Verbs /\ t.data \in Seq(Byte) /\ t.verbs \in Seq(Verbs \X Byte)
  BY DEF Readers
<1>2. Append(t.data, b) \in Seq(Byte)
  BY <1>1
<1>3. /\ IAC # SB /\ IAC \notin Verbs /\ SB \notin Verbs
  BY DEF IAC, Verbs, WILL, DONT, SB
<1>4. CASE t.at = "data"
  BY <1>1, <1>2, <1>4 DEF ReadOne, Readers, Places
<1>5. CASE t.at = "command"
  <2>1. CASE b = IAC
    <3>1. ReadOne(t, b) = [t EXCEPT !.at = "data", !.data = Append(@, b)]
      BY <1>3, <1>5, <2>1 DEF ReadOne, Verbs
    <3> QED
      BY <1>1, <1>2, <1>3, <1>5, <2>1, <3>1 DEF Readers, Places
  <2>2. CASE b \in Verbs
    <3>1. ReadOne(t, b) = [t EXCEPT !.at = "option", !.verb = b]
      BY <1>3, <1>5, <2>2 DEF ReadOne, Verbs
    <3> QED
      BY <1>1, <1>3, <1>5, <2>2, <3>1 DEF Readers, Places
  <2>3. CASE b = SB
    <3>1. ReadOne(t, b) = [t EXCEPT !.at = "inside"]
      BY <1>3, <1>5, <2>3 DEF ReadOne, Verbs
    <3> QED
      BY <1>1, <1>3, <1>5, <2>3, <3>1 DEF Readers, Places
  <2>4. CASE b # IAC /\ b \notin Verbs /\ b # SB
    <3>1. ReadOne(t, b) = [t EXCEPT !.at = "data"]
      BY <1>3, <1>5, <2>4 DEF ReadOne, Verbs
    <3> QED
      BY <1>1, <1>3, <1>5, <2>4, <3>1 DEF Readers, Places
  <2> QED
    BY <2>1, <2>2, <2>3, <2>4
<1>6. CASE t.at = "option"
  <2>1. <<t.verb, b>> \in Verbs \X Byte
    BY <1>1
  <2>2. Append(t.verbs, <<t.verb, b>>) \in Seq(Verbs \X Byte)
    BY <1>1, <2>1
  <2>3. ReadOne(t, b) = [t EXCEPT !.at = "data", !.verbs = Append(@, <<t.verb, b>>)]
    BY <1>6 DEF ReadOne
  <2> QED
    BY <1>1, <1>6, <2>2, <2>3 DEF Readers, Places
<1>7. CASE t.at = "inside"
  BY <1>1, <1>7 DEF ReadOne, Readers, Places
<1>8. CASE t.at = "end"
  BY <1>1, <1>8 DEF ReadOne, Readers, Places
<1> QED
  BY <1>1, <1>4, <1>5, <1>6, <1>7, <1>8 DEF Places

IsReading(f, t, bytes) ==
  /\ f \in [0..Len(bytes) -> Readers]
  /\ f[0] = t
  /\ \A i \in 1..Len(bytes) : f[i] = ReadOne(f[i - 1], bytes[i])

\* How it reads byte by byte
LEMMA ReadRuns ==
  ASSUME NEW t \in Readers, NEW bytes \in Seq(Byte)
  PROVE  \E f : IsReading(f, t, bytes) /\ Read(t, bytes) = f[Len(bytes)]
<1> DEFINE n == Len(bytes)
           S == Readers
           a == t
           G(x, i) == The({ReadOne(u, bytes[i]) : u \in {x}})
           g == [p \in S \X (1..n) |-> G(p[1], p[2])]
           body(f) == [i \in 0..n |-> IF i = 0 THEN a ELSE G(f[i - 1], i)]
           all == CHOOSE f : f = body(f)
<1>1. n \in Nat /\ a \in S
  OBVIOUS
<1>2. ASSUME NEW x \in S, NEW i \in 1..n PROVE G(x, i) \in S
  <2>1. G(x, i) = ReadOne(x, bytes[i])
    BY DEF The
  <2> QED
    BY <2>1, ReadOneStep
<1>3. Read(t, bytes) = all[n]
  BY DEF Read
<1> HIDE DEF n, S, a, G
<1>4. g \in [S \X (1..n) -> S]
  BY <1>2
<1>5. PICK f \in [0..n -> S] : Runs(f, n, a, g)
  <2> HIDE DEF g
  <2> QED
    BY <1>1, <1>4, Recursion
<1>6. ASSUME NEW i \in 1..n PROVE f[i] = G(f[i - 1], i)
  <2>1. <<f[i - 1], i>> \in S \X (1..n)
    BY <1>1
  <2> QED
    BY <2>1, <1>5 DEF Runs
<1>7. f = body(f) /\ f[0] = a
  BY <1>1, <1>5, <1>6 DEF Runs
<1>8. all = body(all)
  <2> HIDE DEF body
  <2> QED
    BY <1>7
<1>9. Alike(f, all, n)
  <2> HIDE DEF all
  <2>1. \A i \in 0..n : all[i] = body(all)[i]
    BY <1>8
  <2> QED
    BY <1>1, <1>6, <1>7, <2>1 DEF Alike
<1>10. all[n] = f[n]
  <2> HIDE DEF all
  <2> QED
    BY <1>1, <1>9, SameRun
<1> QED
  <2>1. \A i \in 1..n : G(f[i - 1], i) = ReadOne(f[i - 1], bytes[i])
    BY DEF G, The
  <2> QED
    BY <1>3, <1>6, <1>7, <1>10, <2>1 DEF n, S, a, IsReading

\* What it read of bytes is any run that reads them.
LEMMA ReadIsRun ==
  ASSUME NEW t \in Readers, NEW bytes \in Seq(Byte), NEW h, IsReading(h, t, bytes)
  PROVE  Read(t, bytes) = h[Len(bytes)]
<1>1. PICK f : IsReading(f, t, bytes) /\ Read(t, bytes) = f[Len(bytes)]
  BY ReadRuns
<1>2. Len(bytes) \in Nat
  OBVIOUS
<1>3. Alike(f, h, Len(bytes))
  BY <1>1 DEF Alike, IsReading
<1> QED
  BY <1>1, <1>2, <1>3, SameRun

\* Reading on leaves a reader.
LEMMA ReadType ==
  ASSUME NEW t \in Readers, NEW bytes \in Seq(Byte)
  PROVE  Read(t, bytes) \in Readers
<1>1. PICK f : IsReading(f, t, bytes) /\ Read(t, bytes) = f[Len(bytes)]
  BY ReadRuns
<1>2. Len(bytes) \in 0..Len(bytes)
  OBVIOUS
<1> QED
  BY <1>1, <1>2 DEF IsReading

\* It reads what comes in two parts like the whole.
LEMMA ReadTwice ==
  ASSUME NEW t \in Readers, NEW x \in Seq(Byte), NEW y \in Seq(Byte)
  PROVE  Read(t, x \o y) = Read(Read(t, x), y)
<1>1. PICK f : IsReading(f, t, x) /\ Read(t, x) = f[Len(x)]
  BY ReadRuns
<1>2. PICK g : IsReading(g, f[Len(x)], y) /\ Read(Read(t, x), y) = g[Len(y)]
  BY <1>1, ReadType, ReadRuns
<1> DEFINE n == Len(x)
           h == [i \in 0..n + Len(y) |-> IF i <= n THEN f[i] ELSE g[i - n]]
<1>3. x \o y \in Seq(Byte) /\ Len(x \o y) = n + Len(y) /\ n \in Nat /\ Len(y) \in Nat
  OBVIOUS
<1>4. \A i \in 0..n : f[i] \in Readers
  BY <1>1 DEF IsReading
<1>5. \A i \in 0..Len(y) : g[i] \in Readers
  BY <1>2 DEF IsReading
<1>6. h \in [0..n + Len(y) -> Readers]
  <2> HIDE DEF n
  <2> QED
    BY <1>3, <1>4, <1>5
<1>7. h[0] = t
  BY <1>1, <1>3 DEF IsReading
<1>8. ASSUME NEW i \in 1..n + Len(y) PROVE h[i] = ReadOne(h[i - 1], (x \o y)[i])
  <2>1. CASE i <= n
    <3>1. (x \o y)[i] = x[i] /\ h[i] = f[i] /\ h[i - 1] = f[i - 1] /\ i \in 1..n
      BY <1>3, <2>1
    <3> QED
      BY <1>1, <3>1 DEF IsReading
  <2>2. CASE i > n
    <3>1. (x \o y)[i] = y[i - n] /\ h[i] = g[i - n] /\ i - n \in 1..Len(y)
      BY <1>3, <2>2
    <3>2. h[i - 1] = g[(i - n) - 1]
      <4>1. CASE i - 1 <= n
        <5>1. i - 1 = n
          BY <1>3, <2>2, <4>1
        <5> QED
          BY <1>2, <1>3, <5>1 DEF IsReading
      <4>2. CASE ~(i - 1 <= n)
        BY <1>3, <4>2
      <4> QED
        BY <4>1, <4>2
    <3> QED
      BY <1>2, <3>1, <3>2 DEF IsReading
  <2> QED
    BY <1>3, <2>1, <2>2
<1>9. IsReading(h, t, x \o y)
  BY <1>3, <1>6, <1>7, <1>8 DEF IsReading
<1>10. h[n + Len(y)] = g[Len(y)]
  <2>1. CASE Len(y) = 0
    BY <1>2, <1>3, <2>1 DEF IsReading
  <2>2. CASE Len(y) > 0
    BY <1>3, <2>2
  <2> QED
    BY <1>3, <2>1, <2>2
<1> HIDE DEF h
<1>11. Read(t, x \o y) = h[n + Len(y)]
  BY <1>3, <1>9, ReadIsRun
<1> QED
  BY <1>2, <1>10, <1>11

\* A byte behind two sequences is a byte behind the second.
LEMMA JoinAppend ==
  ASSUME NEW x \in Seq(Byte), NEW y \in Seq(Byte), NEW b \in Byte
  PROVE  Append(x \o y, b) = x \o Append(y, b)
<1>1. /\ Append(x \o y, b) \in Seq(Byte) /\ x \o Append(y, b) \in Seq(Byte)
      /\ Len(Append(x \o y, b)) = Len(x \o Append(y, b))
  OBVIOUS
<1>2. \A i \in 1..Len(Append(x \o y, b)) : Append(x \o y, b)[i] = (x \o Append(y, b))[i]
  OBVIOUS
<1> QED
  BY <1>1, <1>2, SeqEqual

\* u is where v is, and read text before.
Ahead(u, v, text) == u.at = v.at /\ u.data = text \o v.data

\* A reader stays ahead of another by the same text.
LEMMA AheadStep ==
  ASSUME NEW u \in Readers, NEW v \in Readers, NEW text \in Seq(Byte), NEW b \in Byte, Ahead(u, v, text)
  PROVE  Ahead(ReadOne(u, b), ReadOne(v, b), text)
<1>1. u.at = v.at /\ u.data = text \o v.data /\ v.data \in Seq(Byte)
  BY DEF Ahead, Readers
<1>2. ReadOne(u, b).at = ReadOne(v, b).at
  <2> DEFINE to == CASE u.at = "data" -> IF b = IAC THEN "command" ELSE "data"
                [] u.at = "command" -> IF b \in Verbs THEN "option" ELSE IF b = SB THEN "inside" ELSE "data"
                [] u.at = "option" -> "data"
                [] u.at = "inside" -> IF b = IAC THEN "end" ELSE "inside"
                [] u.at = "end" -> IF b = SE THEN "data" ELSE "inside"
  <2>1. ReadOne(u, b).at = to
    BY ReadOneStep
  <2>2. ReadOne(v, b).at = to
    BY <1>1, ReadOneStep
  <2> QED
    BY <2>1, <2>2
<1>3. Append(text \o v.data, b) = text \o Append(v.data, b)
  <2>1. \A y \in Seq(Byte) : Append(text \o y, b) = text \o Append(y, b)
    BY JoinAppend
  <2> QED
    BY <1>1, <2>1
<1>4. CASE (u.at = "data" /\ b # IAC) \/ (u.at = "command" /\ b = IAC)
  <2>1. ReadOne(u, b).data = Append(u.data, b)
    BY <1>4, ReadOneStep
  <2>2. ReadOne(v, b).data = Append(v.data, b)
    BY <1>1, <1>4, ReadOneStep
  <2> QED
    BY <1>1, <1>2, <1>3, <2>1, <2>2 DEF Ahead
<1>5. CASE ~((u.at = "data" /\ b # IAC) \/ (u.at = "command" /\ b = IAC))
  <2>1. ReadOne(u, b).data = u.data
    BY <1>5, ReadOneStep
  <2>2. ReadOne(v, b).data = v.data
    BY <1>1, <1>5, ReadOneStep
  <2> QED
    BY <1>1, <1>2, <2>1, <2>2 DEF Ahead
<1> QED
  BY <1>4, <1>5

\* Where it gets, and what data it reads, depends on where it is only.
LEMMA ReadData ==
  ASSUME NEW t \in Readers, NEW bytes \in Seq(Byte)
  PROVE  Ahead(Read(t, bytes), Read(At(t.at), bytes), t.data)
<1> DEFINE n == Len(bytes)
<1>1. t.at \in Places /\ t.data \in Seq(Byte) /\ n \in Nat
  BY DEF Readers
<1>2. PICK f : IsReading(f, t, bytes) /\ Read(t, bytes) = f[n]
  BY ReadRuns
<1>3. At(t.at) \in Readers /\ At(t.at).at = t.at /\ At(t.at).data = <<>>
  BY <1>1, AtType
<1>4. PICK g : IsReading(g, At(t.at), bytes) /\ Read(At(t.at), bytes) = g[n]
  BY <1>3, ReadRuns
<1> DEFINE A == {i \in 0..n : Ahead(f[i], g[i], t.data)}
<1>5. 0 \in A
  <2>1. f[0] = t /\ g[0] = At(t.at)
    BY <1>2, <1>4 DEF IsReading
  <2>2. t.data = t.data \o <<>>
    BY <1>1
  <2>3. Ahead(f[0], g[0], t.data)
    BY <1>3, <2>1, <2>2 DEF Ahead
  <2> QED
    BY <1>1, <2>3
<1>6. ASSUME NEW i \in 1..n, i - 1 \in A PROVE i \in A
  <2>1. i - 1 \in 0..n /\ i \in 0..n /\ bytes[i] \in Byte
    OBVIOUS
  <2>2. f[i - 1] \in Readers /\ g[i - 1] \in Readers
    BY <1>2, <1>4, <2>1 DEF IsReading
  <2>3. f[i] = ReadOne(f[i - 1], bytes[i]) /\ g[i] = ReadOne(g[i - 1], bytes[i])
    BY <1>2, <1>4 DEF IsReading
  <2>4. Ahead(f[i - 1], g[i - 1], t.data)
    BY <1>6
  <2>5. Ahead(f[i], g[i], t.data)
    BY <1>1, <2>1, <2>2, <2>3, <2>4, AheadStep
  <2> QED
    BY <2>1, <2>5
<1>7. n \in A
  <2>1. \A i \in 0..n : i \in A
    <3> HIDE DEF A, n
    <3> QED
      BY <1>1, <1>5, <1>6, Upto
  <2> HIDE DEF A
  <2> QED
    BY <1>1, <2>1
<1> QED
  BY <1>2, <1>4, <1>7

\* bytes are complete commands and data, the data being text.
ReadsAs(bytes, text) == Telnet(bytes).at = "data" /\ Telnet(bytes).data = text

\* From outside of any command, what is read next does not depend on what was
\* read.
LEMMA ReadsOn ==
  ASSUME NEW t \in Readers, t.at = "data", NEW bytes \in Seq(Byte), Telnet(bytes).at = "data"
  PROVE  Read(t, bytes).at = "data" /\ Read(t, bytes).data = t.data \o Telnet(bytes).data
BY ReadData, AtData DEF Telnet, Ahead

\* What two chunks read as, they read as one behind the other, if no command
\* is cut between them.
LEMMA ReadsJoin ==
  ASSUME NEW x \in Seq(Byte), NEW y \in Seq(Byte), NEW a \in Seq(Byte), NEW b \in Seq(Byte),
         ReadsAs(x, a), ReadsAs(y, b)
  PROVE  ReadsAs(x \o y, a \o b)
<1>1. Telnet(x) \in Readers /\ Telnet(x \o y) = Read(Telnet(x), y)
  BY AtData, ReadType, ReadTwice DEF Telnet
<1> QED
  BY <1>1, ReadsOn DEF ReadsAs

\* Nothing reads as nothing.
LEMMA ReadsNone == ReadsAs(<<>>, <<>>)
<1>1. PICK f : IsReading(f, Fragment, <<>>) /\ Telnet(<<>>) = f[0]
  <2>1. <<>> \in Seq(Byte) /\ Len(<<>>) = 0
    OBVIOUS
  <2> QED
    BY <2>1, ReadRuns, AtData DEF Telnet
<1> QED
  BY <1>1 DEF IsReading, ReadsAs, Fragment

ReadsOne(t, a) == Read(t, <<a>>) = ReadOne(t, a)
ReadsTwo(t, a, b) == Read(t, <<a, b>>) = ReadOne(ReadOne(t, a), b)
ReadsThree(t, a, b, c) == Read(t, <<a, b, c>>) = ReadOne(ReadOne(ReadOne(t, a), b), c)

\* One byte, two bytes, three
LEMMA ReadShort ==
  ASSUME NEW t \in Readers, NEW a \in Byte, NEW b \in Byte, NEW c \in Byte
  PROVE  ReadsOne(t, a) /\ ReadsTwo(t, a, b) /\ ReadsThree(t, a, b, c)
<1> DEFINE u == ReadOne(t, a)
           v == ReadOne(u, b)
           w == ReadOne(v, c)
<1>1. u \in Readers /\ v \in Readers /\ w \in Readers
  BY ReadOneStep
<1> HIDE DEF u, v, w
<1>2. Read(t, <<a>>) = u
  <2> DEFINE x == <<a>>
             h == [i \in 0..1 |-> IF i = 0 THEN t ELSE u]
  <2>1. x \in Seq(Byte) /\ Len(x) = 1 /\ x[1] = a
    OBVIOUS
  <2>2. h \in [0..1 -> Readers] /\ h[0] = t /\ h[1] = u
    BY <1>1
  <2>3. h[1] = ReadOne(h[0], x[1])
    BY <2>1, <2>2 DEF u
  <2> HIDE DEF h, x
  <2>4. IsReading(h, t, x)
    BY <2>1, <2>2, <2>3 DEF IsReading
  <2>5. Read(t, x) = u
    BY <2>1, <2>2, <2>4, ReadIsRun
  <2> QED
    BY <2>5 DEF x
<1>3. Read(t, <<a, b>>) = v
  <2>1. <<a>> \in Seq(Byte) /\ <<b>> \in Seq(Byte) /\ <<a, b>> = <<a>> \o <<b>>
    <3>1. <<a>> \in Seq(Byte) /\ <<b>> \in Seq(Byte)
      OBVIOUS
    <3>2. <<a, b>> = <<a>> \o <<b>>
      <4> DEFINE x == <<a>> \o <<b>>
                 y == <<a, b>>
      <4>1. x \in Seq(Byte) /\ Len(x) = 2 /\ x[1] = a /\ x[2] = b
        OBVIOUS
      <4>2. y \in Seq(Byte) /\ Len(y) = 2 /\ y[1] = a /\ y[2] = b
        OBVIOUS
      <4> HIDE DEF x, y
      <4>3. x = y
        BY <4>1, <4>2
      <4> QED
        BY <4>3 DEF x, y
    <3> QED
      BY <3>1, <3>2
  <2>2. Read(t, <<a, b>>) = Read(u, <<b>>)
    BY <1>2, <2>1, ReadTwice
  <2> DEFINE x == <<b>>
             h == [i \in 0..1 |-> IF i = 0 THEN u ELSE v]
  <2>3. x \in Seq(Byte) /\ Len(x) = 1 /\ x[1] = b
    OBVIOUS
  <2>4. h \in [0..1 -> Readers] /\ h[0] = u /\ h[1] = v
    BY <1>1
  <2>5. h[1] = ReadOne(h[0], x[1])
    BY <2>3, <2>4 DEF v
  <2> HIDE DEF h, x
  <2>6. IsReading(h, u, x)
    BY <2>3, <2>4, <2>5 DEF IsReading
  <2>7. Read(u, x) = v
    BY <1>1, <2>3, <2>4, <2>6, ReadIsRun
  <2> QED
    BY <2>2, <2>7 DEF x
<1>4. Read(t, <<a, b, c>>) = w
  <2>1. <<a, b>> \in Seq(Byte) /\ <<c>> \in Seq(Byte) /\ <<a, b, c>> = <<a, b>> \o <<c>>
    OBVIOUS
  <2>2. Read(t, <<a, b, c>>) = Read(v, <<c>>)
    BY <1>3, <2>1, ReadTwice
  <2> DEFINE x == <<c>>
             h == [i \in 0..1 |-> IF i = 0 THEN v ELSE w]
  <2>3. x \in Seq(Byte) /\ Len(x) = 1 /\ x[1] = c
    OBVIOUS
  <2>4. h \in [0..1 -> Readers] /\ h[0] = v /\ h[1] = w
    BY <1>1
  <2>5. h[1] = ReadOne(h[0], x[1])
    BY <2>3, <2>4 DEF w
  <2> HIDE DEF h, x
  <2>6. IsReading(h, v, x)
    BY <2>3, <2>4, <2>5 DEF IsReading
  <2>7. Read(v, x) = w
    BY <1>1, <2>3, <2>4, <2>6, ReadIsRun
  <2> QED
    BY <2>2, <2>7 DEF x
<1> QED
  BY <1>2, <1>3, <1>4 DEF u, v, w, ReadsOne, ReadsTwo, ReadsThree

\* A byte as it is escaped is read as that byte.
LEMMA DoubledReads ==
  ASSUME NEW b \in Byte
  PROVE  Doubled(b) \in Seq(Byte) /\ ReadsAs(Doubled(b), <<b>>)
<1>0. IAC \in Byte /\ Fragment \in Readers /\ Fragment.at = "data" /\ Fragment.data = <<>>
  BY Consts, AtData DEF Fragment
<1>1. CASE b = IAC
  <2> DEFINE u == ReadOne(Fragment, IAC)
  <2>1. u \in Readers /\ u.at = "command" /\ u.data = <<>>
    BY <1>0, ReadOneStep
  <2> HIDE DEF u
  <2>2. ReadOne(u, IAC).at = "data"
    <3>1. IAC \notin Verbs /\ IAC # SB
      BY DEF IAC, SB, Verbs, WILL, DONT
    <3> QED
      BY <1>0, <2>1, <3>1, ReadOneStep
  <2>3. ReadOne(u, IAC).data = Append(<<>>, IAC)
    <3>1. ReadOne(u, IAC).data = Append(u.data, IAC)
      BY <1>0, <2>1, ReadOneStep
    <3> QED
      BY <2>1, <3>1
  <2>4. Doubled(b) = <<IAC, IAC>> /\ Doubled(b) \in Seq(Byte) /\ Append(<<>>, IAC) = <<IAC>>
    BY <1>0, <1>1 DEF Doubled
  <2>5. ReadsTwo(Fragment, IAC, IAC)
    BY <1>0, ReadShort
  <2>6. Telnet(<<IAC, IAC>>) = ReadOne(u, IAC)
    BY <2>5 DEF Telnet, ReadsTwo, u
  <2> QED
    BY <1>1, <2>2, <2>3, <2>4, <2>6 DEF ReadsAs
<1>2. CASE b # IAC
  <2>1. ReadOne(Fragment, b).at = "data" /\ ReadOne(Fragment, b).data = Append(<<>>, b)
    BY <1>0, <1>2, ReadOneStep
  <2>2. Doubled(b) = <<b>> /\ Doubled(b) \in Seq(Byte) /\ Append(<<>>, b) = <<b>>
    BY <1>2 DEF Doubled
  <2>3. Telnet(<<b>>) = ReadOne(Fragment, b)
    BY <1>0, ReadShort DEF Telnet, ReadsOne
  <2> QED
    BY <2>1, <2>2, <2>3 DEF ReadsAs
<1> QED
  BY <1>1, <1>2

\* What is escaped is read as it was.
THEOREM EscapeReads ==
  ASSUME NEW bytes \in Seq(Byte)
  PROVE  ReadsAs(Escape(bytes), bytes)
<1> DEFINE n == Len(bytes)
           upTo(i) == SubSeq(bytes, 1, i)
<1>1. PICK f \in [0..n -> Seq(Byte)] :
        /\ f[0] = <<>>
        /\ \A i \in 1..n : f[i] = f[i - 1] \o Doubled(bytes[i])
        /\ Escape(bytes) = f[n]
  BY EscapeRuns
<1> DEFINE A == {i \in 0..n : ReadsAs(f[i], upTo(i))}
<1>2. 0 \in A
  BY <1>1, ReadsNone
<1>3. ASSUME NEW i \in 1..n, i - 1 \in A PROVE i \in A
  <2>1. i - 1 \in 0..n /\ bytes[i] \in Byte /\ f[i - 1] \in Seq(Byte)
    OBVIOUS
  <2>2. ReadsAs(f[i - 1], upTo(i - 1))
    BY <1>3
  <2>3. ReadsAs(Doubled(bytes[i]), <<bytes[i]>>) /\ Doubled(bytes[i]) \in Seq(Byte)
    BY <2>1, DoubledReads
  <2>4. upTo(i - 1) \in Seq(Byte) /\ <<bytes[i]>> \in Seq(Byte) /\ upTo(i) = upTo(i - 1) \o <<bytes[i]>>
    OBVIOUS
  <2>5. ReadsAs(f[i - 1] \o Doubled(bytes[i]), upTo(i - 1) \o <<bytes[i]>>)
    <3> HIDE DEF upTo
    <3> QED
      BY <2>1, <2>2, <2>3, <2>4, ReadsJoin
  <2>6. ReadsAs(f[i], upTo(i))
    BY <1>1, <2>4, <2>5
  <2> QED
    BY <2>6
<1>4. n \in A
  <2>1. n \in Nat
    OBVIOUS
  <2>2. \A i \in 0..n : i \in A
    <3> HIDE DEF A, n
    <3> QED
      BY <1>2, <1>3, <2>1, Upto
  <2> HIDE DEF A
  <2> QED
    BY <2>1, <2>2
<1>5. upTo(n) = bytes
  OBVIOUS
<1> QED
  BY <1>1, <1>4, <1>5

\* Sequences that agree everywhere are the same.
LEMMA ByteSeqs ==
  ASSUME NEW x \in Seq(Byte), NEW y \in Seq(Byte), Len(x) = Len(y), \A i \in 1..Len(x) : x[i] = y[i]
  PROVE  x = y
OBVIOUS

\* A verb and its option are no data.
LEMMA VerbReads ==
  ASSUME NEW v \in Verbs, NEW opt \in Byte
  PROVE  <<IAC, v, opt>> \in Seq(Byte) /\ ReadsAs(<<IAC, v, opt>>, <<>>)
<1>1. IAC \in Byte /\ v \in Byte /\ Fragment \in Readers /\ Fragment.at = "data" /\ Fragment.data = <<>>
  BY Consts, AtData DEF Fragment, Verbs
<1> DEFINE t == ReadOne(Fragment, IAC)
           u == ReadOne(t, v)
           w == ReadOne(u, opt)
<1>2. t \in Readers /\ t.at = "command" /\ t.data = <<>>
  BY <1>1, ReadOneStep
<1>3. v # IAC
  BY DEF IAC, Verbs, WILL, DONT
<1>4. u \in Readers /\ u.at = "option" /\ u.data = <<>>
  <2> HIDE DEF t
  <2> QED
    BY <1>1, <1>2, <1>3, ReadOneStep
<1>5. w.at = "data" /\ w.data = <<>>
  <2> HIDE DEF u
  <2> QED
    BY <1>4, ReadOneStep
<1>6. Telnet(<<IAC, v, opt>>) = w
  <2>1. ReadsThree(Fragment, IAC, v, opt)
    BY <1>1, ReadShort
  <2> QED
    BY <2>1 DEF Telnet, ReadsThree
<1> QED
  BY <1>1, <1>5, <1>6 DEF ReadsAs

\* Whole commands one behind the other are whole commands.
LEMMA WholeJoin ==
  ASSUME NEW x \in Seq(Byte), NEW y \in Seq(Byte), ReadsAs(x, <<>>), ReadsAs(y, <<>>)
  PROVE  x \o y \in Seq(Byte) /\ ReadsAs(x \o y, <<>>)
<1> DEFINE e == <<>>
<1>1. e \in Seq(Byte) /\ e \o e = e
  OBVIOUS
<1> HIDE DEF e
<1>2. ReadsAs(x, e) /\ ReadsAs(y, e)
  BY DEF e
<1>3. ReadsAs(x \o y, e)
  BY <1>1, <1>2, ReadsJoin
<1> QED
  BY <1>3 DEF e

\* The greeting is no data.
LEMMA GreetingReads == Greeting \in Seq(Byte) /\ ReadsAs(Greeting, <<>>)
<1> DEFINE a == <<IAC, WILL, OPT_BINARY>>
           b == <<IAC, DO, OPT_BINARY>>
           c == <<IAC, WILL, OPT_SGA>>
           d == <<IAC, DO, OPT_SGA>>
           e == <<IAC, DO, OPT_COM_PORT>>
<1>1. WILL \in Verbs /\ DO \in Verbs /\ {OPT_BINARY, OPT_SGA, OPT_COM_PORT} \subseteq Byte
  BY Consts DEF Verbs
<1>2. /\ a \in Seq(Byte) /\ b \in Seq(Byte) /\ c \in Seq(Byte) /\ d \in Seq(Byte) /\ e \in Seq(Byte)
      /\ ReadsAs(a, <<>>) /\ ReadsAs(b, <<>>) /\ ReadsAs(c, <<>>) /\ ReadsAs(d, <<>>) /\ ReadsAs(e, <<>>)
  BY <1>1, VerbReads
<1>3. Greeting = (((a \o b) \o c) \o d) \o e
  <2> DEFINE g == (((a \o b) \o c) \o d) \o e
  <2>1. g \in Seq(Byte) /\ Len(g) = 15
    BY <1>2
  <2>2. Greeting \in Seq(Byte) /\ Len(Greeting) = 15
    BY <1>1, Consts DEF Greeting
  <2>3. \A i \in 1..15 : g[i] = Greeting[i]
    BY DEF Greeting
  <2> HIDE DEF g
  <2> QED
    BY <2>1, <2>2, <2>3, ByteSeqs DEF g
<1> HIDE DEF a, b, c, d, e
<1>4. a \o b \in Seq(Byte) /\ ReadsAs(a \o b, <<>>)
  BY <1>2, WholeJoin
<1>5. (a \o b) \o c \in Seq(Byte) /\ ReadsAs((a \o b) \o c, <<>>)
  BY <1>2, <1>4, WholeJoin
<1>6. ((a \o b) \o c) \o d \in Seq(Byte) /\ ReadsAs(((a \o b) \o c) \o d, <<>>)
  BY <1>2, <1>5, WholeJoin
<1>7. (((a \o b) \o c) \o d) \o e \in Seq(Byte) /\ ReadsAs((((a \o b) \o c) \o d) \o e, <<>>)
  BY <1>2, <1>6, WholeJoin
<1> QED
  BY <1>3, <1>7

Modems == {MODEM_LINK_UP, MODEM_LINK_DOWN}

\* Nor is the modem state.
LEMMA ModemReads ==
  ASSUME NEW m \in Modems
  PROVE  ModemState(m) \in Seq(Byte) /\ ReadsAs(ModemState(m), <<>>)
<1>1. m \in Byte /\ m # IAC /\ IAC \in Byte /\ SB \in Byte /\ SE \in Byte /\ OPT_COM_PORT \in Byte
  BY Consts DEF Modems, MODEM_LINK_UP, MODEM_LINK_DOWN, Byte, IAC
<1>2. Escape(<<m>>) = <<m>>
  <2> DEFINE x == <<m>>
  <2>1. x \in Seq(Byte) /\ Len(x) = 1 /\ x[1] = m
    BY <1>1
  <2> HIDE DEF x
  <2>2. PICK f : f[0] = <<>> /\ (\A i \in 1..1 : f[i] = f[i - 1] \o Doubled(x[i])) /\ Escape(x) = f[1]
    <3>1. \E f : f[0] = <<>> /\ (\A i \in 1..Len(x) : f[i] = f[i - 1] \o Doubled(x[i])) /\ Escape(x) = f[Len(x)]
      BY <2>1, EscapeRuns
    <3> QED
      BY <2>1, <3>1
  <2>3. f[1] = f[0] \o Doubled(x[1])
    <3>1. 1 \in 1..1 /\ 1 - 1 = 0
      OBVIOUS
    <3> QED
      BY <2>2, <3>1
  <2>4. Escape(x) = <<>> \o <<m>>
    BY <1>1, <2>1, <2>2, <2>3 DEF Doubled
  <2> QED
    BY <2>4 DEF x
<1>3. (CPO_NOTIFY_MODEMSTATE + SERVER_OFFSET) % 256 = 107
  BY DEF CPO_NOTIFY_MODEMSTATE, SERVER_OFFSET
<1> DEFINE x == <<IAC, SB, OPT_COM_PORT>>
           y == <<107, m, IAC>>
           z == <<SE>>
<1>4. ModemState(m) = x \o y \o z
  <2>1. ModemState(m) = <<IAC, SB, OPT_COM_PORT, 107>> \o <<m>> \o <<IAC, SE>>
    BY <1>2, <1>3 DEF ModemState, Cpo
  <2> DEFINE l == <<IAC, SB, OPT_COM_PORT, 107>> \o <<m>> \o <<IAC, SE>>
             r == x \o y \o z
  <2>2. l \in Seq(Byte) /\ r \in Seq(Byte) /\ Len(l) = 7 /\ Len(r) = 7
    <3>1. 107 \in Byte
      BY DEF Byte
    <3> QED
      BY <1>1, <3>1
  <2>3. \A i \in 1..7 : l[i] = r[i]
    OBVIOUS
  <2> HIDE DEF l, r
  <2>4. l = r
    BY <2>2, <2>3, ByteSeqs
  <2> QED
    BY <2>1, <2>4 DEF l, r
<1>5. x \in Seq(Byte) /\ y \in Seq(Byte) /\ z \in Seq(Byte) /\ x \o y \in Seq(Byte) /\ 107 \in Byte
  BY <1>1 DEF Byte
<1> DEFINE t == Read(Fragment, x)
           u == Read(t, y)
           w == Read(u, z)
<1>6. t \in Readers /\ t.at = "inside" /\ t.data = <<>>
  <2> DEFINE p == ReadOne(Fragment, IAC)
             q == ReadOne(p, SB)
             r == ReadOne(q, OPT_COM_PORT)
  <2>1. Fragment \in Readers /\ Fragment.at = "data" /\ Fragment.data = <<>>
    BY AtData DEF Fragment
  <2>2. p \in Readers /\ p.at = "command" /\ p.data = <<>>
    BY <1>1, <2>1, ReadOneStep
  <2>3. q \in Readers /\ q.at = "inside" /\ q.data = <<>>
    <3> HIDE DEF p
    <3>1. SB \notin Verbs /\ SB # IAC
      BY DEF SB, IAC, Verbs, WILL, DONT
    <3> QED
      BY <1>1, <2>2, <3>1, ReadOneStep
  <2>4. r \in Readers /\ r.at = "inside" /\ r.data = <<>>
    <3> HIDE DEF q
    <3>1. OPT_COM_PORT # IAC
      BY DEF OPT_COM_PORT, IAC
    <3> QED
      BY <1>1, <2>3, <3>1, ReadOneStep
  <2>5. t = r
    BY <1>1, <2>1, ReadShort DEF ReadsThree
  <2> QED
    BY <2>4, <2>5
<1>7. u \in Readers /\ u.at = "end" /\ u.data = <<>>
  <2> HIDE DEF t
  <2> DEFINE p == ReadOne(t, 107)
             q == ReadOne(p, m)
             r == ReadOne(q, IAC)
  <2>1. p \in Readers /\ p.at = "inside" /\ p.data = <<>>
    <3>1. 107 # IAC
      BY DEF IAC
    <3> QED
      BY <1>5, <1>6, <3>1, ReadOneStep
  <2>2. q \in Readers /\ q.at = "inside" /\ q.data = <<>>
    <3> HIDE DEF p
    <3> QED
      BY <1>1, <2>1, ReadOneStep
  <2>3. r \in Readers /\ r.at = "end" /\ r.data = <<>>
    <3> HIDE DEF q
    <3> QED
      BY <1>1, <2>2, ReadOneStep
  <2>4. u = r
    BY <1>1, <1>5, <1>6, ReadShort DEF ReadsThree
  <2> QED
    BY <2>3, <2>4
<1>8. w.at = "data" /\ w.data = <<>>
  <2> HIDE DEF u
  <2>1. w = ReadOne(u, SE)
    BY <1>1, <1>7, ReadShort DEF ReadsOne
  <2>2. ReadOne(u, SE).at = "data" /\ ReadOne(u, SE).data = u.data
    BY <1>1, <1>7, ReadOneStep
  <2> QED
    BY <1>7, <2>1, <2>2
<1> HIDE DEF x, y, z
<1>9. Telnet(x \o y \o z) = w
  <2>1. Telnet(x \o y \o z) = Read(Read(Fragment, x \o y), z)
    BY <1>5, AtData, ReadTwice DEF Telnet
  <2>2. Read(Fragment, x \o y) = u
    BY <1>5, AtData, ReadTwice
  <2> HIDE DEF u
  <2> QED
    BY <2>1, <2>2
<1> QED
  BY <1>4, <1>5, <1>8, <1>9 DEF ReadsAs

-----------------------------------------------------------------------------
(* The server reads like the program at the other end. *)

Start(st) ==
  CASE st = "data" -> "data"
    [] st = "iac" -> "command"
    [] st = "verb" -> "option"
    [] st = "sb" -> "inside"
    [] st = "sb_iac" -> "end"

\* The parser r is where the reader u is, and passed the same data.
Match(r, u) == u.at = Start(r.s.st) /\ u.data = r.io.data

\* Each state of the parser is one in the middle of which a reader may be.
LEMMA StartType ==
  ASSUME NEW st \in States
  PROVE  Start(st) \in Places
BY DEF Start, States, Places

\* The parser takes a byte as the reader reads it: the server finds the data
\* that RFC 854 says is there.
LEMMA TakeReads ==
  ASSUME NEW r \in Results, NEW u \in Readers, NEW b \in Byte, NEW m \in Byte, Match(r, u)
  PROVE  Match(Take(r, b, m), ReadOne(u, b))
<1> DEFINE To(st) == [r EXCEPT !.s.st = st]
           Data == [r EXCEPT !.s.st = "data", !.io.data = Append(@, b)]
           w == ReadOne(u, b)
<1>1. r.s \in Protos /\ r.io \in IOs /\ r.s.st \in States /\ r.io.data \in Seq(Byte)
  BY DEF Results, Protos, IOs
<1>2. u.at = Start(r.s.st) /\ u.data = r.io.data
  BY DEF Match
<1>3. \A st : To(st).s.st = st /\ To(st).io.data = r.io.data
  BY <1>1 DEF Results, Protos
<1>4. Data.s.st = "data" /\ Data.io.data = Append(r.io.data, b)
  BY <1>1 DEF Results, Protos, IOs
<1>5. IAC # SB /\ IAC \notin Verbs /\ SB \notin Verbs /\ IAC # SE
  BY DEF IAC, Verbs, WILL, DONT, SB, SE
<1>6. /\ Keep(r.s, b).st = r.s.st
  BY <1>1 DEF Keep, Protos
<1> HIDE DEF To, Data
<1>9. CASE r.s.st = "data"
  <2>1. Take(r, b, m) = IF b = IAC THEN To("iac") ELSE Data
    BY <1>9 DEF Take, To, Data
  <2>2. u.at = "data"
    BY <1>2, <1>9 DEF Start
  <2>3. w.at = (IF b = IAC THEN "command" ELSE "data") /\ w.data = (IF b # IAC THEN Append(u.data, b) ELSE u.data)
    BY <2>2, ReadOneStep
  <2> QED
    BY <1>2, <1>3, <1>4, <2>1, <2>3 DEF Match, Start
<1>10. CASE r.s.st = "iac"
  <2>1. u.at = "command"
    BY <1>2, <1>10 DEF Start
  <2>2. /\ w.at = (IF b \in Verbs THEN "option" ELSE IF b = SB THEN "inside" ELSE "data")
        /\ w.data = (IF b = IAC THEN Append(u.data, b) ELSE u.data)
    BY <2>1, ReadOneStep
  <2>3. CASE b = IAC
    <3>1. Take(r, b, m) = Data
      BY <1>5, <1>10, <2>3 DEF Take, Data, Verbs
    <3> QED
      BY <1>2, <1>4, <1>5, <2>2, <2>3, <3>1 DEF Match, Start
  <2>4. CASE b \in Verbs
    <3>1. Take(r, b, m) = [r EXCEPT !.s.st = "verb", !.s.verb = b]
      BY <1>5, <1>10, <2>4 DEF Take, Verbs
    <3> DEFINE v == [r EXCEPT !.s.st = "verb", !.s.verb = b]
    <3>a. v.s.st = "verb"
      BY <1>1 DEF Results, Protos
    <3>b. v.io = r.io
      BY <1>1 DEF Results
    <3>2. Take(r, b, m).s.st = "verb" /\ Take(r, b, m).io.data = r.io.data
      BY <3>1, <3>a, <3>b
    <3> QED
      BY <1>2, <1>5, <2>2, <2>4, <3>2 DEF Match, Start
  <2>5. CASE b = SB
    <3>1. Take(r, b, m) = [r EXCEPT !.s.st = "sb", !.s.sb = <<>>, !.s.overflow = FALSE]
      BY <1>5, <1>10, <2>5 DEF Take, Verbs
    <3> DEFINE v == [r EXCEPT !.s.st = "sb", !.s.sb = <<>>, !.s.overflow = FALSE]
    <3>a. v.s.st = "sb"
      BY <1>1 DEF Results, Protos
    <3>b. v.io = r.io
      BY <1>1 DEF Results
    <3>2. Take(r, b, m).s.st = "sb" /\ Take(r, b, m).io.data = r.io.data
      BY <3>1, <3>a, <3>b
    <3> QED
      BY <1>2, <1>5, <2>2, <2>5, <3>2 DEF Match, Start
  <2>6. CASE b # IAC /\ b \notin Verbs /\ b # SB
    <3>1. Take(r, b, m) = To("data")
      BY <1>5, <1>10, <2>6 DEF Take, Verbs, To
    <3> QED
      BY <1>2, <1>3, <2>2, <2>6, <3>1 DEF Match, Start
  <2> QED
    BY <2>3, <2>4, <2>5, <2>6
<1>11. CASE r.s.st = "verb"
  <2>1. u.at = "option"
    BY <1>2, <1>11 DEF Start
  <2>2. w.at = "data" /\ w.data = u.data
    BY <2>1, ReadOneStep
  <2>3. r.s.verb \in WILL..DONT
    BY <1>1, <1>11 DEF Protos
  <2> DEFINE v == OnVerb(r, r.s.verb, b)
  <2>4. v \in Results /\ v.io.data = r.io.data
    <3>1. Told(r.s, r.s.verb, b) \in Protos /\ Answer(r.s, r.s.verb, b) \in Seq(Byte)
      BY <1>1, <2>3, VerbTypes
    <3>2. /\ Put(r.io, Answer(r.s, r.s.verb, b)) \in IOs
          /\ Put(r.io, Answer(r.s, r.s.verb, b)).data = r.io.data
      BY <1>1, <3>1, PutType
    <3> QED
      BY <3>1, <3>2 DEF OnVerb, Results
  <2>5. Take(r, b, m) = [v EXCEPT !.s.st = "data"]
    BY <1>11 DEF Take
  <2> HIDE DEF v
  <2>6. Take(r, b, m).s.st = "data" /\ Take(r, b, m).io.data = v.io.data
    BY <2>4, <2>5 DEF Results, Protos
  <2> QED
    BY <1>2, <2>2, <2>4, <2>6 DEF Match, Start
<1>12. CASE r.s.st = "sb"
  <2>1. u.at = "inside"
    BY <1>2, <1>12 DEF Start
  <2>2. w.at = (IF b = IAC THEN "end" ELSE "inside") /\ w.data = u.data
    BY <2>1, ReadOneStep
  <2>3. CASE b = IAC
    <3>1. Take(r, b, m) = To("sb_iac")
      BY <1>12, <2>3 DEF Take, To
    <3> QED
      BY <1>2, <1>3, <2>2, <2>3, <3>1 DEF Match, Start
  <2>4. CASE b # IAC
    <3>1. Take(r, b, m) = [r EXCEPT !.s = Keep(r.s, b)]
      BY <1>12, <2>4 DEF Take
    <3>2. Take(r, b, m).s.st = "sb" /\ Take(r, b, m).io.data = r.io.data
      BY <1>1, <1>6, <1>12, <3>1 DEF Results
    <3> QED
      BY <1>2, <2>2, <2>4, <3>2 DEF Match, Start
  <2> QED
    BY <2>3, <2>4
<1>13. CASE r.s.st = "sb_iac"
  <2>1. u.at = "end"
    BY <1>2, <1>13 DEF Start
  <2>2. w.at = (IF b = SE THEN "data" ELSE "inside") /\ w.data = u.data
    BY <2>1, ReadOneStep
  <2>3. CASE b = IAC
    <3>1. Take(r, b, m) = [r EXCEPT !.s = [Keep(r.s, b) EXCEPT !.st = "sb"]]
      BY <1>5, <1>13, <2>3 DEF Take
    <3>2. Keep(r.s, b) \in Protos
      BY <1>1, KeepType
    <3>3. Take(r, b, m).s.st = "sb" /\ Take(r, b, m).io.data = r.io.data
      BY <1>1, <3>1, <3>2 DEF Results, Protos
    <3> QED
      BY <1>2, <1>5, <2>2, <2>3, <3>3 DEF Match, Start
  <2>4. CASE b = SE
    <3> DEFINE v == OnSubneg(r, m)
    <3>1. Take(r, b, m) = [v EXCEPT !.s.st = "data"]
      BY <1>5, <1>13, <2>4 DEF Take
    <3>2. v \in Results /\ v.io.data = r.io.data
      BY SubnegType
    <3> HIDE DEF v
    <3>3. Take(r, b, m).s.st = "data" /\ Take(r, b, m).io.data = v.io.data
      BY <3>1, <3>2 DEF Results, Protos
    <3> QED
      BY <1>2, <2>2, <2>4, <3>2, <3>3 DEF Match, Start
  <2>5. CASE b # IAC /\ b # SE
    <3>1. Take(r, b, m) = To("sb")
      BY <1>13, <2>5 DEF Take, To
    <3> QED
      BY <1>2, <1>3, <2>2, <2>5, <3>1 DEF Match, Start
  <2> QED
    BY <2>3, <2>4, <2>5
<1> QED
  BY <1>1, <1>9, <1>10, <1>11, <1>12, <1>13 DEF States

\* Wherever the input is cut, its data and where it ends are those of the reader.
THEOREM InputReads ==
  ASSUME NEW s \in Protos, NEW bytes \in Seq(Byte), NEW m \in Byte
  PROVE  Match(Input(s, bytes, m), Read(At(Start(s.st)), bytes))
<1> DEFINE n == Len(bytes)
           t == At(Start(s.st))
<1>1. n \in Nat /\ s.st \in States
  BY DEF Protos
<1>2. t \in Readers /\ t.at = Start(s.st) /\ t.data = <<>>
  BY <1>1, StartType, AtType
<1> HIDE DEF t
<1>3. PICK f \in [0..n -> Results] :
           /\ f[0] = [s |-> s, io |-> NoIO]
           /\ \A i \in 1..n : f[i] = Take(f[i - 1], bytes[i], m)
           /\ Input(s, bytes, m) = f[n]
  BY InputRuns
<1>4. PICK g : IsReading(g, t, bytes) /\ Read(t, bytes) = g[n]
  BY <1>2, ReadRuns
<1> DEFINE A == {i \in 0..n : Match(f[i], g[i])}
<1>5. 0 \in A
  <2>1. g[0] = t
    BY <1>4 DEF IsReading
  <2>2. Match(f[0], g[0])
    BY <1>2, <1>3, <2>1 DEF Match, NoIO
  <2> QED
    BY <1>1, <2>2
<1>6. ASSUME NEW i \in 1..n, i - 1 \in A PROVE i \in A
  <2>1. i - 1 \in 0..n /\ i \in 0..n /\ bytes[i] \in Byte
    OBVIOUS
  <2>2. f[i - 1] \in Results /\ g[i - 1] \in Readers
    BY <1>4, <2>1 DEF IsReading
  <2>3. f[i] = Take(f[i - 1], bytes[i], m) /\ g[i] = ReadOne(g[i - 1], bytes[i])
    BY <1>3, <1>4 DEF IsReading
  <2>4. Match(f[i - 1], g[i - 1])
    BY <1>6
  <2>5. Match(f[i], g[i])
    BY <2>1, <2>2, <2>3, <2>4, TakeReads
  <2> QED
    BY <2>1, <2>5
<1>7. n \in A
  <2>1. \A i \in 0..n : i \in A
    <3> HIDE DEF A, n
    <3> QED
      BY <1>1, <1>5, <1>6, Upto
  <2> HIDE DEF A
  <2> QED
    BY <1>1, <2>1
<1>8. Match(f[n], g[n])
  BY <1>7
<1> QED
  BY <1>3, <1>4, <1>8 DEF t

-----------------------------------------------------------------------------
(* What the program at the other end answers *)

Peers ==
  [will : SUBSET Byte, do : SUBSET Byte, fresh : BOOLEAN, typed : Nat, cut : Nat, text : Seq(Byte),
   heard : Seq(Byte)]

\* What p may have become, and said, by answering
Answerings(p) ==
  {a \in [p : Peers, says : Seq(Byte)] :
     a.p.text = p.text /\ a.p.heard = p.heard /\ ReadsAs(a.says, <<>>)}

\* By one answer, which is no data
LEMMA ToldType ==
  ASSUME NEW p \in Peers, NEW verb \in Verbs, NEW opt \in Byte
  PROVE  PeerTold(p, verb, opt) \in Answerings(p)
<1>1. verb \in {WILL, WONT, DO, DONT}
  BY Consts DEF Verbs
<1>2. \A v \in Verbs : <<IAC, v, opt>> \in Seq(Byte) /\ ReadsAs(<<IAC, v, opt>>, <<>>)
  BY VerbReads
<1>3. {WILL, WONT, DO, DONT} \subseteq Verbs
  BY Consts DEF Verbs
<1>4. /\ [p EXCEPT !.will = @ \cup {opt}] \in Peers /\ [p EXCEPT !.will = @ \ {opt}] \in Peers
      /\ [p EXCEPT !.do = @ \cup {opt}] \in Peers /\ [p EXCEPT !.do = @ \ {opt}] \in Peers
  BY DEF Peers
<1> DEFINE Q == {p, [p EXCEPT !.will = @ \cup {opt}], [p EXCEPT !.will = @ \ {opt}],
                 [p EXCEPT !.do = @ \cup {opt}], [p EXCEPT !.do = @ \ {opt}]}
<1>5. \A q \in Q : q \in Peers /\ q.text = p.text /\ q.heard = p.heard
  BY <1>4 DEF Peers
<1> DEFINE Saying(v) == <<IAC, v, opt>>
           W == {<<>>, Saying(WILL), Saying(WONT), Saying(DO), Saying(DONT)}
<1>6. \A q \in Q, says \in W : [p |-> q, says |-> says] \in Answerings(p)
  <2>1. <<>> \in Seq(Byte) /\ ReadsAs(<<>>, <<>>)
    BY ReadsNone
  <2>2. \A says \in W : says \in Seq(Byte) /\ ReadsAs(says, <<>>)
    BY <1>2, <1>3, <2>1
  <2> HIDE DEF Q, W
  <2> QED
    BY <1>5, <2>2 DEF Answerings
<1>7. WILL # WONT /\ WILL # DO /\ WILL # DONT /\ WONT # DO /\ WONT # DONT /\ DO # DONT
  BY DEF WILL, WONT, DO, DONT
<1> DEFINE told == PeerTold(p, verb, opt)
<1>8. CASE verb = DO
  <2>1. told \in {[p |-> p, says |-> <<>>], [p |-> [p EXCEPT !.will = @ \cup {opt}], says |-> Saying(WILL)],
                  [p |-> p, says |-> Saying(WONT)]}
    BY <1>7, <1>8 DEF PeerTold
  <2> QED
    BY <1>6, <2>1
<1>9. CASE verb = DONT
  <2>1. told \in {[p |-> p, says |-> <<>>], [p |-> [p EXCEPT !.will = @ \ {opt}], says |-> Saying(WONT)]}
    BY <1>7, <1>9 DEF PeerTold
  <2> QED
    BY <1>6, <2>1
<1>10. CASE verb = WILL
  <2>1. told \in {[p |-> p, says |-> <<>>], [p |-> [p EXCEPT !.do = @ \cup {opt}], says |-> Saying(DO)],
                  [p |-> p, says |-> Saying(DONT)]}
    BY <1>7, <1>10 DEF PeerTold
  <2> QED
    BY <1>6, <2>1
<1>11. CASE verb = WONT
  <2>1. told \in {[p |-> p, says |-> <<>>], [p |-> [p EXCEPT !.do = @ \ {opt}], says |-> Saying(DONT)]}
    BY <1>7, <1>11 DEF PeerTold
  <2> QED
    BY <1>6, <2>1
<1> QED
  BY <1>1, <1>8, <1>9, <1>10, <1>11

\* And by one more
After(a, verb, opt) == [PeerTold(a.p, verb, opt) EXCEPT !.says = a.says \o @]

\* Another verb leaves the answers of the other end in their types.
LEMMA AfterType ==
  ASSUME NEW p, NEW a \in Answerings(p), NEW verb \in Verbs, NEW opt \in Byte
  PROVE  After(a, verb, opt) \in Answerings(p)
<1>1. a.p \in Peers /\ a.says \in Seq(Byte) /\ ReadsAs(a.says, <<>>) /\ a.p.text = p.text /\ a.p.heard = p.heard
  BY DEF Answerings
<1> DEFINE b == PeerTold(a.p, verb, opt)
<1>2. b \in Answerings(a.p)
  BY <1>1, ToldType
<1> HIDE DEF b
<1>3. b \in [p : Peers, says : Seq(Byte)] /\ ReadsAs(b.says, <<>>) /\ b.p.text = p.text /\ b.p.heard = p.heard
  BY <1>1, <1>2 DEF Answerings
<1>4. a.says \o b.says \in Seq(Byte) /\ ReadsAs(a.says \o b.says, <<>>)
  BY <1>1, <1>3, WholeJoin
<1>5. After(a, verb, opt) = [b EXCEPT !.says = a.says \o @]
  BY DEF After, b
<1>6. [b EXCEPT !.says = a.says \o @] = [p |-> b.p, says |-> a.says \o b.says]
  <2> DEFINE x == a.says \o b.says
  <2>1. b = [p |-> b.p, says |-> b.says]
    BY <1>3
  <2>2. [b EXCEPT !.says = x] = [p |-> b.p, says |-> x]
    <3> HIDE DEF x
    <3> QED
      BY <2>1
  <2> QED
    BY <2>2
<1> DEFINE c == a.says \o b.says
<1> HIDE DEF c
<1>7. [p |-> b.p, says |-> c] \in Answerings(p)
  BY <1>3, <1>4 DEF Answerings, c
<1> QED
  BY <1>5, <1>6, <1>7 DEF c

\* All its answers are no data, and change neither what it typed nor what it read.
LEMMA AnswersType ==
  ASSUME NEW q \in Peers, NEW verbs \in Seq(Verbs \X Byte)
  PROVE  Answers(q, verbs) \in Answerings(q)
<1> DEFINE n == Len(verbs)
           S == Answerings(q)
           a == [p |-> q, says |-> <<>>]
           G(x, i) == The({[PeerTold(u.p, verbs[i][1], verbs[i][2]) EXCEPT !.says = u.says \o @] :
                         u \in {x}})
           g == [p \in S \X (1..n) |-> G(p[1], p[2])]
           body(f) == [i \in 0..n |-> IF i = 0 THEN a ELSE G(f[i - 1], i)]
           all == CHOOSE f : f = body(f)
<1>1. n \in Nat /\ a \in S
  BY ReadsNone DEF Answerings
<1>2. ASSUME NEW x \in S, NEW i \in 1..n PROVE G(x, i) \in S
  <2>1. G(x, i) = After(x, verbs[i][1], verbs[i][2])
    BY DEF The, After
  <2>2. verbs[i][1] \in Verbs /\ verbs[i][2] \in Byte
    OBVIOUS
  <2> QED
    BY <2>1, <2>2, AfterType
<1>3. Answers(q, verbs) = all[n]
  BY DEF Answers
<1> HIDE DEF n, S, a, G
<1>4. g \in [S \X (1..n) -> S]
  BY <1>2
<1>5. PICK f \in [0..n -> S] : Runs(f, n, a, g)
  <2> HIDE DEF g
  <2> QED
    BY <1>1, <1>4, Recursion
<1>6. ASSUME NEW i \in 1..n PROVE f[i] = G(f[i - 1], i)
  <2>1. <<f[i - 1], i>> \in S \X (1..n)
    BY <1>1
  <2> QED
    BY <2>1, <1>5 DEF Runs
<1>7. f = body(f) /\ f[0] = a
  BY <1>1, <1>5, <1>6 DEF Runs
<1>8. all = body(all)
  <2> HIDE DEF body
  <2> QED
    BY <1>7
<1>9. Alike(f, all, n)
  <2> HIDE DEF all
  <2>1. \A i \in 0..n : all[i] = body(all)[i]
    BY <1>8
  <2> QED
    BY <1>1, <1>6, <1>7, <2>1 DEF Alike
<1>10. all[n] = f[n]
  <2> HIDE DEF all
  <2> QED
    BY <1>1, <1>9, SameRun
<1> QED
  BY <1>1, <1>3, <1>10 DEF S

-----------------------------------------------------------------------------
(* What holds of a client that has a slot *)

Old(text) == 1..Len(text) - TapSize

\* The places a to b of text are the line of an answer that k misses.
AnswerIn(k, a, b, text) ==
  /\ a <= b /\ a..b \subseteq Missing(k)
  /\ text[b] = Newline
  /\ \A i \in a..b - 1 : text[i] # Newline
  /\ \/ \E j \in DOMAIN k.asks : LineIsNumber(SubSeq(text, a, b), k.asks[j].input)
     \/ a - 1 \in Old(text) /\ \A i \in a..b : text[i] \in Digits \cup Blanks

\* What it is given, in order
GivenInOrder(k) ==
  /\ \A i \in DOMAIN Given(k) : Given(k)[i] \in (k.from + 1)..k.pos
  /\ \A i, j \in DOMAIN Given(k) : i < j => Given(k)[i] < Given(k)[j]

\* What is held is the last it read, without a gap but what was overwritten,
\* and no whole line.
HeldIsLast(k, text) ==
  LET hold == k.echo.hold
  IN  /\ \A i \in DOMAIN hold : hold[i].b = text[hold[i].at] /\ hold[i].b # Newline
      /\ hold # <<>> => hold[Len(hold)].at = k.pos
      /\ \A i \in 1..Len(hold) - 1 : hold[i + 1].at = hold[i].at + 1 \/ hold[i + 1].at - 1 \in Old(text)

\* The line ends that it misses, one for each time it asked, and one is to come.
Ends(k, text) == {n \in Missing(k) : text[n] = Newline} \ Old(text)
EndsCounted(k, text) ==
  Cardinality(Ends(k, text)) + (IF k.echo.input = NoInput THEN 0 ELSE 1) <= Len(k.asks)

\* Why it misses what is at n
Excused(k, n, text) ==
  \/ n \in Old(text)
  \/ \E a, b \in (k.from + 1)..k.pos : a <= n /\ n <= b /\ AnswerIn(k, a, b, text)
  \/ \E a \in DOMAIN k.asks : n \in k.asks[a].held

Order(k, text) ==
  /\ GivenInOrder(k)
  /\ HeldIsLast(k, text)
  /\ EndsCounted(k, text)
  /\ \A n \in Missing(k) : Excused(k, n, text)
  /\ k.echo.input # NoInput => \E a \in DOMAIN k.asks : k.asks[a].input = k.echo.input

\* What is under way to the server, and what is left to do, is what it typed and
\* that was not passed yet.
UpFine(k, n, p, rest) ==
  LET t == Read(At(Start(k.proto.st)), n.up)
  IN  t.at = "data" /\ (k.passed \o rest) \o t.data = p.text

\* What is under way from the server is what it was given and did not read yet.
DownFine(k, n, p, text) ==
  k.whole => /\ Telnet(n.down).at = "data"
             /\ p.heard \o Telnet(n.down).data = [i \in DOMAIN k.got |-> text[k.got[i]]]

Nets == [state : {"new", "open", "left", "closed"}, up : Seq(Byte), down : Seq(Byte)]

Served(k, n, p, rest, text) ==
  /\ k \in Proper /\ k.from <= k.pos /\ k.pos <= Len(text)
  /\ n \in Nets /\ n.state \in {"open", "left"}
  /\ p \in Peers
  /\ UpFine(k, n, p, rest)
  /\ DownFine(k, n, p, text)
  /\ Order(k, text)

Unserved(n, p) ==
  /\ n \in Nets /\ n.state \in {"new", "closed"}
  /\ p \in Peers
  /\ n.state = "new" => n = NewConn /\ p = NewPeer

Rest(c) == IF todo.conn = c THEN todo.data ELSE <<>>
Todos == [conn : Nat, raised : BOOLEAN, data : Seq(Byte)]

World ==
  /\ plan \in Plans
  /\ linked \in BOOLEAN /\ busy \in BOOLEAN /\ rested \in BOOLEAN
  /\ modem \in Modems
  /\ said \in Seq(Byte)
  /\ tap \in [Slots -> Items] /\ Rings(tap, said) /\ \A i \in Slots : tap[i].at <= Len(said)

Doing == todo = Nothing \/ (todo.conn \in Open /\ (todo.raised \/ todo.data # <<>>))

Tables ==
  /\ todo \in Todos /\ Doing
  /\ client = [c \in Open |-> client[c]] /\ Open \subseteq Conns /\ Cardinality(Open) <= MaxClients
  /\ net = [c \in Conns |-> net[c]]
  /\ peer = [c \in Conns |-> peer[c]]

Fine(c) ==
  IF c \in Open THEN Served(client[c], net[c], peer[c], Rest(c), said) ELSE Unserved(net[c], peer[c])

Inv == World /\ Tables /\ \A c \in Conns : Fine(c)

-----------------------------------------------------------------------------
(* The order in which a client is given what the SVS said *)

Ats(items) == [i \in DOMAIN items |-> items[i].at]

\* There is a place for each byte.
LEMMA AtsType ==
  ASSUME NEW items \in Seq(Items)
  PROVE  Ats(items) \in Seq(Nat) /\ Len(Ats(items)) = Len(items)
<1>1. \A i \in DOMAIN items : items[i].at \in Nat
  <2>1. \A i \in DOMAIN items : items[i] \in Items
    OBVIOUS
  <2> QED
    BY <2>1 DEF Items
<1>2. DOMAIN items = 1..Len(items) /\ Len(items) \in Nat
  OBVIOUS
<1> QED
  BY <1>1, <1>2 DEF Ats

\* What a client was and is to be given are places.
LEMMA GivenType ==
  ASSUME NEW k \in Kinds
  PROVE  /\ k.got \in Seq(Nat) /\ k.echo.hold \in Seq(Items)
         /\ Given(k) = k.got \o Ats(k.echo.hold)
         /\ Given(k) \in Seq(Nat)
<1>1. k.got \in Seq(Nat) /\ k.echo.hold \in Seq(Items)
  BY DEF Kinds, Echos
<1>2. Given(k) = k.got \o Ats(k.echo.hold)
  BY DEF Given, Ats
<1> QED
  BY <1>1, <1>2, AtsType

\* k2 misses all that k does, and asked whatever k did.
Follows(k2, k) ==
  /\ k2.from = k.from /\ k.pos <= k2.pos
  /\ Missing(k) \subseteq Missing(k2)
  /\ \A j \in DOMAIN k.asks : j \in DOMAIN k2.asks /\ k2.asks[j] = k.asks[j]

\* What was missing for a reason still is when the client has read on or asked
\* again.
LEMMA StillExcused ==
  ASSUME NEW k \in Kinds, NEW k2 \in Kinds, NEW text, NEW n, Follows(k2, k), Excused(k, n, text)
  PROVE  Excused(k2, n, text)
<1>1. /\ k.pos \in Nat /\ k.from \in Nat /\ k2.pos \in Nat /\ k2.from = k.from /\ k.pos <= k2.pos
      /\ Missing(k) \subseteq Missing(k2)
      /\ \A j \in DOMAIN k.asks : j \in DOMAIN k2.asks /\ k2.asks[j] = k.asks[j]
  BY DEF Follows, Kinds
<1>2. CASE n \in Old(text)
  BY <1>2 DEF Excused
<1>3. CASE \E a \in DOMAIN k.asks : n \in k.asks[a].held
  BY <1>1, <1>3 DEF Excused
<1>4. CASE \E a, b \in (k.from + 1)..k.pos : a <= n /\ n <= b /\ AnswerIn(k, a, b, text)
  <2>1. PICK a \in (k.from + 1)..k.pos, b \in (k.from + 1)..k.pos :
          a <= n /\ n <= b /\ AnswerIn(k, a, b, text)
    BY <1>4
  <2>2. AnswerIn(k2, a, b, text)
    BY <1>1, <2>1 DEF AnswerIn
  <2>3. a \in (k2.from + 1)..k2.pos /\ b \in (k2.from + 1)..k2.pos
    BY <1>1
  <2> QED
    BY <2>1, <2>2, <2>3 DEF Excused
<1> QED
  BY <1>2, <1>3, <1>4 DEF Excused

\* A range of integers is finite.
LEMMA FiniteRange ==
  ASSUME NEW a \in Int, NEW b \in Int
  PROVE  IsFiniteSet(a..b)
BY FS_Interval

\* The line ends that a client misses can be counted.
LEMMA EndsFinite ==
  ASSUME NEW k \in Kinds, NEW text
  PROVE  IsFiniteSet(Ends(k, text)) /\ Cardinality(Ends(k, text)) \in Nat
<1> DEFINE a == k.from + 1
           b == k.pos
<1>1. a \in Int /\ b \in Int
  BY DEF Kinds
<1>2. Ends(k, text) \subseteq a..b
  BY DEF Ends, Missing
<1> HIDE DEF a, b
<1>3. IsFiniteSet(a..b)
  BY <1>1, FiniteRange
<1> QED
  BY <1>2, <1>3, FS_Subset, FS_CardinalityType

\* The next item goes on to a client, or is held: all before it were given.
LEMMA Passed ==
  ASSUME NEW text \in Seq(Byte), NEW k \in Kinds, NEW k2 \in Kinds, NEW at \in Nat,
         Order(k, text), k.from <= k.pos,
         k.pos < at, at <= Len(text), at = k.pos + 1 \/ at - 1 \in Old(text),
         k2.from = k.from, k2.pos = at, k2.asks = k.asks, Given(k2) = Given(k) \o <<at>>,
         HeldIsLast(k2, text), k2.echo.input \in {k.echo.input, NoInput}
  PROVE  Order(k2, text)
<1> DEFINE g == Given(k)
           g2 == Given(k2)
           m == Len(g)
<1>1. g \in Seq(Nat) /\ g2 \in Seq(Nat) /\ m \in Nat
  <2>1. g \in Seq(Nat)
    BY GivenType
  <2>2. g2 \in Seq(Nat)
    BY GivenType
  <2> QED
    BY <2>1, <2>2
<1>2. k.pos \in Nat /\ k.from \in Nat /\ k.echo.input \in Inputs /\ k2.echo.input \in Inputs
  BY DEF Kinds, Echos
<1>3. /\ \A i \in 1..m : g[i] \in (k.from + 1)..k.pos
      /\ \A i, j \in 1..m : i < j => g[i] < g[j]
  <2>1. DOMAIN g = 1..m
    BY <1>1
  <2> QED
    BY <2>1 DEF Order, GivenInOrder
<1>4. DOMAIN g2 = 1..m + 1 /\ (\A i \in 1..m : g2[i] = g[i]) /\ g2[m + 1] = at
  <2> HIDE DEF g
  <2>1. g2 = g \o <<at>>
    BY DEF g
  <2> HIDE DEF g2
  <2> QED
    BY <1>1, <2>1
<1> HIDE DEF g, g2, m
<1>5. GivenInOrder(k2)
  <2>1. ASSUME NEW i \in 1..m + 1 PROVE g2[i] \in (k2.from + 1)..k2.pos
    <3>1. CASE i = m + 1
      BY <1>2, <1>4, <3>1
    <3>2. CASE i # m + 1
      <4>1. i \in 1..m
        BY <1>1, <3>2
      <4>2. g[i] \in (k.from + 1)..k.pos /\ g2[i] = g[i]
        BY <1>3, <1>4, <4>1
      <4> QED
        BY <1>2, <4>2
    <3> QED
      BY <3>1, <3>2
  <2>2. ASSUME NEW i \in 1..m + 1, NEW j \in 1..m + 1, i < j PROVE g2[i] < g2[j]
    <3>1. i \in 1..m /\ g2[i] = g[i] /\ g[i] <= k.pos /\ g[i] \in Nat
      <4>1. i \in 1..m
        BY <1>1, <2>2
      <4>2. g[i] \in (k.from + 1)..k.pos
        BY <1>3, <4>1
      <4> QED
        BY <1>2, <1>4, <4>1, <4>2
    <3>2. CASE j = m + 1
      BY <1>2, <1>4, <3>1, <3>2
    <3>3. CASE j # m + 1
      <4>1. j \in 1..m /\ g2[j] = g[j]
        BY <1>1, <1>4, <3>3
      <4> QED
        BY <1>3, <2>2, <3>1, <4>1
    <3> QED
      BY <3>2, <3>3
  <2> QED
    BY <1>4, <2>1, <2>2 DEF GivenInOrder, g2
<1>6. /\ \A n \in Missing(k2) : n \in Missing(k) \/ n \in Old(text)
      /\ Missing(k) \subseteq Missing(k2)
  <2>1. DOMAIN g = 1..m
    BY <1>1 DEF m
  <2>2. Missing(k) = (k.from + 1)..k.pos \ {g[i] : i \in 1..m}
    BY <2>1 DEF Missing, g
  <2>3. Missing(k2) = (k.from + 1)..at \ {g2[i] : i \in 1..m + 1}
    BY <1>4 DEF Missing, g2
  <2>4. {g2[i] : i \in 1..m + 1} = {g[i] : i \in 1..m} \cup {at}
    <3>1. 1..m + 1 = 1..m \cup {m + 1}
      BY <1>1
    <3>2. {g2[i] : i \in 1..m} = {g[i] : i \in 1..m}
      BY <1>4
    <3> QED
      BY <1>4, <3>1, <3>2
  <2>5. ASSUME NEW n \in (k.pos + 1)..at - 1 PROVE n \in Old(text)
    <3>1. at - 1 \in Old(text)
      BY <1>2, <2>5
    <3> QED
      BY <1>2, <2>5, <3>1, TapSizes DEF Old
  <2>6. ASSUME NEW n \in Missing(k) PROVE n \in Missing(k2)
    <3>1. n \in (k.from + 1)..k.pos /\ n \notin {g[i] : i \in 1..m}
      BY <2>2
    <3>2. n \in (k.from + 1)..at /\ n # at
      BY <1>2, <3>1
    <3> QED
      BY <2>3, <2>4, <3>1, <3>2
  <2>7. ASSUME NEW n \in Missing(k2) PROVE n \in Missing(k) \/ n \in Old(text)
    <3>1. n \in (k.from + 1)..at /\ n \notin {g[i] : i \in 1..m} /\ n # at
      BY <2>3, <2>4
    <3>2. CASE n <= k.pos
      BY <1>2, <2>2, <3>1, <3>2
    <3>3. CASE ~(n <= k.pos)
      BY <1>2, <2>5, <3>1, <3>3
    <3> QED
      BY <3>2, <3>3
  <2> QED
    BY <2>6, <2>7
<1>7. Follows(k2, k)
  BY <1>2, <1>6 DEF Follows
<1>8. \A n \in Missing(k2) : Excused(k2, n, text)
  <2> TAKE n \in Missing(k2)
  <2>1. Excused(k, n, text)
    BY <1>6 DEF Order, Excused
  <2> QED
    BY <1>7, <2>1, StillExcused
<1>9. EndsCounted(k2, text)
  <2>1. Ends(k2, text) = Ends(k, text)
    BY <1>6 DEF Ends
  <2>2. EndsCounted(k, text)
    BY DEF Order
  <2>3. CASE k2.echo.input = k.echo.input
    BY <2>1, <2>2, <2>3 DEF EndsCounted
  <2>4. CASE k2.echo.input = NoInput
    <3>3. Cardinality(Ends(k, text)) \in Nat /\ Len(k.asks) \in Nat
      <4>1. k.asks \in Seq(Asked)
        BY DEF Kinds
      <4> QED
        BY <4>1, EndsFinite
    <3> QED
      BY <2>1, <2>2, <2>4, <3>3 DEF EndsCounted
  <2> QED
    BY <2>3, <2>4
<1>10. k2.echo.input # NoInput => \E a \in DOMAIN k2.asks : k2.asks[a].input = k2.echo.input
  BY DEF Order
<1> QED
  BY <1>5, <1>8, <1>9, <1>10 DEF Order

IsJoined(g, x, y) ==
  /\ DOMAIN g = 1..Len(x) + Len(y)
  /\ \A i \in 1..Len(x) : g[i] = x[i]
  /\ \A i \in 1..Len(y) : g[Len(x) + i] = y[i]

\* Where the members of two sequences are when they are joined.
LEMMA NatJoin ==
  ASSUME NEW x \in Seq(Nat), NEW y \in Seq(Nat)
  PROVE  IsJoined(x \o y, x, y)
BY DEF IsJoined

\* What a client was given
Got(k) == {k.got[i] : i \in DOMAIN k.got}

GivenFacts(k) ==
  /\ k.got \in Seq(Nat) /\ k.echo.hold \in Seq(Items)
  /\ Missing(k) = (k.from + 1)..k.pos \ (Got(k) \cup Held(k.echo))
  /\ \A i \in 1..Len(k.got) : k.got[i] \in (k.from + 1)..k.pos
  /\ \A i \in 1..Len(k.echo.hold) : k.echo.hold[i].at \in (k.from + 1)..k.pos
  /\ \A i, j \in 1..Len(k.got) : i < j => k.got[i] < k.got[j]
  /\ \A i, j \in 1..Len(k.echo.hold) : i < j => k.echo.hold[i].at < k.echo.hold[j].at
  /\ \A i \in 1..Len(k.got), j \in 1..Len(k.echo.hold) : k.got[i] < k.echo.hold[j].at

\* That what is given is in order, told of what was given and of what is held
LEMMA GivenSplit ==
  ASSUME NEW k \in Kinds, GivenInOrder(k)
  PROVE  GivenFacts(k)
<1> DEFINE g == Given(k)
           x == k.got
           h == k.echo.hold
           y == Ats(h)
           n == Len(x)
           m == Len(h)
<1>1. x \in Seq(Nat) /\ h \in Seq(Items) /\ g = x \o y /\ g \in Seq(Nat)
  BY GivenType
<1>2. y \in Seq(Nat) /\ Len(y) = m /\ m \in Nat /\ n \in Nat
  BY <1>1, AtsType
<1>3. \A i \in 1..m : y[i] = h[i].at
  BY <1>1 DEF Ats
<1>4. DOMAIN x = 1..n /\ DOMAIN h = 1..m
  BY <1>1
<1> HIDE DEF g, y
<1>5. DOMAIN g = 1..n + m /\ (\A i \in 1..n : g[i] = x[i]) /\ (\A i \in 1..m : g[n + i] = y[i])
  <2> HIDE DEF x, m
  <2> QED
    BY <1>1, <1>2, NatJoin DEF IsJoined
<1>6. /\ \A i \in 1..n + m : g[i] \in (k.from + 1)..k.pos
      /\ \A i, j \in 1..n + m : i < j => g[i] < g[j]
  BY <1>5 DEF GivenInOrder, g
<1> HIDE DEF x, h, n, m
<1>7. \A i \in 1..n : x[i] \in (k.from + 1)..k.pos
  <2> TAKE i \in 1..n
  <2>1. i \in 1..n + m
    BY <1>2
  <2> QED
    BY <1>5, <1>6, <2>1
<1>8. \A i \in 1..m : n + i \in 1..n + m /\ g[n + i] = h[i].at
  BY <1>2, <1>3, <1>5
<1>9. \A i \in 1..m : h[i].at \in (k.from + 1)..k.pos
  BY <1>6, <1>8
<1>10. ASSUME NEW i \in 1..n, NEW j \in 1..n, i < j PROVE x[i] < x[j]
  <2>1. i \in 1..n + m /\ j \in 1..n + m
    BY <1>2
  <2> QED
    BY <1>5, <1>6, <1>10, <2>1
<1>11. ASSUME NEW i \in 1..m, NEW j \in 1..m, i < j PROVE h[i].at < h[j].at
  <2>1. n + i < n + j
    BY <1>2, <1>11
  <2>2. g[n + i] < g[n + j]
    BY <1>6, <1>8, <2>1
  <2> QED
    BY <1>8, <2>2
<1>12. ASSUME NEW i \in 1..n, NEW j \in 1..m PROVE x[i] < h[j].at
  <2>1. i \in 1..n + m /\ i < n + j
    BY <1>2
  <2>2. g[i] < g[n + j]
    BY <1>6, <1>8, <2>1
  <2> QED
    BY <1>5, <1>8, <2>2
<1>13. {g[i] : i \in 1..n + m} = {x[i] : i \in 1..n} \cup {h[i].at : i \in 1..m}
  <2>1. ASSUME NEW i \in 1..n + m PROVE g[i] \in {x[j] : j \in 1..n} \cup {h[j].at : j \in 1..m}
    <3>1. CASE i <= n
      <4>1. i \in 1..n
        BY <1>2, <3>1
      <4> QED
        BY <1>5, <4>1
    <3>2. CASE ~(i <= n)
      <4> DEFINE j == i - n
      <4>1. j \in 1..m /\ n + j = i
        BY <1>2, <3>2
      <4> HIDE DEF j
      <4> QED
        BY <1>8, <4>1
    <3> QED
      BY <3>1, <3>2
  <2>2. ASSUME NEW i \in 1..n PROVE x[i] \in {g[j] : j \in 1..n + m}
    <3>1. i \in 1..n + m
      BY <1>2
    <3> QED
      BY <1>5, <3>1
  <2>3. ASSUME NEW i \in 1..m PROVE h[i].at \in {g[j] : j \in 1..n + m}
    BY <1>8
  <2> QED
    BY <2>1, <2>2, <2>3
<1>14. Missing(k) = (k.from + 1)..k.pos \ {g[i] : i \in 1..n + m}
  BY <1>5 DEF Missing, g
<1>15. Got(k) = {x[i] : i \in 1..n} /\ Held(k.echo) = {h[i].at : i \in 1..m}
  BY <1>4 DEF Got, Held, x, h
<1>16. Missing(k) = (k.from + 1)..k.pos \ (Got(k) \cup Held(k.echo))
  BY <1>13, <1>14, <1>15
<1> QED
  BY <1>1, <1>7, <1>9, <1>10, <1>11, <1>12, <1>16 DEF GivenFacts, x, h, n, m

\* The last places of what is held with the next item, as far back as there is no gap
LEMMA LastRun ==
  ASSUME NEW hold \in Seq(Items), hold # <<>>
  PROVE  \E j \in 1..Len(hold) :
           /\ \A i \in j..Len(hold) : hold[i].at = hold[j].at + (i - j)
           /\ j = 1 \/ hold[j].at # hold[j - 1].at + 1
<1> DEFINE m == Len(hold)
           at == [i \in 1..m |-> hold[i].at]
           S == {j \in 1..m : \A i \in j..m : at[i] = at[j] + (i - j)}
<1>1. m \in Nat /\ m >= 1
  OBVIOUS
<1>2. at \in [1..m -> Nat]
  <2>1. \A i \in 1..m : hold[i] \in Items
    OBVIOUS
  <2> QED
    BY <2>1 DEF Items
<1> HIDE DEF m, at
<1>3. m \in S
  BY <1>1, <1>2
<1>4. PICK j \in S : \A i \in S : j <= i
  <2>1. S \subseteq 1..m /\ S # {}
    BY <1>3
  <2> HIDE DEF S
  <2>2. S \in SUBSET Nat
    BY <1>1, <2>1
  <2> QED
    BY <2>1, <2>2, Least
<1>5. ASSUME j # 1 PROVE at[j] # at[j - 1] + 1
  <2> SUFFICES ASSUME at[j] = at[j - 1] + 1 PROVE FALSE
    OBVIOUS
  <2>1. j \in 2..m /\ j - 1 \in 1..m
    BY <1>1, <1>4, <1>5
  <2>2. ASSUME NEW i \in (j - 1)..m PROVE at[i] = at[j - 1] + (i - (j - 1))
    <3>1. at[j - 1] \in Nat /\ at[j] \in Nat /\ i \in Nat
      BY <1>2, <2>1
    <3>2. CASE i = j - 1
      BY <2>1, <3>1, <3>2
    <3>3. CASE i # j - 1
      <4>1. i \in j..m
        BY <1>1, <2>1, <3>3
      <4>2. at[i] = at[j] + (i - j)
        BY <1>4, <4>1
      <4> QED
        BY <2>1, <3>1, <4>2
    <3> QED
      BY <3>2, <3>3
  <2>3. j - 1 \in S
    BY <2>1, <2>2
  <2> QED
    BY <1>4, <2>1, <2>3
<1>6. j \in 1..m /\ \A i \in j..m : at[i] = at[j] + (i - j)
  BY <1>4
<1>7. \A i \in 1..m : at[i] = hold[i].at
  BY DEF at
<1>8. \A i \in j..m : i \in 1..m
  BY <1>1, <1>6
<1>9. j = 1 \/ j - 1 \in 1..m
  BY <1>1, <1>6
<1> QED
  BY <1>5, <1>6, <1>7, <1>8, <1>9 DEF m

\* A line that is the number a client waits for is not given to it.
LEMMA Removed ==
  ASSUME NEW text \in Seq(Byte), NEW k \in Kinds, NEW k2 \in Kinds, NEW item \in Items,
         Order(k, text), k.from <= k.pos,
         k.pos < item.at, item.at <= Len(text), item.at = k.pos + 1 \/ item.at - 1 \in Old(text),
         item.b = text[item.at], item.b = Newline,
         k.echo.input # NoInput, LineIsNumber(Bytes(Append(k.echo.hold, item)), k.echo.input),
         k2.from = k.from, k2.pos = item.at, k2.asks = k.asks, k2.got = k.got, k2.echo = NoEcho
  PROVE  Order(k2, text)
<1> DEFINE hold == Append(k.echo.hold, item)
           m == Len(hold)
           at == [i \in 1..m |-> hold[i].at]
           b == [i \in 1..m |-> hold[i].b]
<1>1. /\ k.pos \in Nat /\ k.from \in Nat /\ k.echo.hold \in Seq(Items) /\ k.got \in Seq(Nat)
      /\ item.at \in Nat /\ item.b \in Byte /\ Len(text) \in Nat
  BY DEF Kinds, Echos, Items
<1>2. GivenFacts(k)
  BY GivenSplit DEF Order
<1>3. /\ hold \in Seq(Items) /\ m = Len(k.echo.hold) + 1 /\ m \in Nat /\ hold[m] = item
      /\ \A i \in 1..m - 1 : hold[i] = k.echo.hold[i]
  BY <1>1
<1>a. m \in Nat /\ m >= 1 /\ m \in 1..m
  BY <1>3
<1>b. DOMAIN k.echo.hold = 1..m - 1 /\ Len(k.echo.hold) = m - 1
  BY <1>1, <1>3
<1>c. \A i \in 1..m - 1 : hold[i] = k.echo.hold[i] /\ i \in 1..m
  BY <1>3
<1>4. at[m] = item.at /\ b[m] = Newline
  BY <1>3
<1>5. /\ at \in [1..m -> Nat] /\ b \in [1..m -> Byte]
      /\ \A i \in 1..m : at[i] = hold[i].at /\ b[i] = hold[i].b
  <2>1. \A i \in 1..m : hold[i] \in Items
    BY <1>3
  <2> QED
    BY <2>1 DEF Items
<1> HIDE DEF at, b, m, hold
<1>6. ASSUME NEW i \in 1..m
      PROVE  /\ at[i] \in (k.from + 1)..item.at /\ b[i] = text[at[i]]
             /\ i < m => at[i] \in (k.from + 1)..k.pos /\ at[i] < item.at /\ b[i] # Newline
  <2>1. CASE i = m
    <3>1. k.from < item.at
      BY <1>1
    <3>2. item.at \in (k.from + 1)..item.at
      BY <1>1, <3>1
    <3>3. ~(i < m)
      BY <1>a, <2>1
    <3> QED
      BY <1>4, <2>1, <3>2, <3>3
  <2>2. CASE i # m
    <3>0. i \in 1..m - 1
      BY <1>a, <2>2
    <3>1. i \in 1..Len(k.echo.hold) /\ i \in DOMAIN k.echo.hold /\ hold[i] = k.echo.hold[i]
      BY <1>b, <1>c, <3>0
    <3>2. k.echo.hold[i].at \in (k.from + 1)..k.pos
      BY <1>2, <3>1 DEF GivenFacts
    <3>3. k.echo.hold[i].b = text[k.echo.hold[i].at] /\ k.echo.hold[i].b # Newline
      BY <3>1 DEF Order, HeldIsLast
    <3>4. at[i] = k.echo.hold[i].at /\ b[i] = k.echo.hold[i].b
      BY <1>5, <3>1
    <3>5. at[i] \in (k.from + 1)..k.pos /\ b[i] = text[at[i]] /\ b[i] # Newline
      BY <3>2, <3>3, <3>4
    <3>6. at[i] \in (k.from + 1)..item.at /\ at[i] < item.at
      BY <1>1, <3>5
    <3> QED
      BY <3>5, <3>6
  <2> QED
    BY <2>1, <2>2
<1>7. ASSUME NEW i \in 1..m, NEW j \in 1..m, i < j PROVE at[i] < at[j]
  <2>1. CASE j = m
    BY <1>4, <1>6, <1>7, <2>1
  <2>2. CASE j # m
    <3>1. i \in 1..Len(k.echo.hold) /\ j \in 1..Len(k.echo.hold)
      <4>1. j \in 1..m - 1
        BY <1>a, <2>2
      <4>2. i \in 1..m - 1
        BY <1>a, <1>7, <4>1
      <4> QED
        BY <1>b, <4>1, <4>2
    <3>2. k.echo.hold[i].at < k.echo.hold[j].at
      BY <1>2, <1>7, <3>1 DEF GivenFacts
    <3>3. i \in 1..m - 1 /\ j \in 1..m - 1
      BY <1>b, <3>1
    <3> QED
      BY <1>c, <1>5, <3>2, <3>3
  <2> QED
    BY <2>1, <2>2
<1>8. ASSUME NEW i \in 1..m - 1 PROVE at[i + 1] = at[i] + 1 \/ at[i + 1] - 1 \in Old(text)
  <2>1. CASE i + 1 = m
    <3>1. k.echo.hold # <<>> /\ i = Len(k.echo.hold)
      <4>1. Len(k.echo.hold) = i /\ i >= 1
        BY <1>a, <1>b, <2>1
      <4>2. Len(<<>>) = 0
        OBVIOUS
      <4> QED
        BY <4>1, <4>2
    <3>2. at[i] = k.pos
      <4>1. k.echo.hold[Len(k.echo.hold)].at = k.pos
        BY <3>1 DEF Order, HeldIsLast
      <4>2. at[i] = hold[i].at /\ hold[i] = k.echo.hold[i]
        BY <1>c, <1>5
      <4> QED
        BY <3>1, <4>1, <4>2
    <3> QED
      BY <1>4, <2>1, <3>2
  <2>2. CASE i + 1 # m
    <3>1. i \in 1..Len(k.echo.hold) - 1 /\ i \in 1..m - 1 /\ i + 1 \in 1..m - 1
      BY <1>a, <1>b, <2>2
    <3>2. \/ k.echo.hold[i + 1].at = k.echo.hold[i].at + 1
          \/ k.echo.hold[i + 1].at - 1 \in Old(text)
      BY <3>1 DEF Order, HeldIsLast
    <3>3. at[i] = k.echo.hold[i].at /\ at[i + 1] = k.echo.hold[i + 1].at
      BY <1>c, <1>5, <3>1
    <3> QED
      BY <3>2, <3>3
  <2> QED
    BY <2>1, <2>2
<1>9. PICK j \in 1..m :
        /\ \A i \in j..m : at[i] = at[j] + (i - j)
        /\ j = 1 \/ at[j] # at[j - 1] + 1
  <2>1. hold # <<>>
    BY <1>3 DEF m
  <2> DEFINE h == hold
  <2> HIDE DEF h
  <2>2. h \in Seq(Items) /\ h # <<>> /\ m = Len(h)
    BY <1>3, <2>1 DEF h, m
  <2>3. PICK j \in 1..m :
          /\ \A i \in j..m : h[i].at = h[j].at + (i - j)
          /\ j = 1 \/ h[j].at # h[j - 1].at + 1
    BY <2>2, LastRun
  <2>4. \A i \in 1..m : at[i] = h[i].at
    BY <1>5 DEF h
  <2>5. \A i \in j..m : i \in 1..m
    BY <1>a
  <2>6. j = 1 \/ j - 1 \in 1..m
    BY <1>a
  <2> QED
    BY <2>3, <2>4, <2>5, <2>6
<1>10. Bytes(hold) = b /\ LineIsNumber(b, k.echo.input)
  <2>1. DOMAIN hold = 1..m
    BY <1>3 DEF m
  <2>2. Bytes(hold) = b
    BY <1>5, <2>1 DEF Bytes, b
  <2> QED
    BY <2>2 DEF hold
<1>11. Got(k2) = Got(k) /\ Held(k2.echo) = {} /\ k2.echo.hold = <<>> /\ k2.echo.input = NoInput
  BY DEF Got, Held, NoEcho
<1>12. GivenInOrder(k2)
  <2>1. Given(k2) = k.got
    <3>1. Given(k2) = k.got \o <<>>
      BY <1>11 DEF Given
    <3> QED
      BY <1>1, <3>1
  <2>2. DOMAIN k.got = 1..Len(k.got)
    BY <1>1
  <2>3. \A i \in 1..Len(k.got) : k.got[i] \in (k.from + 1)..item.at
    BY <1>1, <1>2 DEF GivenFacts
  <2> QED
    BY <1>2, <2>1, <2>2, <2>3 DEF GivenInOrder, GivenFacts
<1>13. Missing(k2) = (k.from + 1)..item.at \ Got(k)
  <2>1. GivenFacts(k2)
    BY <1>12, GivenSplit
  <2> QED
    BY <1>11, <2>1 DEF GivenFacts
<1>14. Missing(k) = (k.from + 1)..k.pos \ (Got(k) \cup Held(k.echo))
  BY <1>2 DEF GivenFacts
<1>15. \A i \in 1..m : at[i] \in Missing(k2)
  <2> TAKE i \in 1..m
  <2>1. ASSUME NEW x \in 1..Len(k.got) PROVE k.got[x] # at[i]
    <3>1. k.got[x] \in (k.from + 1)..k.pos
      BY <1>2 DEF GivenFacts
    <3>2. CASE i = m
      BY <1>1, <1>4, <3>1, <3>2
    <3>3. CASE i # m
      <4>1. i \in 1..Len(k.echo.hold) /\ at[i] = k.echo.hold[i].at
        <5>1. i \in 1..m - 1
          BY <1>a, <3>3
        <5> QED
          BY <1>b, <1>c, <1>5, <5>1
      <4>2. k.got[x] < k.echo.hold[i].at
        BY <1>2, <4>1 DEF GivenFacts
      <4> QED
        BY <1>1, <3>1, <4>1, <4>2
    <3> QED
      BY <3>2, <3>3
  <2>2. DOMAIN k.got = 1..Len(k.got)
    BY <1>1
  <2>3. at[i] \notin Got(k)
    BY <2>1, <2>2 DEF Got
  <2> QED
    BY <1>6, <1>13, <2>3
<1>16. Held(k.echo) = {at[i] : i \in 1..m - 1}
  <2>1. DOMAIN k.echo.hold = 1..m - 1
    BY <1>b
  <2>2. \A i \in 1..m - 1 : at[i] = k.echo.hold[i].at
    BY <1>c, <1>5
  <2> QED
    BY <2>1, <2>2 DEF Held
<1>17. Follows(k2, k)
  <2>1. Missing(k) \subseteq Missing(k2)
    BY <1>1, <1>13, <1>14
  <2> QED
    BY <1>1, <2>1 DEF Follows
\* What is missing now
<1>18. \A n \in Missing(k2) : n \in Missing(k) \/ n \in Old(text) \/ \E i \in 1..m : n = at[i]
  <2> TAKE n \in Missing(k2)
  <2>1. n \in (k.from + 1)..item.at /\ n \notin Got(k)
    BY <1>13
  <2>2. CASE n <= k.pos
    <3>1. n \in Missing(k) \/ n \in Held(k.echo)
      BY <1>1, <1>14, <2>1, <2>2
    <3>2. \A i \in 1..m - 1 : i \in 1..m
      BY <1>a
    <3> QED
      BY <1>16, <3>1, <3>2
  <2>3. CASE n > k.pos /\ n # item.at
    <3>1. item.at - 1 \in Old(text)
      BY <1>1, <2>1, <2>3
    <3> QED
      BY <1>1, <2>1, <2>3, <3>1, TapSizes DEF Old
  <2>4. CASE n = item.at
    <3>1. m \in 1..m
      BY <1>a
    <3> QED
      BY <1>4, <2>4, <3>1
  <2> QED
    BY <1>1, <2>1, <2>2, <2>3, <2>4
<1>19. EndsCounted(k2, text)
  <2>1. Ends(k2, text) \subseteq Ends(k, text) \cup {item.at}
    <3>1. ASSUME NEW i \in 1..m, text[at[i]] = Newline PROVE at[i] = item.at
      <4>1. i = m
        <5> SUFFICES ASSUME i # m PROVE FALSE
          OBVIOUS
        <5>1. i < m
          BY <1>a
        <5> QED
          BY <1>6, <3>1, <5>1
      <4> QED
        BY <1>4, <4>1
    <3> QED
      BY <1>18, <3>1 DEF Ends
  <2> DEFINE E == Ends(k, text)
  <2>2. IsFiniteSet(E) /\ Cardinality(E) \in Nat
    BY EndsFinite
  <2> HIDE DEF E
  <2>3. IsFiniteSet(E \cup {item.at}) /\ Cardinality(E \cup {item.at}) <= Cardinality(E) + 1
    <3> DEFINE x == item.at
    <3> HIDE DEF x
    <3>1. /\ IsFiniteSet(E \cup {x})
          /\ Cardinality(E \cup {x}) = IF x \in E THEN Cardinality(E) ELSE Cardinality(E) + 1
      BY <2>2, FS_AddElement
    <3> QED
      BY <2>2, <3>1 DEF x
  <2>4. Cardinality(Ends(k2, text)) <= Cardinality(E \cup {item.at})
    BY <2>1, <2>3, FS_Subset DEF E
  <2>5. Cardinality(E) + 1 <= Len(k.asks)
    BY DEF Order, EndsCounted, E
  <2>6. Cardinality(Ends(k2, text)) \in Nat /\ Cardinality(E \cup {item.at}) \in Nat
    BY <2>3, EndsFinite, FS_CardinalityType
  <2>7. Len(k.asks) \in Nat
    BY DEF Kinds
  <2> QED
    BY <1>11, <2>2, <2>3, <2>4, <2>5, <2>6, <2>7 DEF EndsCounted
\* The line of the number, from its beginning or from what was overwritten on
<1>20. AnswerIn(k2, at[j], item.at, text)
  <2>1. at[j] <= item.at /\ at[j] \in Nat
    BY <1>1, <1>5, <1>6
  <2>2. \A n \in at[j]..item.at : \E i \in j..m : n = at[i]
    <3> TAKE n \in at[j]..item.at
    <3>1. item.at = at[j] + (m - j)
      <4>1. m \in j..m
        BY <1>a
      <4> QED
        BY <1>4, <1>9, <4>1
    <3> DEFINE i == j + (n - at[j])
    <3>2. i \in j..m
      BY <1>a, <2>1, <3>1
    <3>3. at[i] = at[j] + (i - j)
      BY <1>9, <3>2
    <3>4. at[i] = n
      BY <1>a, <2>1, <3>3
    <3> QED
      BY <3>2, <3>4
  <2>3. \A i \in j..m : i \in 1..m
    BY <1>a
  <2>4. at[j]..item.at \subseteq Missing(k2)
    BY <1>15, <2>2, <2>3
  <2>5. text[item.at] = Newline
    OBVIOUS
  <2>6. \A n \in at[j]..item.at - 1 : text[n] # Newline
    <3> TAKE n \in at[j]..item.at - 1
    <3>1. n \in at[j]..item.at /\ n # item.at
      BY <1>1, <2>1
    <3>2. PICK i \in j..m : n = at[i]
      BY <2>2, <3>1
    <3>3. i \in 1..m /\ i < m
      <4>1. i \in 1..m /\ i # m
        BY <1>4, <2>3, <3>1, <3>2
      <4> QED
        BY <1>a, <4>1
    <3> QED
      BY <1>6, <3>2, <3>3
  <2>7. CASE j = 1
    <3>1. PICK a \in DOMAIN k.asks : k.asks[a].input = k.echo.input
      BY DEF Order
    <3>2. SubSeq(text, at[1], item.at) = b
      <4>1. item.at = at[1] + (m - 1) /\ at[1] \in Nat /\ at[1] >= 1
        <5>1. m \in 1..m /\ 1 \in 1..m
          BY <1>a
        <5>2. at[m] = at[1] + (m - 1)
          BY <1>9, <2>7, <5>1
        <5>3. at[1] \in (k.from + 1)..item.at
          BY <1>6, <5>1
        <5> QED
          BY <1>1, <1>4, <5>2, <5>3
      <4> DEFINE s == SubSeq(text, at[1], item.at)
      <4>2. s = [i \in 1..m |-> text[at[1] + i - 1]]
        <5>1. (item.at - at[1]) + 1 = m
          BY <1>1, <1>a, <4>1
        <5>2. item.at \in 1..Len(text) /\ at[1] \in 1..Len(text)
          BY <1>1, <1>a, <4>1
        <5>3. Len(s) = m /\ \A i \in 1..m : s[i] = text[at[1] + i - 1]
          BY <1>a, <4>1, <5>1, <5>2
        <5>4. s \in Seq(Byte)
          BY <4>1, <5>2
        <5> HIDE DEF s
        <5> QED
          BY <1>3, <5>3, <5>4
      <4>3. \A i \in 1..m : b[i] = text[at[1] + i - 1]
        <5> TAKE i \in 1..m
        <5>1. i \in j..m
          BY <2>7
        <5>2. at[i] = at[1] + i - 1
          BY <1>a, <1>9, <2>7, <4>1, <5>1
        <5> QED
          BY <1>6, <5>2
      <4> HIDE DEF s
      <4> QED
        BY <1>5, <4>2, <4>3 DEF s
    <3> QED
      BY <1>10, <2>1, <2>4, <2>5, <2>6, <2>7, <3>1, <3>2 DEF AnswerIn
  <2>8. CASE j # 1
    <3>1. j - 1 \in 1..m - 1 /\ (j - 1) + 1 = j
      BY <1>a, <2>8
    <3>2. at[j] - 1 \in Old(text)
      BY <1>8, <1>9, <2>8, <3>1
    <3>3. \A i \in 1..m : b[i] \in Digits \cup Blanks
      <4>1. DOMAIN b = 1..m
        BY <1>5
      <4> QED
        BY <1>10, <4>1 DEF LineIsNumber
    <3>4. \A n \in at[j]..item.at : text[n] \in Digits \cup Blanks
      BY <1>6, <2>2, <2>3, <3>3
    <3> QED
      BY <2>1, <2>4, <2>5, <2>6, <3>2, <3>4 DEF AnswerIn
  <2> QED
    BY <2>7, <2>8
<1>21. \A n \in Missing(k2) : Excused(k2, n, text)
  <2> TAKE n \in Missing(k2)
  <2>1. CASE n \in Missing(k)
    <3>1. Excused(k, n, text)
      BY <2>1 DEF Order
    <3> QED
      BY <1>17, <3>1, StillExcused
  <2>2. CASE n \in Old(text)
    BY <2>2 DEF Excused
  <2>3. CASE \E i \in 1..m : n = at[i]
    <3>1. PICK i \in 1..m : n = at[i]
      BY <2>3
    <3>2. CASE i >= j
      <4>1. at[j] <= n /\ n <= item.at
        <5>1. CASE i = j
          BY <1>1, <1>5, <1>6, <3>1, <5>1
        <5>2. CASE i # j
          <6>1. at[j] < at[i]
            BY <1>a, <1>7, <3>2, <5>2
          <6> QED
            BY <1>1, <1>5, <1>6, <3>1, <6>1
        <5> QED
          BY <5>1, <5>2
      <4>2. at[j] \in (k2.from + 1)..k2.pos /\ item.at \in (k2.from + 1)..k2.pos
        BY <1>1, <1>6
      <4> QED
        BY <1>20, <4>1, <4>2 DEF Excused
    <3>3. CASE i < j
      <4>1. at[i] < at[j]
        BY <1>7, <3>3
      <4>2. j - 1 \in 1..m - 1 /\ (j - 1) + 1 = j
        BY <1>a, <3>3
      <4>3. at[j] - 1 \in Old(text)
        BY <1>8, <1>9, <3>3, <4>2
      <4>4. at[i] >= 1
        BY <1>1, <1>6
      <4>5. at[i] \in Old(text)
        <5>1. at[i] \in Nat /\ at[j] \in Nat
          BY <1>5
        <5> QED
          BY <1>1, <4>1, <4>3, <4>4, <5>1, TapSizes DEF Old
      <4> QED
        BY <3>1, <4>5 DEF Excused
    <3> QED
      BY <1>a, <3>2, <3>3
  <2> QED
    BY <1>18, <2>1, <2>2, <2>3
<1>22. HeldIsLast(k2, text)
  BY <1>11 DEF HeldIsLast
<1> QED
  BY <1>11, <1>12, <1>19, <1>21, <1>22 DEF Order

\* What was held is given to it after all.
LEMMA Released ==
  ASSUME NEW text, NEW k \in Kinds, NEW k2 \in Kinds, Order(k, text),
         k2.from = k.from, k2.pos = k.pos, k2.asks = k.asks,
         k2.got = k.got \o Ats(k.echo.hold), k2.echo = NoEcho
  PROVE  Order(k2, text)
<1>1. Given(k2) = Given(k)
  <2>1. k2.got \in Seq(Nat) /\ Given(k) = k2.got
    BY GivenType
  <2>2. k2.echo.hold = <<>>
    BY DEF NoEcho
  <2>3. Given(k2) = k2.got \o Ats(<<>>)
    BY <2>2, GivenType
  <2>4. Ats(<<>>) = <<>>
    BY DEF Ats
  <2>5. k2.got \o <<>> = k2.got
    BY <2>1
  <2> QED
    BY <2>1, <2>3, <2>4, <2>5
<1>2. Missing(k2) = Missing(k)
  BY <1>1 DEF Missing
<1>3. GivenInOrder(k2)
  BY <1>1 DEF Order, GivenInOrder
<1>4. HeldIsLast(k2, text)
  BY DEF HeldIsLast, NoEcho
<1>5. EndsCounted(k2, text)
  <2>1. Ends(k2, text) = Ends(k, text) /\ k2.echo.input = NoInput
    BY <1>2 DEF Ends, NoEcho
  <2>2. Cardinality(Ends(k, text)) \in Nat /\ Len(k.asks) \in Nat
    BY EndsFinite DEF Kinds
  <2> QED
    BY <2>1, <2>2 DEF Order, EndsCounted
<1>6. Follows(k2, k)
  BY <1>2 DEF Follows, Kinds
<1>7. \A n \in Missing(k2) : Excused(k2, n, text)
  BY <1>2, <1>6, StillExcused DEF Order
<1> QED
  BY <1>3, <1>4, <1>5, <1>7 DEF Order, NoEcho

\* It asks while something is held, which is forgotten.
LEMMA AskedOrder ==
  ASSUME NEW text, NEW k \in Kinds, NEW k2 \in Kinds, NEW n, Order(k, text),
         k2.from = k.from, k2.pos = k.pos, k2.got = k.got, k2.echo = Expect(n),
         k2.asks = Append(k.asks, [input |-> n, held |-> Held(k.echo)])
  PROVE  Order(k2, text)
<1>1. k2.echo.hold = <<>> /\ k2.echo.input = n /\ Held(k2.echo) = {} /\ Got(k2) = Got(k)
  BY DEF Expect, Held, Got
<1>2. GivenFacts(k) /\ k.got \in Seq(Nat) /\ k.asks \in Seq(Asked) /\ k2.asks \in Seq(Asked)
  BY GivenSplit DEF Order, Kinds
<1> DEFINE m == Len(k.asks)
<1>3. /\ m \in Nat /\ DOMAIN k.asks = 1..m /\ DOMAIN k2.asks = 1..m + 1 /\ Len(k2.asks) = m + 1
      /\ (\A j \in 1..m : k2.asks[j] = k.asks[j])
      /\ k2.asks[m + 1] = [input |-> n, held |-> Held(k.echo)]
  BY <1>2
<1> HIDE DEF m
<1>4. GivenInOrder(k2)
  <2>1. Given(k2) = k.got
    <3>1. Given(k2) = k.got \o <<>>
      BY <1>1 DEF Given
    <3> QED
      BY <1>2, <3>1
  <2>2. DOMAIN k.got = 1..Len(k.got)
    BY <1>2
  <2> QED
    BY <1>2, <2>1, <2>2 DEF GivenInOrder, GivenFacts
<1>5. Missing(k2) = Missing(k) \cup Held(k.echo)
  <2>1. GivenFacts(k2)
    BY <1>4, GivenSplit
  <2>2. Missing(k2) = (k.from + 1)..k.pos \ Got(k)
    BY <1>1, <2>1 DEF GivenFacts
  <2>3. Missing(k) = (k.from + 1)..k.pos \ (Got(k) \cup Held(k.echo))
    BY <1>2 DEF GivenFacts
  <2>4. ASSUME NEW x \in Held(k.echo) PROVE x \in (k.from + 1)..k.pos /\ x \notin Got(k)
    <3>1. DOMAIN k.echo.hold = 1..Len(k.echo.hold) /\ DOMAIN k.got = 1..Len(k.got)
      BY <1>2 DEF GivenFacts
    <3>2. PICK i \in 1..Len(k.echo.hold) : x = k.echo.hold[i].at
      BY <3>1 DEF Held
    <3>3. x \in (k.from + 1)..k.pos /\ \A j \in 1..Len(k.got) : k.got[j] < x
      BY <1>2, <3>2 DEF GivenFacts
    <3>4. x \in Int /\ \A j \in 1..Len(k.got) : k.got[j] # x
      BY <3>3
    <3> QED
      BY <3>1, <3>3, <3>4 DEF Got
  <2> QED
    BY <2>2, <2>3, <2>4
<1>6. EndsCounted(k2, text)
  <2>1. \A x \in Held(k.echo) : text[x] # Newline
    BY DEF Order, HeldIsLast, Held
  <2>2. Ends(k2, text) = Ends(k, text)
    BY <1>5, <2>1 DEF Ends
  <2>3. Cardinality(Ends(k, text)) <= m /\ Cardinality(Ends(k, text)) \in Nat
    <3>1. Cardinality(Ends(k, text)) \in Nat
      BY EndsFinite
    <3>2. EndsCounted(k, text)
      BY DEF Order
    <3> QED
      BY <1>3, <3>1, <3>2 DEF EndsCounted, m
  <2> QED
    BY <1>3, <2>2, <2>3 DEF EndsCounted
<1>7. Follows(k2, k)
  <2>1. \A j \in 1..m : j \in 1..m + 1
    BY <1>3
  <2> QED
    BY <1>3, <1>5, <2>1 DEF Follows, Kinds
<1>8. \A x \in Missing(k2) : Excused(k2, x, text)
  <2> TAKE x \in Missing(k2)
  <2>1. CASE x \in Missing(k)
    BY <1>7, <2>1, StillExcused DEF Order
  <2>2. CASE x \in Held(k.echo)
    <3>1. m + 1 \in DOMAIN k2.asks /\ x \in k2.asks[m + 1].held
      BY <1>3, <2>2
    <3> QED
      BY <3>1 DEF Excused
  <2> QED
    BY <1>5, <2>1, <2>2
<1>9. HeldIsLast(k2, text)
  BY <1>1 DEF HeldIsLast
<1>10. m + 1 \in DOMAIN k2.asks /\ k2.asks[m + 1].input = k2.echo.input
  BY <1>1, <1>3
<1> QED
  BY <1>4, <1>6, <1>8, <1>9, <1>10 DEF Order

\* What has nothing to do with the order
LEMMA SameOrder ==
  ASSUME NEW text, NEW k, NEW k2, Order(k, text),
         k2.from = k.from, k2.pos = k.pos, k2.got = k.got, k2.echo = k.echo, k2.asks = k.asks
  PROVE  Order(k2, text)
<1>1. Given(k2) = Given(k)
  BY DEF Given
<1>2. Missing(k2) = Missing(k)
  BY <1>1 DEF Missing
<1>3. GivenInOrder(k2) /\ HeldIsLast(k2, text) /\ EndsCounted(k2, text)
  BY <1>1, <1>2 DEF Order, GivenInOrder, HeldIsLast, EndsCounted, Ends
<1>4. \A a, b : AnswerIn(k, a, b, text) => AnswerIn(k2, a, b, text)
  BY <1>2 DEF AnswerIn
<1>5. \A n \in Missing(k2) : Excused(k2, n, text)
  BY <1>2, <1>4 DEF Order, Excused
<1> QED
  BY <1>3, <1>5 DEF Order

\* The SVS says more.
LEMMA MoreSaid ==
  ASSUME NEW text \in Seq(Byte), NEW bytes \in Seq(Byte), NEW k \in Kinds, Order(k, text), k.pos <= Len(text)
  PROVE  Order(k, text \o bytes)
<1> DEFINE more == text \o bytes
<1>1. more \in Seq(Byte) /\ Len(text) \in Nat /\ Len(text) <= Len(more) /\ \A i \in 1..Len(text) : more[i] = text[i]
  OBVIOUS
<1>2. k.from \in Nat /\ k.pos \in Nat
  BY DEF Kinds
<1> HIDE DEF more
<1>3. \A n \in (k.from + 1)..k.pos : more[n] = text[n]
  BY <1>1, <1>2
<1>4. Old(text) \subseteq Old(more)
  BY <1>1, TapSizes DEF Old
<1>5. GivenFacts(k)
  BY GivenSplit DEF Order
<1>6. Missing(k) \subseteq (k.from + 1)..k.pos
  BY DEF Missing
<1>7. HeldIsLast(k, more)
  <2>1. \A i \in DOMAIN k.echo.hold : k.echo.hold[i].at \in (k.from + 1)..k.pos
    BY <1>5 DEF GivenFacts
  <2> QED
    BY <1>3, <1>4, <2>1 DEF Order, HeldIsLast
<1>8. EndsCounted(k, more)
  <2>1. Ends(k, more) \subseteq Ends(k, text)
    BY <1>3, <1>4, <1>6 DEF Ends
  <2>2. Cardinality(Ends(k, more)) <= Cardinality(Ends(k, text))
    BY <2>1, EndsFinite, FS_Subset
  <2>3. /\ Cardinality(Ends(k, more)) \in Nat /\ Cardinality(Ends(k, text)) \in Nat
    BY EndsFinite
  <2>4. Len(k.asks) \in Nat
    BY DEF Kinds
  <2> QED
    BY <2>2, <2>3, <2>4 DEF Order, EndsCounted
<1>9. ASSUME NEW a \in (k.from + 1)..k.pos, NEW b \in (k.from + 1)..k.pos, AnswerIn(k, a, b, text)
      PROVE  AnswerIn(k, a, b, more)
  <2>1. \A i \in a..b : i \in (k.from + 1)..k.pos
    BY <1>2
  <2>2. \A i \in a..b - 1 : i \in a..b
    BY <1>2
  <2>3. a \in 1..Len(text) /\ b \in 1..Len(text) /\ a \in 1..Len(more) /\ b \in 1..Len(more)
    BY <1>1, <1>2
  <2>4. SubSeq(more, a, b) = SubSeq(text, a, b)
    BY <1>1, <2>3
  <2>5. /\ a <= b /\ a..b \subseteq Missing(k) /\ text[b] = Newline
        /\ \A i \in a..b - 1 : text[i] # Newline
        /\ \/ \E j \in DOMAIN k.asks : LineIsNumber(SubSeq(text, a, b), k.asks[j].input)
           \/ a - 1 \in Old(text) /\ \A i \in a..b : text[i] \in Digits \cup Blanks
    BY <1>9 DEF AnswerIn
  <2>6. \A i \in a..b - 1 : more[i] # Newline
    BY <1>3, <2>1, <2>2, <2>5
  <2> QED
    BY <1>3, <1>4, <2>1, <2>4, <2>5, <2>6 DEF AnswerIn
<1>10. \A n \in Missing(k) : Excused(k, n, more)
  BY <1>4, <1>9 DEF Order, Excused
<1> QED
  BY <1>7, <1>8, <1>10 DEF Order, more

\* The places of one byte more.
LEMMA AtsAppend ==
  ASSUME NEW items \in Seq(Items), NEW item \in Items
  PROVE  Ats(Append(items, item)) = Ats(items) \o <<item.at>>
<1> DEFINE n == Len(items)
           x == Ats(items)
           all == Append(items, item)
           y == Ats(all)
<1>1. /\ n \in Nat /\ DOMAIN items = 1..n /\ all \in Seq(Items) /\ Len(all) = n + 1
      /\ (\A i \in 1..n : all[i] = items[i]) /\ all[n + 1] = item
  OBVIOUS
<1>2. x \in Seq(Nat) /\ Len(x) = n /\ y \in Seq(Nat) /\ Len(y) = n + 1
  BY <1>1, AtsType
<1>3. \A i \in 1..n : x[i] = items[i].at
  BY <1>1 DEF Ats
<1>4. \A i \in 1..n + 1 : y[i] = all[i].at
  <2>1. DOMAIN all = 1..n + 1
    BY <1>1
  <2> QED
    BY <2>1 DEF Ats
<1>5. item.at \in Nat
  BY DEF Items
<1> HIDE DEF n, x, y, all
<1>6. \A i \in 1..n : y[i] = x[i]
  <2> TAKE i \in 1..n
  <2>1. i \in 1..n + 1
    BY <1>1
  <2> QED
    BY <1>1, <1>3, <1>4, <2>1
<1>7. y[n + 1] = item.at
  BY <1>1, <1>4
<1>8. y = x \o <<item.at>>
  BY <1>1, <1>2, <1>5, <1>6, <1>7
<1> QED
  BY <1>8 DEF x, y, all

\* Sequences that agree everywhere are the same.
LEMMA NatSeqs ==
  ASSUME NEW x \in Seq(Nat), NEW y \in Seq(Nat), Len(x) = Len(y), \A i \in 1..Len(x) : x[i] = y[i]
  PROVE  x = y
OBVIOUS

\* The places of two chunks.
LEMMA AtsJoin ==
  ASSUME NEW x \in Seq(Items), NEW y \in Seq(Items)
  PROVE  Ats(x \o y) = Ats(x) \o Ats(y)
<1> DEFINE n == Len(x)
           m == Len(y)
           all == x \o y
           u == Ats(x)
           v == Ats(y)
           w == Ats(all)
<1>1. /\ n \in Nat /\ m \in Nat /\ DOMAIN x = 1..n /\ DOMAIN y = 1..m
      /\ all \in Seq(Items) /\ Len(all) = n + m
      /\ (\A i \in 1..n : all[i] = x[i]) /\ (\A i \in 1..m : all[n + i] = y[i])
  OBVIOUS
<1>2. /\ u \in Seq(Nat) /\ Len(u) = n /\ v \in Seq(Nat) /\ Len(v) = m
      /\ w \in Seq(Nat) /\ Len(w) = n + m
  BY <1>1, AtsType
<1>3. (\A i \in 1..n : u[i] = x[i].at) /\ (\A i \in 1..m : v[i] = y[i].at)
  BY <1>1 DEF Ats
<1>4. \A i \in 1..n + m : w[i] = all[i].at
  <2>1. DOMAIN all = 1..n + m
    BY <1>1
  <2> QED
    BY <2>1 DEF Ats
<1> HIDE DEF n, m, all, u, v, w
<1>5. \A i \in 1..n : w[i] = u[i]
  <2> TAKE i \in 1..n
  <2>1. i \in 1..n + m
    BY <1>1
  <2> QED
    BY <1>1, <1>3, <1>4, <2>1
<1>6. \A i \in 1..m : w[n + i] = v[i]
  <2> TAKE i \in 1..m
  <2>1. n + i \in 1..n + m
    BY <1>1
  <2> QED
    BY <1>1, <1>3, <1>4, <2>1
<1>7. w = u \o v
  <2>1. u \o v \in Seq(Nat) /\ Len(u \o v) = n + m
    <3>1. u \in Seq(Nat) /\ v \in Seq(Nat)
      BY <1>2
    <3>2. u \o v \in Seq(Nat) /\ Len(u \o v) = Len(u) + Len(v)
      BY <3>1
    <3> QED
      BY <1>2, <3>2
  <2>2. ASSUME NEW i \in 1..n + m PROVE w[i] = (u \o v)[i]
    <3>1. CASE i <= n
      <4>1. i \in 1..n
        BY <1>1, <3>1
      <4> QED
        BY <1>1, <1>2, <1>5, <4>1
    <3>2. CASE ~(i <= n)
      <4> DEFINE j == i - n
      <4>1. j \in 1..m /\ n + j = i
        BY <1>1, <3>2
      <4>2. (u \o v)[n + j] = v[j]
        <5> HIDE DEF j
        <5>1. u \in Seq(Nat) /\ v \in Seq(Nat) /\ j \in 1..Len(v)
          BY <1>2, <4>1
        <5>2. (u \o v)[Len(u) + j] = v[j]
          BY <5>1
        <5> QED
          BY <1>2, <5>2
      <4> HIDE DEF j
      <4> QED
        BY <1>6, <4>1, <4>2
    <3> QED
      BY <3>1, <3>2
  <2> DEFINE t == u \o v
  <2> HIDE DEF t
  <2>3. w = t
    BY <1>2, <2>1, <2>2, NatSeqs DEF t
  <2> QED
    BY <2>3 DEF t
<1> QED
  BY <1>7 DEF u, v, w, all

IsAssoc(x, y, z) == (x \o y) \o z = x \o (y \o z)

\* Joining is associative.
LEMMA NatAssoc ==
  ASSUME NEW x \in Seq(Nat), NEW y \in Seq(Nat), NEW z \in Seq(Nat)
  PROVE  IsAssoc(x, y, z)
BY DEF IsAssoc

\* Items as the SVS said them
Real(items, text) == \A i \in DOMAIN items : items[i].b = text[items[i].at]

\* k read to place at, and the filter made f of it.
Fed(k, f, at) == [k EXCEPT !.pos = at, !.echo = f.e, !.got = @ \o Ats(f.out)]

\* What giving a client the output of the filter changes of it.
LEMMA FedType ==
  ASSUME NEW k \in Kinds, NEW f \in Filters, NEW at \in Nat
  PROVE  /\ Fed(k, f, at) \in Kinds
         /\ Fed(k, f, at).from = k.from /\ Fed(k, f, at).pos = at /\ Fed(k, f, at).asks = k.asks
         /\ Fed(k, f, at).echo = f.e /\ Fed(k, f, at).got = k.got \o Ats(f.out)
         /\ Given(Fed(k, f, at)) = (k.got \o Ats(f.out)) \o Ats(f.e.hold)
<1>1. f.e \in Echos /\ f.out \in Seq(Items) /\ Ats(f.out) \in Seq(Nat) /\ k.got \in Seq(Nat)
  BY AtsType DEF Filters, Kinds
<1>2. k.got \o Ats(f.out) \in Seq(Nat)
  BY <1>1
<1>3. /\ Fed(k, f, at) \in Kinds
      /\ Fed(k, f, at).from = k.from /\ Fed(k, f, at).pos = at /\ Fed(k, f, at).asks = k.asks
      /\ Fed(k, f, at).echo = f.e /\ Fed(k, f, at).got = k.got \o Ats(f.out)
  BY <1>1, <1>2 DEF Fed, Kinds
<1>4. Given(Fed(k, f, at)) = Fed(k, f, at).got \o Ats(Fed(k, f, at).echo.hold)
  BY <1>3, GivenType
<1> QED
  BY <1>3, <1>4

\* The filter takes the next item.
LEMMA FedStep ==
  ASSUME NEW text \in Seq(Byte), NEW k \in Kinds, NEW f \in Filters, NEW p \in Nat, NEW item \in Items,
         Order(Fed(k, f, p), text), Real(f.out, text), k.from <= p,
         p < item.at, item.at <= Len(text), item.at = p + 1 \/ item.at - 1 \in Old(text),
         item.b = text[item.at]
  PROVE  Order(Fed(k, FilterOne(f, item), item.at), text) /\ Real(FilterOne(f, item).out, text)
<1> DEFINE g == FilterOne(f, item)
           k1 == Fed(k, f, p)
           k2 == Fed(k, g, item.at)
           hold == Append(f.e.hold, item)
           got == k.got \o Ats(f.out)
<1>1. /\ f.e \in Echos /\ f.e.hold \in Seq(Items) /\ f.e.input \in Inputs /\ f.out \in Seq(Items)
      /\ (f.e.input = NoInput => f.e.hold = <<>>)
      /\ item.at \in Nat /\ k.got \in Seq(Nat) /\ g \in Filters
  BY FilterOneType DEF Filters, Echos, Items, Kinds
<1>2. /\ k1 \in Kinds /\ k1.from = k.from /\ k1.pos = p /\ k1.asks = k.asks /\ k1.echo = f.e /\ k1.got = got
      /\ Given(k1) = got \o Ats(f.e.hold)
  BY FedType
<1>3. /\ k2 \in Kinds /\ k2.from = k.from /\ k2.pos = item.at /\ k2.asks = k.asks /\ k2.echo = g.e
      /\ k2.got = k.got \o Ats(g.out)
      /\ Given(k2) = (k.got \o Ats(g.out)) \o Ats(g.e.hold)
  BY <1>1, FedType
<1>4. /\ Ats(f.out) \in Seq(Nat) /\ Ats(f.e.hold) \in Seq(Nat) /\ got \in Seq(Nat)
      /\ <<item.at>> \in Seq(Nat)
      /\ Ats(<<>>) = <<>> /\ hold \in Seq(Items)
  <2>1. Ats(<<>>) = <<>>
    BY DEF Ats
  <2>2. Ats(f.out) \in Seq(Nat) /\ Ats(f.e.hold) \in Seq(Nat)
    BY <1>1, AtsType
  <2> QED
    BY <1>1, <2>1, <2>2
<1>5. /\ Ats(hold) = Ats(f.e.hold) \o <<item.at>> /\ Ats(Append(f.out, item)) = Ats(f.out) \o <<item.at>>
      /\ Ats(f.out \o hold) = Ats(f.out) \o Ats(hold)
  BY <1>1, <1>4, AtsAppend, AtsJoin
<1>6. Real(f.e.hold, text)
  BY <1>2 DEF Order, HeldIsLast, Real
<1>7. Real(hold, text)
  <2>1. /\ DOMAIN hold = 1..Len(f.e.hold) + 1 /\ hold[Len(f.e.hold) + 1] = item
        /\ \A i \in 1..Len(f.e.hold) : hold[i] = f.e.hold[i]
        /\ DOMAIN f.e.hold = 1..Len(f.e.hold) /\ Len(f.e.hold) \in Nat
    BY <1>1
  <2> HIDE DEF hold
  <2>2. ASSUME NEW i \in 1..Len(f.e.hold) + 1 PROVE hold[i].b = text[hold[i].at]
    <3>1. CASE i = Len(f.e.hold) + 1
      <4>1. hold[i] = item
        BY <2>1, <3>1
      <4> QED
        BY <4>1
    <3>2. CASE i # Len(f.e.hold) + 1
      <4>1. i \in 1..Len(f.e.hold)
        BY <2>1, <3>2
      <4> QED
        BY <1>6, <2>1, <4>1 DEF Real
    <3> QED
      BY <3>1, <3>2
  <2> QED
    BY <2>1, <2>2 DEF Real
<1> HIDE DEF k1, k2, g
\* No number is awaited.
<1>8. CASE f.e.input = NoInput
  <2>1. g = [f EXCEPT !.out = Append(f.out, item)]
    BY <1>8 DEF g, FilterOne
  <2>2. g.e = f.e /\ g.out = Append(f.out, item) /\ f.e.hold = <<>>
    BY <1>1, <1>8, <2>1 DEF Filters
  <2>3. Given(k2) = Given(k1) \o <<item.at>>
    <3>1. Given(k2) = (k.got \o (Ats(f.out) \o <<item.at>>)) \o <<>>
      BY <1>3, <1>4, <1>5, <2>2
    <3>2. Given(k1) = got \o <<>>
      BY <1>2, <1>4, <2>2
    <3>3. k.got \o (Ats(f.out) \o <<item.at>>) = got \o <<item.at>>
      BY <1>1, <1>4, NatAssoc DEF IsAssoc
    <3>4. got \o <<>> = got /\ (got \o <<item.at>>) \o <<>> = got \o <<item.at>>
      BY <1>4
    <3> QED
      BY <3>1, <3>2, <3>3, <3>4
  <2>4. HeldIsLast(k2, text)
    BY <1>3, <2>2 DEF HeldIsLast
  <2>5. Order(k2, text)
    BY <1>1, <1>2, <1>3, <2>2, <2>3, <2>4, Passed DEF k1
  <2>6. Real(g.out, text)
    <3> DEFINE n == Len(f.out)
    <3>1. /\ DOMAIN Append(f.out, item) = 1..n + 1 /\ Append(f.out, item)[n + 1] = item
          /\ \A i \in 1..n : Append(f.out, item)[i] = f.out[i]
          /\ DOMAIN f.out = 1..n /\ n \in Nat
      BY <1>1
    <3> HIDE DEF n
    <3> QED
      BY <2>2, <3>1 DEF Real
  <2> QED
    BY <2>5, <2>6 DEF k2, g
\* The line is the number.
<1>9. CASE /\ f.e.input # NoInput /\ item.b = Newline /\ LineIsNumber(Bytes(hold), f.e.input)
  <2>1. g = [f EXCEPT !.e = NoEcho]
    BY <1>9 DEF g, FilterOne
  <2>2. g.e = NoEcho /\ g.out = f.out
    BY <1>1, <2>1 DEF Filters
  <2>3. k2.got = k1.got
    BY <1>2, <1>3, <2>2
  <2>4. Order(k2, text)
    BY <1>1, <1>2, <1>3, <1>9, <2>2, <2>3, Removed DEF k1
  <2> QED
    BY <2>2, <2>4 DEF k2, g
\* What was held goes on.
<1>10. CASE /\ f.e.input # NoInput
            /\ \/ item.b = Newline /\ ~LineIsNumber(Bytes(hold), f.e.input)
               \/ item.b # Newline /\ Len(hold) = HoldMax
  <2>1. g = [e |-> Expect(f.e.input), out |-> f.out \o hold] \/ g = [e |-> NoEcho, out |-> f.out \o hold]
    BY <1>10 DEF g, FilterOne
  <2>2. g.out = f.out \o hold /\ g.e.hold = <<>> /\ g.e.input \in {f.e.input, NoInput}
    <3> HIDE DEF hold
    <3> QED
      BY <2>1 DEF Expect, NoEcho
  <2>3. Given(k2) = Given(k1) \o <<item.at>>
    <3>1. Given(k2) = (k.got \o (Ats(f.out) \o (Ats(f.e.hold) \o <<item.at>>))) \o <<>>
      BY <1>3, <1>4, <1>5, <2>2
    <3> DEFINE x == Ats(f.out)
               y == Ats(f.e.hold)
               z == <<item.at>>
    <3>2. x \in Seq(Nat) /\ y \in Seq(Nat) /\ z \in Seq(Nat)
      BY <1>4
    <3>3. k.got \o (x \o (y \o z)) = ((k.got \o x) \o y) \o z
      <4> HIDE DEF x, y, z
      <4>1. y \o z \in Seq(Nat) /\ k.got \o x \in Seq(Nat)
        BY <1>1, <3>2
      <4>2. k.got \o (x \o (y \o z)) = (k.got \o x) \o (y \o z)
        BY <1>1, <3>2, <4>1, NatAssoc DEF IsAssoc
      <4>3. (k.got \o x) \o (y \o z) = ((k.got \o x) \o y) \o z
        BY <3>2, <4>1, NatAssoc DEF IsAssoc
      <4> QED
        BY <4>2, <4>3
    <3>4. Given(k1) \o z \in Seq(Nat) /\ (Given(k1) \o z) \o <<>> = Given(k1) \o z
      <4>1. Given(k1) \in Seq(Nat)
        BY <1>2, GivenType
      <4> HIDE DEF z
      <4>2. Given(k1) \o z \in Seq(Nat)
        BY <3>2, <4>1
      <4> QED
        BY <4>2
    <3> QED
      BY <1>2, <3>1, <3>3, <3>4
  <2>4. HeldIsLast(k2, text)
    BY <1>3, <2>2 DEF HeldIsLast
  <2>5. Order(k2, text)
    BY <1>1, <1>2, <1>3, <2>2, <2>3, <2>4, Passed DEF k1
  <2>6. Real(g.out, text)
    <3> DEFINE n == Len(f.out)
    <3>1. /\ DOMAIN f.out = 1..n /\ DOMAIN hold = 1..Len(hold) /\ n \in Nat /\ Len(hold) \in Nat
      BY <1>1, <1>4
    <3>2. /\ DOMAIN (f.out \o hold) = 1..n + Len(hold)
          /\ \A i \in 1..n : (f.out \o hold)[i] = f.out[i]
          /\ \A i \in 1..Len(hold) : (f.out \o hold)[n + i] = hold[i]
      <4> HIDE DEF hold
      <4> QED
        BY <1>1, <1>4
    <3> HIDE DEF n, hold
    <3>3. ASSUME NEW i \in 1..n + Len(hold) PROVE (f.out \o hold)[i].b = text[(f.out \o hold)[i].at]
      <4>1. CASE i <= n
        <5>1. i \in 1..n
          BY <3>1, <4>1
        <5> QED
          BY <3>1, <3>2, <5>1 DEF Real
      <4>2. CASE ~(i <= n)
        <5> DEFINE j == i - n
        <5>1. j \in 1..Len(hold) /\ n + j = i
          BY <3>1, <4>2
        <5> HIDE DEF j
        <5>2. hold[j].b = text[hold[j].at]
          BY <1>7, <3>1, <5>1 DEF Real
        <5>3. (f.out \o hold)[i] = hold[j]
          BY <3>2, <5>1
        <5> QED
          BY <5>2, <5>3
      <4> QED
        BY <4>1, <4>2
    <3> QED
      BY <2>2, <3>2, <3>3 DEF Real
  <2> QED
    BY <2>5, <2>6 DEF k2, g
\* The item is held.
<1>11. CASE f.e.input # NoInput /\ item.b # Newline /\ Len(hold) # HoldMax
  <2>1. g = [f EXCEPT !.e.hold = hold]
    BY <1>11 DEF g, FilterOne
  <2>2. g.e = [f.e EXCEPT !.hold = hold] /\ g.out = f.out
    BY <1>1, <2>1 DEF Filters
  <2>3. g.e.hold = hold /\ g.e.input = f.e.input
    BY <1>1, <2>2 DEF Echos
  <2>4. Given(k2) = Given(k1) \o <<item.at>>
    <3>1. Given(k2) = got \o (Ats(f.e.hold) \o <<item.at>>)
      BY <1>3, <1>5, <2>2, <2>3
    <3>2. got \o (Ats(f.e.hold) \o <<item.at>>) = (got \o Ats(f.e.hold)) \o <<item.at>>
      BY <1>4, NatAssoc DEF IsAssoc
    <3> QED
      BY <1>2, <3>1, <3>2
  <2>5. HeldIsLast(k2, text)
    <3> DEFINE m == Len(f.e.hold)
    <3>1. /\ m \in Nat /\ Len(hold) = m + 1 /\ DOMAIN hold = 1..m + 1 /\ DOMAIN f.e.hold = 1..m
          /\ hold[m + 1] = item /\ \A i \in 1..m : hold[i] = f.e.hold[i]
      BY <1>1
    <3>2. /\ \A i \in 1..m : f.e.hold[i].b # Newline
          /\ f.e.hold # <<>> => f.e.hold[m].at = p
          /\ \A i \in 1..m - 1 : \/ f.e.hold[i + 1].at = f.e.hold[i].at + 1
                                 \/ f.e.hold[i + 1].at - 1 \in Old(text)
      BY <1>2, <3>1 DEF Order, HeldIsLast, k1
    <3>3. m # 0 => f.e.hold # <<>>
      OBVIOUS
    <3> HIDE DEF m, hold
    <3>4. ASSUME NEW i \in 1..m + 1 PROVE hold[i].b = text[hold[i].at] /\ hold[i].b # Newline
      <4>1. hold[i].b = text[hold[i].at]
        BY <1>7, <3>1 DEF Real
      <4>2. CASE i = m + 1
        BY <1>11, <3>1, <4>1, <4>2
      <4>3. CASE i # m + 1
        <5>1. i \in 1..m
          BY <3>1, <4>3
        <5> QED
          BY <3>1, <3>2, <4>1, <5>1
      <4> QED
        BY <4>2, <4>3
    <3>5. ASSUME NEW i \in 1..m PROVE hold[i + 1].at = hold[i].at + 1 \/ hold[i + 1].at - 1 \in Old(text)
      <4>1. CASE i = m
        <5>1. f.e.hold[m].at = p /\ hold[m] = f.e.hold[m]
          BY <3>1, <3>2, <3>3, <4>1
        <5> QED
          BY <3>1, <4>1, <5>1
      <4>2. CASE i # m
        <5>1. i \in 1..m - 1 /\ i + 1 \in 1..m
          BY <3>1, <4>2
        <5> QED
          BY <3>1, <3>2, <5>1
      <4> QED
        BY <4>1, <4>2
    <3>6. Len(hold) - 1 = m /\ hold[Len(hold)].at = item.at
      BY <3>1
    <3> QED
      BY <1>3, <2>3, <3>1, <3>4, <3>5, <3>6 DEF HeldIsLast
  <2>6. Order(k2, text)
    BY <1>1, <1>2, <1>3, <2>3, <2>4, <2>5, Passed DEF k1
  <2> QED
    BY <2>2, <2>6 DEF k2, g
<1> QED
  BY <1>8, <1>9, <1>10, <1>11

\* Items are what the SVS said from place start + 1 on.
IsSaid(items, start, text) ==
  /\ start + Len(items) <= Len(text)
  /\ \A i \in 1..Len(items) : items[i].at = start + i /\ items[i].b = text[start + i]

\* The filter takes what was read, all of it new or the oldest there is.
LEMMA FilterOrder ==
  ASSUME NEW text \in Seq(Byte), NEW k \in Kinds, NEW items \in Seq(Items), NEW start \in Nat,
         Order(k, text), k.from <= k.pos, k.pos <= start, start = k.pos \/ start \in Old(text),
         Len(items) > 0, IsSaid(items, start, text)
  PROVE  /\ Order(Fed(k, EchoFilter(k.echo, items), start + Len(items)), text)
         /\ Real(EchoFilter(k.echo, items).out, text)
<1> DEFINE n == Len(items)
           At0(i) == IF i = 0 THEN k.pos ELSE start + i
<1>1. n \in Nat /\ n > 0 /\ k.echo \in Echos /\ k.from \in Nat /\ k.pos \in Nat /\ k.got \in Seq(Nat)
  BY DEF Kinds
<1>2. PICK f \in [0..n -> Filters] :
           /\ f[0] = [e |-> k.echo, out |-> <<>>]
           /\ \A i \in 1..n : f[i] = FilterOne(f[i - 1], items[i])
           /\ EchoFilter(k.echo, items) = f[n]
  BY <1>1, FilterRuns
<1> DEFINE Good(i) == Order(Fed(k, f[i], At0(i)), text) /\ Real(f[i].out, text)
           A == {i \in 0..n : Good(i)}
<1>3. 0 \in A
  <2>1. f[0] \in Filters /\ f[0].e = k.echo /\ f[0].out = <<>>
    BY <1>1, <1>2
  <2>2. Real(f[0].out, text)
    BY <2>1 DEF Real
  <2> DEFINE k2 == Fed(k, f[0], k.pos)
  <2>3. /\ k2.from = k.from /\ k2.pos = k.pos /\ k2.asks = k.asks /\ k2.echo = k.echo
        /\ k2.got = k.got \o Ats(<<>>)
    <3> DEFINE g == f[0]
    <3> HIDE DEF g
    <3>1. g \in Filters /\ g.e = k.echo /\ g.out = <<>>
      BY <2>1 DEF g
    <3>2. /\ Fed(k, g, k.pos).from = k.from /\ Fed(k, g, k.pos).pos = k.pos
          /\ Fed(k, g, k.pos).asks = k.asks /\ Fed(k, g, k.pos).echo = g.e
          /\ Fed(k, g, k.pos).got = k.got \o Ats(g.out)
      BY <1>1, <3>1, FedType
    <3> QED
      BY <3>1, <3>2 DEF g
  <2>4. Ats(<<>>) = <<>>
    BY DEF Ats
  <2>5. k.got \o <<>> = k.got
    BY <1>1
  <2> HIDE DEF k2
  <2>6. Order(k2, text)
    BY <2>3, <2>4, <2>5, SameOrder
  <2> QED
    BY <1>1, <2>2, <2>6 DEF k2
<1>4. ASSUME NEW i \in 1..n, i - 1 \in A PROVE i \in A
  <2>0. i - 1 \in 0..n /\ i \in 0..n
    BY <1>1
  <2>1. i \in 0..n /\ f[i - 1] \in Filters /\ f[i] = FilterOne(f[i - 1], items[i])
    BY <1>2, <2>0
  <2>2. items[i] \in Items /\ items[i].at = start + i /\ items[i].b = text[start + i]
    BY DEF IsSaid
  <2> DEFINE p == At0(i - 1)
  <2>3. p \in Nat /\ k.from <= p /\ p < start + i /\ start + i <= Len(text)
    <3>1. start + n <= Len(text)
      BY DEF IsSaid
    <3> QED
      BY <1>1, <3>1
  <2>4. start + i = p + 1 \/ (start + i) - 1 \in Old(text)
    <3>1. CASE i = 1
      BY <1>1, <3>1
    <3>2. CASE i # 1
      BY <1>1, <3>2
    <3> QED
      BY <3>1, <3>2
  <2>5. Order(Fed(k, f[i - 1], p), text) /\ Real(f[i - 1].out, text)
    BY <1>4
  <2>6. At0(i) = start + i
    BY <1>1
  <2> DEFINE item == items[i]
             g == f[i - 1]
  <2> HIDE DEF p, At0, item, g
  <2>7. /\ item \in Items /\ g \in Filters /\ p \in Nat /\ k.from <= p /\ p < item.at /\ item.at <= Len(text)
        /\ item.at = p + 1 \/ item.at - 1 \in Old(text)
        /\ item.b = text[item.at] /\ Order(Fed(k, g, p), text) /\ Real(g.out, text)
    BY <2>1, <2>2, <2>3, <2>4, <2>5 DEF item, g
  <2>8. Order(Fed(k, FilterOne(g, item), item.at), text) /\ Real(FilterOne(g, item).out, text)
    BY <2>7, FedStep
  <2> QED
    BY <2>1, <2>2, <2>6, <2>8 DEF item, g
<1>5. n \in A
  <2>1. \A i \in 0..n : i \in A
    <3> HIDE DEF A, n
    <3> QED
      BY <1>1, <1>3, <1>4, Upto
  <2> HIDE DEF A
  <2> QED
    BY <1>1, <2>1
<1>6. At0(n) = start + n
  BY <1>1
<1> QED
  BY <1>2, <1>5, <1>6

\* The bytes of items are what the SVS said at their places.
LEMMA RealBytes ==
  ASSUME NEW text, NEW items \in Seq(Items), Real(items, text)
  PROVE  Bytes(items) \in Seq(Byte) /\ Bytes(items) = [i \in DOMAIN Ats(items) |-> text[Ats(items)[i]]]
<1>1. \A i \in DOMAIN items : items[i] \in Items
  OBVIOUS
<1>2. DOMAIN items = 1..Len(items) /\ Len(items) \in Nat
  OBVIOUS
<1>3. Bytes(items) \in Seq(Byte)
  BY <1>1, <1>2 DEF Bytes, Items
<1>4. DOMAIN Ats(items) = DOMAIN items /\ \A i \in DOMAIN items : Ats(items)[i] = items[i].at
  BY DEF Ats
<1>5. Bytes(items) = [i \in DOMAIN Ats(items) |-> text[Ats(items)[i]]]
  BY <1>4 DEF Bytes, Real
<1> QED
  BY <1>3, <1>5

\* What a client types changes nothing about the order.
LEMMA TypedOrder ==
  ASSUME NEW text, NEW k \in Proper, NEW bytes \in Seq(Byte), Order(k, text)
  PROVE  /\ TypedAll(k, bytes) \in Proper /\ Order(TypedAll(k, bytes), text)
         /\ TypedAll(k, bytes) = [TypedAll(k, bytes) EXCEPT !.proto = k.proto, !.pos = k.pos,
              !.modem = k.modem, !.from = k.from, !.got = k.got, !.passed = k.passed, !.whole = k.whole]
<1> DEFINE n == Len(bytes)
           Same(u) == /\ u.proto = k.proto /\ u.pos = k.pos /\ u.modem = k.modem /\ u.from = k.from
                      /\ u.got = k.got /\ u.passed = k.passed /\ u.whole = k.whole
<1>1. n \in Nat
  OBVIOUS
<1>2. PICK f \in [0..n -> Proper] :
           /\ f[0] = k
           /\ \A i \in 1..n : f[i] = Typed(f[i - 1], bytes[i])
           /\ TypedAll(k, bytes) = f[n]
  BY TypedRuns
<1> DEFINE A == {i \in 0..n : Order(f[i], text) /\ Same(f[i])}
<1>3. 0 \in A
  BY <1>1, <1>2
<1>4. ASSUME NEW i \in 1..n, i - 1 \in A PROVE i \in A
  <2> DEFINE u == f[i - 1]
             v == f[i]
  <2>1. u \in Proper /\ v = Typed(u, bytes[i]) /\ bytes[i] \in Byte /\ i \in 0..n
    BY <1>1, <1>2
  <2>2. Order(u, text) /\ Same(u)
    BY <1>4
  <2> HIDE DEF u, v
  <2>3. u \in Kinds /\ v \in Proper /\ v \in Kinds
    BY <2>1, TypedType DEF Proper
  <2>4. CASE \E line \in Seq(Byte) : v = [u EXCEPT !.line = line]
    <3>1. /\ Same(v) /\ v.from = u.from /\ v.pos = u.pos /\ v.got = u.got /\ v.echo = u.echo
          /\ v.asks = u.asks
      BY <2>2, <2>3, <2>4 DEF Kinds
    <3> QED
      BY <2>1, <2>2, <3>1, SameOrder DEF v
  <2>5. CASE \E m \in Inputs : v = Asks(u, m)
    <3>1. PICK m \in Inputs : v = Asks(u, m)
      BY <2>5
    <3>2. /\ Same(v) /\ v.from = u.from /\ v.pos = u.pos /\ v.got = u.got /\ v.echo = Expect(m)
          /\ v.asks = Append(u.asks, [input |-> m, held |-> Held(u.echo)])
      BY <2>2, <2>3, <3>1 DEF Kinds, Asks
    <3>3. Order(v, text)
      BY <2>2, <2>3, <3>2, AskedOrder
    <3> QED
      BY <2>1, <3>2, <3>3 DEF v
  <2> QED
    BY <2>1, <2>4, <2>5, TypedEffect
<1>5. n \in A
  <2>1. \A i \in 0..n : i \in A
    <3> HIDE DEF A, n
    <3> QED
      BY <1>1, <1>3, <1>4, Upto
  <2> HIDE DEF A
  <2> QED
    BY <1>1, <2>1
<1> QED
  <2> DEFINE u == TypedAll(k, bytes)
  <2>1. u \in Proper /\ Order(u, text) /\ Same(u)
    BY <1>1, <1>2, <1>5
  <2> HIDE DEF u
  <2>2. u \in Kinds
    BY <2>1 DEF Proper
  <2>3. u = [u EXCEPT !.proto = k.proto, !.pos = k.pos,
              !.modem = k.modem, !.from = k.from, !.got = k.got, !.passed = k.passed, !.whole = k.whole]
    BY <2>1, <2>2 DEF Kinds
  <2> QED
    BY <2>1, <2>3 DEF u

-----------------------------------------------------------------------------
(* What a step leaves alone *)

Same(d) ==
  /\ net'[d] = net[d] /\ peer'[d] = peer[d] /\ Rest(d)' = Rest(d)
  /\ (d \in Open' <=> d \in Open) /\ (d \in Open => client'[d] = client[d])

\* A client that a step does not touch stays as it should be.
LEMMA StillFine ==
  ASSUME NEW d, Fine(d), Same(d), said' = said
  PROVE  Fine(d)'
BY DEF Fine, Same

\* One client has its turn and becomes k, its connection n, the program there p.
Turn(c, k, n, p) ==
  /\ client' = [client EXCEPT ![c] = k]
  /\ net' = [net EXCEPT ![c] = n]
  /\ peer' = [peer EXCEPT ![c] = p]

\* A step in which one client has its turn needs to be looked at for that
\* client only.
LEMMA TurnKept ==
  ASSUME Inv, World', said' = said, NEW c \in Open, NEW k, NEW n, NEW p, Turn(c, k, n, p),
         todo' \in Todos, todo' = Nothing \/ (todo'.conn \in Open /\ (todo'.raised \/ todo'.data # <<>>)),
         \A d \in Conns \ {c} : Rest(d)' = Rest(d),
         Served(k, n, p, Rest(c)', said)
  PROVE  Inv'
<1>1. /\ client = [d \in Open |-> client[d]] /\ Open \subseteq Conns /\ Cardinality(Open) <= MaxClients
      /\ net = [d \in Conns |-> net[d]] /\ peer = [d \in Conns |-> peer[d]]
  BY DEF Inv, Tables
<1>2. c \in Conns
  BY <1>1
<1>3. /\ Open' = Open /\ client' = [d \in Open' |-> client'[d]]
      /\ client'[c] = k /\ \A d \in Open \ {c} : client'[d] = client[d]
  <2>1. client' = [d \in Open |-> IF d = c THEN k ELSE client[d]]
    BY <1>1 DEF Turn
  <2>2. Open' = Open
    BY <2>1 DEF Open
  <2> QED
    BY <2>1, <2>2
<1>4. /\ net' = [d \in Conns |-> net'[d]] /\ net'[c] = n /\ \A d \in Conns \ {c} : net'[d] = net[d]
  BY <1>1, <1>2 DEF Turn
<1>5. /\ peer' = [d \in Conns |-> peer'[d]] /\ peer'[c] = p /\ \A d \in Conns \ {c} : peer'[d] = peer[d]
  BY <1>1, <1>2 DEF Turn
<1>6. Tables'
  BY <1>1, <1>3, <1>4, <1>5 DEF Tables, Doing, Conns
<1>7. Fine(c)'
  BY <1>3, <1>4, <1>5 DEF Fine
<1>8. ASSUME NEW d \in Conns, d # c PROVE Fine(d)'
  <2>1. Same(d)
    BY <1>3, <1>4, <1>5, <1>8 DEF Same
  <2>2. Fine(d)
    BY DEF Inv
  <2> QED
    BY <2>1, <2>2, StillFine
<1>9. \A d \in Conns' : Fine(d)'
  BY <1>7, <1>8 DEF Conns
<1> QED
  BY <1>6, <1>9 DEF Inv

\* Nothing is left to do, before and after.
LEMMA IdleRest ==
  ASSUME NEW d, Idle
  PROVE  Rest(d) = <<>> /\ (UNCHANGED todo => Rest(d)' = <<>>)
BY DEF Rest, Idle, Nothing

\* One client is dropped.
LEMMA AwayKept ==
  ASSUME Inv, World', said' = said, Idle, UNCHANGED todo, NEW c \in Open,
         Dropped(c), net' = Gone(c), NEW p \in Peers, peer' = [peer EXCEPT ![c] = p]
  PROVE  Inv'
<1>1. /\ client = [d \in Open |-> client[d]] /\ Open \subseteq Conns /\ Cardinality(Open) <= MaxClients
      /\ net = [d \in Conns |-> net[d]] /\ peer = [d \in Conns |-> peer[d]]
      /\ todo \in Todos /\ todo = Nothing
  BY DEF Inv, Tables, Idle
<1>2. c \in Conns
  BY <1>1
<1>3. Open' = Open \ {c} /\ client' = [d \in Open' |-> client'[d]] /\ \A d \in Open \ {c} : client'[d] = client[d]
  BY DEF Dropped, Open
<1>4. /\ net' = [d \in Conns |-> net'[d]] /\ net'[c] = [NewConn EXCEPT !.state = "closed"]
      /\ \A d \in Conns \ {c} : net'[d] = net[d]
  BY <1>1, <1>2 DEF Gone
<1>p. /\ peer' = [d \in Conns |-> peer'[d]] /\ peer'[c] = p
      /\ \A d \in Conns \ {c} : peer'[d] = peer[d]
  BY <1>1, <1>2
<1>5. IsFiniteSet(Open) /\ Cardinality(Open) \in Nat
  <2>0. MaxConns \in Nat
    BY ServerAssumption
  <2>1. IsFiniteSet(Conns)
    BY <2>0, FiniteRange DEF Conns
  <2> QED
    BY <1>1, <2>1, FS_Subset, FS_CardinalityType
<1>6. Cardinality(Open') <= MaxClients
  <2>1. Cardinality(Open') <= Cardinality(Open) /\ Cardinality(Open') \in Nat
    BY <1>3, <1>5, FS_Subset, FS_CardinalityType
  <2> QED
    BY <1>1, <1>5, <2>1, ServerAssumption
<1>7. Tables'
  BY <1>1, <1>3, <1>4, <1>p, <1>6 DEF Tables, Doing, Conns
<1>8. Fine(c)'
  <2>2. peer'[c] \in Peers
    BY <1>p
  <2>3. net'[c] \in Nets /\ net'[c].state = "closed"
    <3>1. <<>> \in Seq(Byte)
      OBVIOUS
    <3>2. net'[c] = [state |-> "closed", up |-> <<>>, down |-> <<>>]
      BY <1>4 DEF NewConn
    <3> QED
      BY <3>1, <3>2 DEF Nets
  <2> QED
    BY <1>3, <2>2, <2>3 DEF Fine, Unserved
<1>9. ASSUME NEW d \in Conns, d # c PROVE Fine(d)'
  <2>1. Rest(d)' = Rest(d)
    BY IdleRest
  <2>2. Same(d)
    BY <1>3, <1>4, <1>p, <1>9, <2>1 DEF Same
  <2>3. Fine(d)
    BY DEF Inv
  <2> QED
    BY <2>2, <2>3, StillFine
<1>10. \A d \in Conns' : Fine(d)'
  BY <1>8, <1>9 DEF Conns
<1> QED
  BY <1>7, <1>10 DEF Inv

\* Of one that has a slot
LEMMA ServedFacts ==
  ASSUME Inv, NEW c \in Open
  PROVE  /\ c \in Conns /\ Served(client[c], net[c], peer[c], Rest(c), said)
         /\ client = [client EXCEPT ![c] = client[c]]
         /\ net = [net EXCEPT ![c] = net[c]] /\ peer = [peer EXCEPT ![c] = peer[c]]
<1>1. /\ client = [d \in Open |-> client[d]] /\ Open \subseteq Conns
      /\ net = [d \in Conns |-> net[d]] /\ peer = [d \in Conns |-> peer[d]]
  BY DEF Inv, Tables
<1>2. c \in Conns /\ Fine(c)
  BY <1>1 DEF Inv
<1> QED
  BY <1>1, <1>2 DEF Fine

\* What is sent to one client
LEMMA SendKept ==
  ASSUME Inv, Idle, NEW c \in Open, NEW k, NEW bytes, Sends(c, k, bytes),
         UNCHANGED <<svsVars, modem, todo, rested, peer, events>>,
         Served(k, [net[c] EXCEPT !.down = @ \o bytes], peer[c], <<>>, said)
  PROVE  Inv'
<1>1. World' /\ said' = said
  BY DEF Inv, World, svsVars
<1>2. \A d : Rest(d) = <<>> /\ Rest(d)' = <<>>
  BY IdleRest
<1>3. todo' \in Todos /\ todo' = Nothing
  BY DEF Inv, Tables, Idle
<1>4. CASE client' = [client EXCEPT ![c] = k] /\ net' = [net EXCEPT ![c].down = @ \o bytes]
  <2>1. Turn(c, k, [net[c] EXCEPT !.down = @ \o bytes], peer[c])
    BY <1>4, ServedFacts DEF Turn
  <2> QED
    BY <1>1, <1>2, <1>3, <2>1, TurnKept
<1>5. CASE Dropped(c) /\ net' = Gone(c)
  <2>1. peer' = [peer EXCEPT ![c] = peer[c]] /\ peer[c] \in Peers
    BY ServedFacts DEF Served
  <2> QED
    BY <1>1, <1>5, <2>1, AwayKept
<1> QED
  BY <1>4, <1>5 DEF Sends

\* What a connection carries
LEMMA NetType ==
  ASSUME NEW n \in Nets, NEW x \in Seq(Byte)
  PROVE  /\ n.up \in Seq(Byte) /\ n.down \in Seq(Byte)
         /\ [n EXCEPT !.down = @ \o x] \in Nets /\ [n EXCEPT !.up = @ \o x] \in Nets
         /\ [n EXCEPT !.up = x] \in Nets
         /\ [n EXCEPT !.down = @ \o x].state = n.state /\ [n EXCEPT !.up = @ \o x].state = n.state
         /\ [n EXCEPT !.down = @ \o x].up = n.up /\ [n EXCEPT !.up = @ \o x].down = n.down
         /\ [n EXCEPT !.down = @ \o x].down = n.down \o x /\ [n EXCEPT !.up = @ \o x].up = n.up \o x
<1>1. n \in [state : {"new", "open", "left", "closed"}, up : Seq(Byte), down : Seq(Byte)]
  BY DEF Nets
<1>2. n.up \in Seq(Byte) /\ n.down \in Seq(Byte)
  BY <1>1
<1>3. n.up \o x \in Seq(Byte) /\ n.down \o x \in Seq(Byte)
  BY <1>2
<1> DEFINE u == n.up \o x
           d == n.down \o x
<1> HIDE DEF u, d
<1>4. /\ [n EXCEPT !.down = d] \in Nets /\ [n EXCEPT !.up = u] \in Nets /\ [n EXCEPT !.up = x] \in Nets
      /\ [n EXCEPT !.down = d].state = n.state /\ [n EXCEPT !.up = u].state = n.state
      /\ [n EXCEPT !.down = d].up = n.up /\ [n EXCEPT !.up = u].down = n.down
      /\ [n EXCEPT !.down = d].down = d /\ [n EXCEPT !.up = u].up = u
  BY <1>1, <1>3 DEF Nets, u, d
<1> QED
  BY <1>2, <1>4 DEF u, d

\* Joining is associative.
LEMMA ByteAssoc ==
  ASSUME NEW x \in Seq(Byte), NEW y \in Seq(Byte), NEW z \in Seq(Byte)
  PROVE  IsAssoc(x, y, z)
BY DEF IsAssoc

\* Where the members of two sequences are when they are joined.
LEMMA ByteJoin ==
  ASSUME NEW x \in Seq(Byte), NEW y \in Seq(Byte)
  PROVE  IsJoined(x \o y, x, y) /\ x \o y \in Seq(Byte)
BY DEF IsJoined

\* Text goes to a client: items, of which it is not given what it was not before.
LEMMA TextSent ==
  ASSUME NEW text, NEW k, NEW k2 \in Proper, NEW n, NEW p, NEW rest, NEW items \in Seq(Items),
         Served(k, n, p, rest, text), Real(items, text),
         k2.proto = k.proto, k2.passed = k.passed, k2.whole = k.whole,
         k2.got = k.got \o Ats(items), k2.from <= k2.pos, k2.pos <= Len(text), Order(k2, text)
  PROVE  Served(k2, [n EXCEPT !.down = @ \o Escape(Bytes(items))], p, rest, text)
<1> DEFINE b == Bytes(items)
           x == Escape(b)
           n2 == [n EXCEPT !.down = @ \o x]
           ats == Ats(items)
           T(g) == [i \in DOMAIN g |-> text[g[i]]]
<1>1. b \in Seq(Byte) /\ b = T(ats)
  BY RealBytes
<1>2. x \in Seq(Byte) /\ ReadsAs(x, b)
  <2> HIDE DEF b
  <2> QED
    BY <1>1, EscapeType, EscapeReads
<1>3. k \in Proper /\ n \in Nets /\ n.state \in {"open", "left"} /\ p \in Peers
      /\ UpFine(k, n, p, rest) /\ DownFine(k, n, p, text)
  BY DEF Served
<1> HIDE DEF x
<1>4. /\ n2 \in Nets /\ n2.state = n.state /\ n2.up = n.up /\ n2.down = n.down \o x
      /\ n.down \in Seq(Byte)
  BY <1>2, <1>3, NetType
<1> HIDE DEF n2
<1>5. UpFine(k2, n2, p, rest)
  BY <1>3, <1>4 DEF UpFine
<1>6. ASSUME k2.whole
      PROVE  /\ Telnet(n2.down).at = "data"
             /\ p.heard \o Telnet(n2.down).data = T(k2.got)
  <2>1. /\ Telnet(n.down).at = "data" /\ p.heard \o Telnet(n.down).data = T(k.got)
    BY <1>3, <1>6 DEF DownFine
  <2> DEFINE d == Telnet(n.down).data
  <2>2. d \in Seq(Byte) /\ p.heard \in Seq(Byte)
    BY <1>3, <1>4, AtData, ReadType DEF Telnet, Readers, Peers
  <2>3. ReadsAs(n.down \o x, d \o b)
    <3>1. ReadsAs(n.down, d)
      BY <2>1 DEF ReadsAs
    <3> HIDE DEF d, b
    <3> QED
      BY <1>1, <1>2, <1>4, <2>2, <3>1, ReadsJoin
  <2> HIDE DEF d, b, T
  <2>4. p.heard \o (d \o b) = T(k.got) \o T(ats)
    <3>1. p.heard \o (d \o b) = (p.heard \o d) \o b
      BY <1>1, <2>2, ByteAssoc DEF IsAssoc
    <3> QED
      BY <1>1, <2>1, <3>1 DEF d
  <2>5. T(k.got) \o T(ats) = T(k.got \o ats)
    <3>1. k.got \in Seq(Nat) /\ ats \in Seq(Nat)
      BY <1>3, AtsType DEF Proper, Kinds
    <3> HIDE DEF ats
    <3>2. k.got \o ats \in Seq(Nat) /\ IsJoined(k.got \o ats, k.got, ats)
      BY <3>1, NatJoin
    <3>3. T(k.got) \in Seq(Byte) /\ T(ats) \in Seq(Byte)
      <4>1. T(k.got) = p.heard \o d /\ T(ats) = b
        BY <1>1, <2>1 DEF d
      <4> QED
        BY <1>1, <2>2, <4>1
    <3>4. /\ Len(T(k.got)) = Len(k.got) /\ Len(T(ats)) = Len(ats)
          /\ \A i \in 1..Len(k.got) : T(k.got)[i] = text[k.got[i]]
          /\ \A i \in 1..Len(ats) : T(ats)[i] = text[ats[i]]
      BY <3>1, <3>3 DEF T
    <3> DEFINE all == k.got \o ats
    <3>5. DOMAIN T(all) = 1..Len(k.got) + Len(ats) /\ \A i \in DOMAIN T(all) : T(all)[i] = text[all[i]]
      BY <3>2 DEF T, IsJoined
    <3> DEFINE y == T(k.got) \o T(ats)
    <3>6. /\ DOMAIN y = 1..Len(k.got) + Len(ats)
          /\ \A i \in 1..Len(k.got) : y[i] = T(k.got)[i]
          /\ \A i \in 1..Len(ats) : y[Len(k.got) + i] = T(ats)[i]
      <4>1. IsJoined(y, T(k.got), T(ats))
        BY <3>3, ByteJoin
      <4> HIDE DEF y
      <4> QED
        BY <3>4, <4>1 DEF IsJoined
    <3> HIDE DEF all, y
    <3>7. ASSUME NEW i \in 1..Len(k.got) + Len(ats) PROVE y[i] = T(all)[i]
      <4>0. Len(k.got) \in Nat /\ Len(ats) \in Nat
        BY <3>1
      <4>1. CASE i <= Len(k.got)
        <5>1. i \in 1..Len(k.got)
          BY <4>0, <4>1
        <5>2. all[i] = k.got[i]
          BY <3>2, <5>1 DEF all, IsJoined
        <5>3. y[i] = text[k.got[i]]
          BY <3>4, <3>6, <5>1
        <5> QED
          BY <3>5, <5>2, <5>3
      <4>2. CASE ~(i <= Len(k.got))
        <5> DEFINE j == i - Len(k.got)
        <5>1. j \in 1..Len(ats) /\ Len(k.got) + j = i
          BY <4>0, <4>2
        <5> HIDE DEF j
        <5>2. all[i] = ats[j]
          BY <3>2, <5>1 DEF all, IsJoined
        <5>3. y[i] = text[ats[j]]
          BY <3>4, <3>6, <5>1
        <5> QED
          BY <3>5, <5>2, <5>3
      <4> QED
        BY <4>1, <4>2
    <3>8. y = T(all)
      <4>1. y = [i \in DOMAIN y |-> y[i]]
        BY <3>3 DEF y
      <4>2. T(all) = [i \in DOMAIN T(all) |-> T(all)[i]]
        BY DEF T
      <4> QED
        BY <3>5, <3>6, <3>7, <4>1, <4>2
    <3> QED
      BY <3>8 DEF y, all
  <2> QED
    BY <1>4, <2>3, <2>4, <2>5 DEF ReadsAs, ats
<1>7. DownFine(k2, n2, p, text)
  BY <1>6 DEF DownFine
<1> QED
  BY <1>3, <1>4, <1>5, <1>7 DEF Served, n2, x

-----------------------------------------------------------------------------
(* The steps *)

\* The server starts without clients.
LEMMA InitHolds == Init => Inv
<1> SUFFICES ASSUME Init PROVE Inv
  OBVIOUS
<1>1. Open = {} /\ client = [c \in Open |-> client[c]]
  BY DEF Init, Open
<1>2. Cardinality(Open) <= MaxClients
  BY <1>1, FS_EmptySet, ServerAssumption
<1>3. Nothing \in Todos
  <2>1. <<>> \in Seq(Byte)
    OBVIOUS
  <2> QED
    BY <2>1 DEF Nothing, Todos, NoConn
<1>4. Tables
  BY <1>1, <1>2, <1>3 DEF Tables, Doing, Init
<1>5. World
  <2>1. said \in Seq(Byte) /\ Len(said) = 0
    BY DEF Init
  <2>2. tap \in [Slots -> Items] /\ \A i \in Slots : tap[i].at <= Len(said)
    <3>1. [at |-> 0, b |-> 0] \in Items
      BY DEF Items, Byte
    <3> QED
      BY <2>1, <3>1 DEF Init, Slots
  <2>3. Rings(tap, said)
    BY <2>1 DEF Rings
  <2> QED
    BY <2>1, <2>2, <2>3 DEF World, Init, Modems
<1>6. \A c \in Conns : Fine(c)
  <2> TAKE c \in Conns
  <2>1. <<>> \in Seq(Byte)
    OBVIOUS
  <2>2. net[c] = NewConn /\ peer[c] = NewPeer
    BY DEF Init
  <2>3. NewConn \in Nets /\ NewConn.state = "new"
    BY <2>1 DEF NewConn, Nets
  <2>4. NewPeer \in Peers
    BY <2>1 DEF NewPeer, Peers
  <2> QED
    BY <1>1, <2>2, <2>3, <2>4 DEF Fine, Unserved
<1> QED
  BY <1>4, <1>5, <1>6 DEF Inv

\* What the SVS says goes behind what was said, so every place that a client
\* knows keeps its byte or is overwritten.
LEMMA SaysKept ==
  ASSUME Inv, NEW bytes \in plan.sayings, Says(bytes)
  PROVE  Inv'
<1>1. bytes \in Seq(Byte) /\ said \in Seq(Byte)
  BY ServerAssumption DEF Inv, World
<1>2. /\ said' = said \o bytes /\ tap' = TapAdd(tap, Len(said), bytes)
      /\ UNCHANGED <<plan, linked, busy, serverVars, net, peer>>
  BY DEF Says
<1>3. said' \in Seq(Byte) /\ Len(said) <= Len(said') /\ Len(said) \in Nat
  BY <1>1, <1>2
<1>4. World'
  <2>1. tap \in [Slots -> Items] /\ Rings(tap, said) /\ \A i \in Slots : tap[i].at <= Len(said)
    BY DEF Inv, World
  <2>2. tap' \in [Slots -> Items] /\ Rings(tap', said')
    BY <1>1, <1>2, <2>1, TapKept
  <2>3. \A i \in Slots : tap'[i].at <= Len(said')
    BY <1>1, <1>2, <2>1, TapBound
  <2> QED
    BY <1>2, <1>3, <2>2, <2>3 DEF Inv, World, serverVars, Slots
<1>5. Tables'
  BY <1>2 DEF Inv, Tables, Doing, serverVars, Open
<1>6. ASSUME NEW c \in Conns PROVE Fine(c)'
  <2>1. client' = client /\ net' = net /\ peer' = peer /\ todo' = todo
    BY <1>2 DEF serverVars
  <2>2. Fine(c)
    BY DEF Inv
  <2>3. CASE c \notin Open
    BY <2>1, <2>2, <2>3 DEF Fine, Open
  <2>4. CASE c \in Open
    <3> DEFINE k == client[c]
               n == net[c]
               p == peer[c]
               rest == Rest(c)
    <3>1. Served(k, n, p, rest, said)
      BY <2>2, <2>4 DEF Fine
    <3> HIDE DEF k, n, p, rest
    <3>2. k \in Kinds /\ k.pos <= Len(said) /\ k.pos \in Nat /\ Order(k, said)
      BY <3>1 DEF Served, Proper, Kinds
    <3>3. Order(k, said') /\ k.pos <= Len(said')
      BY <1>1, <1>2, <1>3, <3>2, MoreSaid
    <3>4. DownFine(k, n, p, said')
      <4>1. k.got \in Seq(Nat) /\ GivenFacts(k) /\ k.from \in Nat
        BY <3>2, GivenSplit DEF Order, Kinds
      <4>2. \A i \in DOMAIN k.got : k.got[i] \in 1..Len(said)
        <5>1. DOMAIN k.got = 1..Len(k.got)
          BY <4>1
        <5>2. \A i \in 1..Len(k.got) : k.got[i] \in (k.from + 1)..k.pos
          BY <4>1 DEF GivenFacts
        <5> QED
          BY <1>3, <3>2, <4>1, <5>1, <5>2
      <4>3. \A i \in 1..Len(said) : said'[i] = said[i]
        BY <1>1, <1>2
      <4>4. [i \in DOMAIN k.got |-> said'[k.got[i]]] = [i \in DOMAIN k.got |-> said[k.got[i]]]
        BY <4>2, <4>3
      <4>5. DownFine(k, n, p, said)
        BY <3>1 DEF Served
      <4> QED
        BY <4>4, <4>5 DEF DownFine
    <3>5. Served(k, n, p, rest, said')
      BY <3>1, <3>3, <3>4 DEF Served
    <3> QED
      BY <2>1, <2>4, <3>5 DEF Fine, k, n, p, rest, Open, Rest
  <2> QED
    BY <2>3, <2>4
<1> QED
  BY <1>4, <1>5, <1>6 DEF Inv, Conns

\* Steps that change nothing of a client
LEMMA SideKept ==
  ASSUME Inv, World', UNCHANGED <<said, client, net, peer>>, todo' \in Todos, Doing',
         \A c \in Conns : Rest(c)' = Rest(c)
  PROVE  Inv'
<1>1. Tables'
  BY DEF Inv, Tables, Open, Conns
<1>2. ASSUME NEW c \in Conns PROVE Fine(c)'
  <2>1. Same(c)
    BY DEF Same, Open
  <2>2. Fine(c)
    BY DEF Inv
  <2> QED
    BY <2>1, <2>2, StillFine
<1> QED
  BY <1>1, <1>2 DEF Inv, Conns

\* The link and the restarts touch no client.
LEMMA LineKept ==
  ASSUME Inv, Session \/ Replug \/ Look \/ Rests
  PROVE  Inv'
<1>1. /\ UNCHANGED <<plan, said, tap, client, todo, net, peer>>
      /\ linked' \in BOOLEAN /\ busy' \in BOOLEAN /\ rested' \in BOOLEAN /\ modem' \in Modems
  BY DEF Session, Replug, Look, Rests, svsVars, serverVars, Inv, World, Modems
<1>2. World'
  BY <1>1 DEF Inv, World
<1>3. todo' \in Todos /\ Doing' /\ \A c \in Conns : Rest(c)' = Rest(c)
  BY <1>1 DEF Inv, Tables, Doing, Rest, Open
<1> QED
  BY <1>1, <1>2, <1>3, SideKept

\* What is left to do with the rest of the bytes
LEMMA TodoType ==
  ASSUME NEW c \in Nat, NEW raised \in BOOLEAN, NEW data \in Seq(Byte)
  PROVE  /\ Todo(c, raised, data) \in Todos
         /\ Todo(c, raised, data).data = data
         /\ Todo(c, raised, data).conn \in {c, NoConn}
         /\ data # <<>> => Todo(c, raised, data).conn = c
         /\ \/ Todo(c, raised, data) = Nothing
            \/ /\ Todo(c, raised, data).conn = c
               /\ Todo(c, raised, data).raised \/ Todo(c, raised, data).data # <<>>
<1>1. <<>> \in Seq(Byte)
  OBVIOUS
<1> QED
  BY <1>1 DEF Todo, Todos, Nothing, NoConn

\* restart_for_dtr leaves the data to be sent.
LEMMA RestartKept ==
  ASSUME Inv, RestartForDtr
  PROVE  Inv'
<1>1. /\ todo \in Todos /\ todo # Nothing /\ todo.conn \in Open /\ Open \subseteq Conns
  BY DEF Inv, Tables, Doing, RestartForDtr, Nothing
<1>2. /\ todo.conn \in Nat /\ todo.data \in Seq(Byte) /\ todo.conn # NoConn
      /\ todo' = Todo(todo.conn, FALSE, todo.data)
  BY <1>1 DEF Todos, RestartForDtr, Conns, NoConn
<1>3. /\ todo' \in Todos /\ todo'.data = todo.data /\ todo'.conn \in {todo.conn, NoConn}
      /\ todo.data # <<>> => todo'.conn = todo.conn
      /\ todo' = Nothing \/ (todo'.conn = todo.conn /\ (todo'.raised \/ todo'.data # <<>>))
  BY <1>2, TodoType
<1>4. UNCHANGED <<svsVars, modem, client, net, peer>> /\ rested' \in BOOLEAN
  BY DEF RestartForDtr, Inv, World
<1>5. World'
  BY <1>4 DEF Inv, World, svsVars
<1>6. Doing'
  BY <1>1, <1>3, <1>4 DEF Doing, Open
<1>7. \A c \in Conns : Rest(c)' = Rest(c)
  BY <1>1, <1>2, <1>3 DEF Rest, Conns, NoConn
<1> QED
  BY <1>3, <1>4, <1>5, <1>6, <1>7, SideKept DEF svsVars

\* from_client passes what it takes from the rest, all of it, and notes the
\* inputs asked for.
LEMMA FromClientKept ==
  ASSUME Inv, FromClient
  PROVE  Inv'
<1> DEFINE c == todo.conn
           k == client[c]
           n == net[c]
           p == peer[c]
           data == todo.data
           sent == IF linked /\ ~busy THEN TypedAll(k, data) ELSE [k EXCEPT !.line = <<>>]
           k2 == [sent EXCEPT !.passed = @ \o data]
<1>1. /\ todo # Nothing /\ c \in Open /\ data \in Seq(Byte) /\ Open \subseteq Conns
      /\ client' = [client EXCEPT ![c] = k2] /\ todo' = Nothing
      /\ UNCHANGED <<svsVars, modem, rested, net, peer, events>>
  BY DEF Inv, Tables, Doing, Todos, FromClient, Nothing
<1>2. Served(k, n, p, data, said)
  <2>1. Rest(c) = data
    BY DEF Rest
  <2> QED
    BY <1>1, <2>1, ServedFacts
<1>3. k \in Proper /\ k \in Kinds /\ Order(k, said) /\ k.passed \in Seq(Byte)
  BY <1>2 DEF Served, Proper, Kinds
<1> HIDE DEF c, k, n, p, data
<1>4. /\ sent \in Proper /\ Order(sent, said)
      /\ sent.proto = k.proto /\ sent.passed = k.passed /\ sent.whole = k.whole /\ sent.got = k.got
      /\ sent.from = k.from /\ sent.pos = k.pos
  <2>1. CASE linked /\ ~busy
    <3> DEFINE u == TypedAll(k, data)
    <3>1. /\ u \in Proper /\ Order(u, said)
          /\ u = [u EXCEPT !.proto = k.proto, !.pos = k.pos,
              !.modem = k.modem, !.from = k.from, !.got = k.got, !.passed = k.passed, !.whole = k.whole]
      BY <1>1, <1>3, TypedOrder DEF data
    <3> HIDE DEF u
    <3>2. u \in Kinds
      BY <3>1 DEF Proper
    <3>3. /\ u.proto = k.proto /\ u.passed = k.passed /\ u.whole = k.whole /\ u.got = k.got
          /\ u.from = k.from /\ u.pos = k.pos
      BY <3>1, <3>2 DEF Kinds
    <3> QED
      BY <2>1, <3>1, <3>3 DEF u
  <2>2. CASE ~(linked /\ ~busy)
    <3> DEFINE u == [k EXCEPT !.line = <<>>]
    <3>0. <<>> \in Seq(Byte) /\ Len(<<>>) < LineMax
      BY TapSizes
    <3>1. u \in Proper
      BY <1>3, <3>0, LineType
    <3>2. /\ u.proto = k.proto /\ u.passed = k.passed /\ u.whole = k.whole /\ u.got = k.got
          /\ u.from = k.from /\ u.pos = k.pos /\ u.echo = k.echo /\ u.asks = k.asks
      BY <1>3 DEF Kinds
    <3> HIDE DEF u
    <3>3. Order(u, said)
      BY <1>3, <3>2, SameOrder
    <3> QED
      BY <2>2, <3>1, <3>2, <3>3 DEF u
  <2> QED
    BY <2>1, <2>2
<1> HIDE DEF sent
<1>5. sent \in Kinds
  BY <1>4 DEF Proper
<1>6. /\ k2 \in Proper /\ k2.passed = k.passed \o data
      /\ k2.proto = k.proto /\ k2.whole = k.whole /\ k2.got = k.got /\ k2.from = k.from /\ k2.pos = k.pos
      /\ k2.echo = sent.echo /\ k2.asks = sent.asks /\ k2.from = sent.from /\ k2.pos = sent.pos /\ k2.got = sent.got
  <2>1. k.passed \o data \in Seq(Byte)
    BY <1>1, <1>3
  <2> QED
    BY <1>4, <1>5, <2>1 DEF Proper, IsProper, Kinds
<1> HIDE DEF k2
<1>7. Order(k2, said)
  BY <1>4, <1>6, SameOrder
<1>8. Served(k2, n, p, <<>>, said)
  <2>1. UpFine(k2, n, p, <<>>)
    <3>1. UpFine(k, n, p, data)
      BY <1>2 DEF Served
    <3>2. k2.passed \o <<>> = k.passed \o data
      <4>1. k.passed \o data \in Seq(Byte)
        BY <1>1, <1>3
      <4> QED
        BY <1>6, <4>1
    <3> QED
      BY <1>6, <3>1, <3>2 DEF UpFine
  <2>2. DownFine(k2, n, p, said)
    BY <1>2, <1>6 DEF Served, DownFine
  <2> QED
    BY <1>2, <1>6, <1>7, <2>1, <2>2 DEF Served
<1>9. Turn(c, k2, n, p)
  BY <1>1, ServedFacts DEF Turn, n, p
<1>10. \A d : Rest(d)' = <<>>
  BY <1>1 DEF Rest, Nothing
<1>11. \A d \in Conns \ {c} : Rest(d) = <<>>
  BY DEF Rest, c
<1>12. World' /\ said' = said
  BY <1>1 DEF Inv, World, svsVars
<1>13. Nothing \in Todos
  <2>1. <<>> \in Seq(Byte)
    OBVIOUS
  <2> QED
    BY <2>1 DEF Nothing, Todos, NoConn
<1> QED
  BY <1>1, <1>8, <1>9, <1>10, <1>11, <1>12, <1>13, TurnKept

\* A modem state notification is a whole command.
LEMMA AnnounceKept ==
  ASSUME Inv, NEW c \in Open, Announce(c)
  PROVE  Inv'
<1> DEFINE k == client[c]
           n == net[c]
           p == peer[c]
           k2 == [k EXCEPT !.modem = modem]
           x == ModemState(modem)
           n2 == [n EXCEPT !.down = @ \o x]
<1>1. /\ Idle /\ Sends(c, k2, x) /\ UNCHANGED <<svsVars, modem, todo, rested, peer, events>>
      /\ modem \in Modems
  BY DEF Announce, Inv, World
<1>2. Served(k, n, p, <<>>, said)
  BY <1>1, ServedFacts, IdleRest
<1>3. k \in Kinds /\ n \in Nets /\ Order(k, said)
  BY <1>2 DEF Served, Proper
<1>4. x \in Seq(Byte) /\ ReadsAs(x, <<>>)
  BY <1>1, ModemReads
<1> HIDE DEF k, n, p, x
<1>5. /\ k2 \in Proper /\ k2.proto = k.proto /\ k2.passed = k.passed /\ k2.whole = k.whole /\ k2.got = k.got
      /\ k2.from = k.from /\ k2.pos = k.pos /\ k2.echo = k.echo /\ k2.asks = k.asks
  BY <1>1, <1>2, <1>3 DEF Served, Proper, IsProper, Kinds, Modems
<1>6. /\ n2 \in Nets /\ n2.state = n.state /\ n2.up = n.up /\ n2.down = n.down \o x /\ n.down \in Seq(Byte)
  BY <1>3, <1>4, NetType
<1> HIDE DEF k2, n2
<1>7. Order(k2, said)
  BY <1>3, <1>5, SameOrder
<1>8. DownFine(k2, n2, p, said)
  <2>1. Telnet(n.down).at = "data" => Telnet(n2.down).at = "data" /\ Telnet(n2.down).data = Telnet(n.down).data
    <3> SUFFICES ASSUME Telnet(n.down).at = "data"
                 PROVE  Telnet(n2.down).at = "data" /\ Telnet(n2.down).data = Telnet(n.down).data
      OBVIOUS
    <3> DEFINE d == Telnet(n.down).data
    <3>1. d \in Seq(Byte)
      BY <1>6, AtData, ReadType DEF Telnet, Readers
    <3>2. ReadsAs(n.down, d) /\ <<>> \in Seq(Byte)
      BY DEF ReadsAs
    <3> HIDE DEF d
    <3>3. ReadsAs(n.down \o x, d \o <<>>)
      BY <1>4, <1>6, <3>1, <3>2, ReadsJoin
    <3>4. d \o <<>> = d
      BY <3>1
    <3> QED
      BY <1>6, <3>3, <3>4 DEF ReadsAs, d
  <2>2. DownFine(k, n, p, said)
    BY <1>2 DEF Served
  <2> QED
    BY <1>5, <2>1, <2>2 DEF DownFine
<1>9. Served(k2, n2, p, <<>>, said)
  BY <1>2, <1>5, <1>6, <1>7, <1>8 DEF Served, UpFine
<1> QED
  BY <1>1, <1>9, SendKept DEF n2, n, p, k2, k

\* rfc2217_echo_release gives what is held in the order in which it was held.
LEMMA ReleaseKept ==
  ASSUME Inv, NEW c \in Open, Release(c)
  PROVE  Inv'
<1> DEFINE k == client[c]
           n == net[c]
           p == peer[c]
           hold == k.echo.hold
           k2 == [k EXCEPT !.echo = NoEcho, !.late = @ /\ NoEcho.input # NoInput,
                           !.got = @ \o Ats(hold)]
           x == Escape(Bytes(hold))
<1>1. /\ Idle /\ Sends(c, k2, x) /\ UNCHANGED <<svsVars, modem, todo, rested, peer, events>>
  BY DEF Release, SendsText, Ats
<1>2. Served(k, n, p, <<>>, said)
  BY <1>1, ServedFacts, IdleRest
<1> HIDE DEF k, n, p
<1>3. k \in Kinds /\ Order(k, said) /\ hold \in Seq(Items) /\ k.got \in Seq(Nat) /\ k.late \in BOOLEAN
  BY <1>2 DEF Served, Proper, Kinds, Echos
<1>4. k.got \o Ats(hold) \in Seq(Nat)
  BY <1>3, AtsType
<1>5. /\ k2 \in Kinds /\ k2.line = k.line /\ k2.proto = k.proto /\ k2.passed = k.passed /\ k2.whole = k.whole
      /\ k2.got = k.got \o Ats(hold)
      /\ k2.from = k.from /\ k2.pos = k.pos /\ k2.echo = NoEcho /\ k2.asks = k.asks /\ ~k2.late
  <2> DEFINE got == k.got \o Ats(hold)
             late == k.late /\ NoEcho.input # NoInput
             k3 == [k EXCEPT !.echo = NoEcho, !.late = late, !.got = got]
  <2>1. got \in Seq(Nat) /\ late = FALSE /\ NoEcho \in Echos
    BY <1>4, NoEchoType DEF NoEcho
  <2>2. k2 = k3
    OBVIOUS
  <2> HIDE DEF got, late
  <2> QED
    BY <1>3, <2>1, <2>2 DEF Kinds, got
<1>6. k2 \in Proper
  BY <1>2, <1>5 DEF Served, Proper, IsProper
<1> HIDE DEF k2
<1>7. Order(k2, said)
  BY <1>3, <1>5, Released
<1>8. Real(hold, said)
  BY <1>3 DEF Order, HeldIsLast, Real
<1> HIDE DEF hold
<1>9. Served(k2, [n EXCEPT !.down = @ \o x], p, <<>>, said)
  BY <1>2, <1>3, <1>5, <1>6, <1>7, <1>8, TextSent DEF Served
<1> QED
  BY <1>1, <1>9, SendKept DEF n, p, k2, k

\* What is read from the ring is what the SVS said, the oldest there is first.
LEMMA TappedSaid ==
  ASSUME World, NEW pos \in Nat, pos < Len(said)
  PROVE  /\ Since(pos) \in Nat /\ pos <= Since(pos) /\ (Since(pos) = pos \/ Since(pos) \in Old(said))
         /\ Tapped(pos) \in Seq(Items) /\ Len(Tapped(pos)) > 0
         /\ Until(pos) = Since(pos) + Len(Tapped(pos)) /\ Until(pos) <= Len(said) /\ Until(pos) \in Nat
         /\ IsSaid(Tapped(pos), Since(pos), said)
<1> DEFINE s == Since(pos)
           u == Until(pos)
           m == u - s
           L == Len(said)
<1>1. L \in Nat /\ tap \in [Slots -> Items] /\ Rings(tap, said) /\ said \in Seq(Byte)
  BY DEF World
<1>2. TapSize \in Nat \ {0} /\ RawMax \in Nat \ {0}
  BY TapSizes
<1>3. s \in Nat /\ pos <= s /\ L - s <= TapSize /\ s < L /\ (s = pos \/ s = L - TapSize)
  BY <1>1, <1>2 DEF Since
<1>4. s = pos \/ s \in Old(said)
  BY <1>1, <1>2, <1>3 DEF Old
<1>5. u \in Nat /\ s < u /\ u <= L /\ m \in Nat /\ m > 0 /\ u = s + m
  BY <1>1, <1>2, <1>3 DEF Until
<1> DEFINE t == Tapped(pos)
<1>6. t = [i \in 1..m |-> tap[(s + i - 1) % TapSize]]
  BY DEF Tapped
<1> HIDE DEF s, u, m, L, t
<1>7. ASSUME NEW i \in 1..m PROVE tap[(s + i - 1) % TapSize] = [at |-> s + i, b |-> said[s + i]]
  <2>1. s + i \in 1..L /\ L - (s + i) < TapSize
    BY <1>1, <1>2, <1>3, <1>5
  <2>2. \A p \in 1..L : L - p < TapSize => tap[(p - 1) % TapSize] = [at |-> p, b |-> said[p]]
    BY <1>1 DEF Rings, L
  <2> DEFINE p == s + i
  <2>3. p - 1 = s + i - 1
    BY <1>3
  <2> HIDE DEF p
  <2>4. tap[(p - 1) % TapSize] = [at |-> p, b |-> said[p]]
    BY <2>1, <2>2 DEF p
  <2>5. tap[(s + i - 1) % TapSize] = [at |-> p, b |-> said[p]]
    BY <2>3, <2>4
  <2> QED
    BY <2>5 DEF p
<1>8. \A i \in 1..m : t[i] = [at |-> s + i, b |-> said[s + i]]
  BY <1>6, <1>7
<1>9. \A i \in 1..m : t[i] \in Items /\ t[i].at = s + i /\ t[i].b = said[s + i]
  <2> TAKE i \in 1..m
  <2>1. s + i \in 1..L
    BY <1>1, <1>3, <1>5
  <2>2. said[s + i] \in Byte /\ s + i \in Nat
    BY <1>1, <1>3, <2>1 DEF L
  <2>3. t[i] = [at |-> s + i, b |-> said[s + i]]
    BY <1>8
  <2>4. t[i].at = s + i /\ t[i].b = said[s + i]
    BY <2>3
  <2>5. t[i] \in Items
    BY <2>2, <2>3 DEF Items
  <2> QED
    BY <2>4, <2>5
<1>10. t \in Seq(Items) /\ Len(t) = m
  <2>1. t \in [1..m -> Items]
    BY <1>6, <1>9
  <2> QED
    BY <1>5, <2>1
<1> QED
  BY <1>3, <1>4, <1>5, <1>9, <1>10 DEF IsSaid, s, u, m, L, t

\* A turn of draining the tap gives what the filter lets through, escaped.
LEMMA DrainKept ==
  ASSUME Inv, NEW c \in Open, Drain(c)
  PROVE  Inv'
<1> DEFINE k == client[c]
           n == net[c]
           p == peer[c]
           items == Tapped(k.pos)
           f == EchoFilter(k.echo, items)
           u == Until(k.pos)
           k2 == [[k EXCEPT !.pos = Until(@)] EXCEPT !.echo = f.e, !.late = @ /\ f.e.input # NoInput,
                           !.got = @ \o Ats(f.out)]
           x == Escape(Bytes(f.out))
<1>1. /\ Idle /\ k.pos # Len(said)
      /\ Sends(c, k2, x) /\ UNCHANGED <<svsVars, modem, todo, rested, peer, events>>
  BY DEF Drain, SendsText, Ats
<1>2. Served(k, n, p, <<>>, said)
  BY <1>1, ServedFacts, IdleRest
<1> HIDE DEF k, n, p
<1>3. /\ k \in Kinds /\ Order(k, said) /\ k.pos \in Nat /\ k.pos < Len(said) /\ k.echo \in Echos
      /\ k.from <= k.pos /\ k.from \in Nat /\ k.late \in BOOLEAN /\ k.got \in Seq(Nat)
  <2>1. said \in Seq(Byte) /\ Len(said) \in Nat
    BY DEF Inv, World
  <2> QED
    BY <1>1, <1>2, <2>1 DEF Served, Proper, Kinds
<1>4. World
  BY DEF Inv
<1>5. /\ Since(k.pos) \in Nat /\ k.pos <= Since(k.pos) /\ (Since(k.pos) = k.pos \/ Since(k.pos) \in Old(said))
      /\ items \in Seq(Items) /\ Len(items) > 0
      /\ u = Since(k.pos) + Len(items) /\ u <= Len(said) /\ u \in Nat
      /\ IsSaid(items, Since(k.pos), said)
  BY <1>3, <1>4, TappedSaid
<1> HIDE DEF items, u
<1>6. f \in Filters
  BY <1>3, <1>5, FilterType
<1>7. Order(Fed(k, f, u), said) /\ Real(f.out, said)
  <2>1. said \in Seq(Byte)
    BY <1>4 DEF World
  <2> QED
    BY <1>3, <1>5, <2>1, FilterOrder
<1> HIDE DEF f
<1>8. f.e \in Echos /\ f.out \in Seq(Items) /\ k.got \o Ats(f.out) \in Seq(Nat)
  <2>1. f.e \in Echos /\ f.out \in Seq(Items)
    BY <1>6 DEF Filters
  <2>2. Ats(f.out) \in Seq(Nat)
    BY <2>1, AtsType
  <2> QED
    BY <1>3, <2>1, <2>2
<1>9. /\ k2 \in Kinds /\ k2.line = k.line /\ k2.proto = k.proto /\ k2.passed = k.passed /\ k2.whole = k.whole
      /\ k2.got = k.got \o Ats(f.out)
      /\ k2.from = k.from /\ k2.pos = u /\ k2.echo = f.e /\ k2.asks = k.asks
      /\ (f.e.input = NoInput => ~k2.late)
  <2> DEFINE got == k.got \o Ats(f.out)
             late == k.late /\ f.e.input # NoInput
             k3 == [k EXCEPT !.pos = u, !.echo = f.e, !.late = late, !.got = got]
  <2>1. got \in Seq(Nat) /\ late \in BOOLEAN /\ (f.e.input = NoInput => ~late)
    BY <1>8
  <2>2. k2 = k3
    BY <1>3 DEF Kinds, u
  <2> HIDE DEF got, late
  <2> QED
    BY <1>3, <1>5, <1>8, <2>1, <2>2 DEF Kinds, got
<1>10. k2 \in Proper
  BY <1>2, <1>9 DEF Served, Proper, IsProper
<1> HIDE DEF k2
<1>11. Order(k2, said)
  <2> DEFINE k1 == Fed(k, f, u)
  <2>1. k1.from = k.from /\ k1.pos = u /\ k1.asks = k.asks /\ k1.echo = f.e /\ k1.got = k.got \o Ats(f.out)
    BY <1>3, <1>5, <1>6, FedType
  <2> HIDE DEF k1
  <2> QED
    BY <1>7, <1>9, <2>1, SameOrder DEF k1
<1>12. k2.from <= k2.pos /\ k2.pos <= Len(said)
  BY <1>3, <1>5, <1>9
<1>13. Served(k2, [n EXCEPT !.down = @ \o x], p, <<>>, said)
  BY <1>2, <1>7, <1>8, <1>9, <1>10, <1>11, <1>12, TextSent
<1> QED
  BY <1>1, <1>13, SendKept DEF n, p, k2, k, f, items

\* A client whose send would block is left as it is, or dropped.
LEMMA EchoWaitsKept ==
  ASSUME Inv, NEW c \in Open, EchoWaits(c)
  PROVE  Inv'
<1> DEFINE k == client[c]
           n == net[c]
           p == peer[c]
           k2 == [k EXCEPT !.late = TRUE]
<1>1. /\ k.echo.input # NoInput /\ client' = [client EXCEPT ![c] = k2]
      /\ UNCHANGED <<svsVars, modem, todo, rested, net, peer, events>>
  BY DEF EchoWaits
<1>2. Served(k, n, p, Rest(c), said)
  BY ServedFacts
<1> HIDE DEF k, n, p
<1>3. k \in Kinds /\ Order(k, said)
  BY <1>2 DEF Served, Proper
<1>4. /\ k2 \in Proper /\ k2.proto = k.proto /\ k2.passed = k.passed /\ k2.whole = k.whole /\ k2.got = k.got
      /\ k2.from = k.from /\ k2.pos = k.pos /\ k2.echo = k.echo /\ k2.asks = k.asks
  BY <1>1, <1>2, <1>3 DEF Served, Proper, IsProper, Kinds
<1> HIDE DEF k2
<1>5. Order(k2, said)
  BY <1>3, <1>4, SameOrder
<1>6. Served(k2, n, p, Rest(c), said)
  BY <1>2, <1>4, <1>5 DEF Served, UpFine, DownFine
<1>7. Turn(c, k2, n, p)
  BY <1>1, ServedFacts DEF Turn, n, p
<1>8. World' /\ said' = said
  BY <1>1 DEF Inv, World, svsVars
<1>9. /\ todo' \in Todos
      /\ todo' = Nothing \/ (todo'.conn \in Open /\ (todo'.raised \/ todo'.data # <<>>))
      /\ \A d : Rest(d)' = Rest(d)
  BY <1>1 DEF Inv, Tables, Doing, Rest
<1>10. Served(k2, n, p, Rest(c)', said)
  BY <1>6, <1>9
<1> QED
  BY <1>7, <1>8, <1>9, <1>10, TurnKept

\* A client that is gone is dropped.
LEMMA ReceiveEndKept ==
  ASSUME Inv, NEW c \in Open, ReceiveEnd(c)
  PROVE  Inv'
<1>1. /\ Idle /\ Dropped(c) /\ net' = Gone(c) /\ UNCHANGED <<svsVars, modem, todo, rested, peer, events>>
  BY DEF ReceiveEnd
<1>2. World' /\ said' = said
  BY <1>1 DEF Inv, World, svsVars
<1>3. peer' = [peer EXCEPT ![c] = peer[c]] /\ peer[c] \in Peers
  BY <1>1, ServedFacts DEF Served
<1> QED
  BY <1>1, <1>2, <1>3, AwayKept

\* What is under way to the server: it reads on, or more is sent.
LEMMA UpRead ==
  ASSUME NEW k \in Kinds, NEW n \in Nets
  PROVE  /\ At(Start(k.proto.st)) \in Readers
         /\ Read(At(Start(k.proto.st)), n.up) \in Readers
<1>1. k.proto.st \in States /\ n.up \in Seq(Byte)
  BY DEF Kinds, Protos, Nets
<1> QED
  BY <1>1, StartType, AtType, ReadType

\* What the program types goes behind what is under way.
LEMMA UpMore ==
  ASSUME NEW k \in Kinds, NEW n \in Nets, NEW p, NEW q, NEW rest, UpFine(k, n, p, rest), p \in Peers,
         rest \in Seq(Byte), NEW bytes \in Seq(Byte), NEW text \in Seq(Byte), ReadsAs(bytes, text),
         q.text = p.text \o text
  PROVE  UpFine(k, [n EXCEPT !.up = @ \o bytes], q, rest)
<1> DEFINE a == At(Start(k.proto.st))
           t == Read(a, n.up)
           x == n.up \o bytes
           y == Read(a, x)
           before == k.passed \o rest
<1>1. a \in Readers /\ t \in Readers /\ n.up \in Seq(Byte) /\ k.passed \in Seq(Byte)
  BY UpRead DEF Nets, Kinds
<1>2. t.at = "data" /\ before \o t.data = p.text
  BY DEF UpFine
<1>3. before \in Seq(Byte) /\ t.data \in Seq(Byte)
  BY <1>1 DEF Readers
<1> HIDE DEF a
<1>4. y = Read(t, bytes)
  BY <1>1, ReadTwice
<1> HIDE DEF t, y
<1>5. y.at = "data" /\ y.data = t.data \o text
  BY <1>1, <1>2, <1>4, ReadsOn DEF ReadsAs
<1> HIDE DEF before
<1>6. before \o y.data = q.text
  <2>1. before \o (t.data \o text) = (before \o t.data) \o text
    BY <1>3, ByteAssoc DEF IsAssoc
  <2> QED
    BY <1>2, <1>5, <2>1
<1>7. [n EXCEPT !.up = @ \o bytes].up = x
  BY NetType
<1> HIDE DEF x
<1> QED
  BY <1>5, <1>6, <1>7 DEF UpFine, before, y, a

\* What the server reads it passes on.
LEMMA UpTaken ==
  ASSUME NEW k \in Kinds, NEW n \in Nets, NEW p, UpFine(k, n, p, <<>>), NEW m \in 1..Len(n.up), NEW modems \in Byte,
         NEW k2 \in Kinds, k2.proto = Input(k.proto, SubSeq(n.up, 1, m), modems).s, k2.passed = k.passed,
         NEW n2 \in Nets, n2.up = SubSeq(n.up, m + 1, Len(n.up)), NEW q, q.text = p.text
  PROVE  UpFine(k2, n2, q, Input(k.proto, SubSeq(n.up, 1, m), modems).io.data)
<1> DEFINE a == At(Start(k.proto.st))
           x == SubSeq(n.up, 1, m)
           y == SubSeq(n.up, m + 1, Len(n.up))
           r == Input(k.proto, x, modems)
           u == Read(a, x)
           a2 == At(u.at)
           t == Read(u, y)
           t2 == Read(a2, y)
           data == r.io.data
<1>1. a \in Readers /\ n.up \in Seq(Byte) /\ k.passed \in Seq(Byte) /\ k.proto \in Protos
  BY UpRead DEF Nets, Kinds
<1>2. x \in Seq(Byte) /\ y \in Seq(Byte) /\ n.up = x \o y
  <2>1. m \in Nat /\ m <= Len(n.up) /\ Len(n.up) \in Nat
    BY <1>1
  <2>2. x \in Seq(Byte) /\ y \in Seq(Byte) /\ Len(x) = m /\ Len(y) = Len(n.up) - m
    BY <1>1, <2>1
  <2> DEFINE z == x \o y
  <2>3. z \in Seq(Byte) /\ Len(z) = Len(n.up)
    BY <2>1, <2>2
  <2>4. \A i \in 1..Len(n.up) : z[i] = n.up[i]
    BY <1>1, <2>1, <2>2
  <2> HIDE DEF z
  <2>5. z = n.up
    BY <1>1, <2>3, <2>4, ByteSeqs
  <2> QED
    BY <2>2, <2>5 DEF z
<1> HIDE DEF x, y
<1>3. u \in Readers /\ Match(r, u) /\ r \in Results
  BY <1>1, <1>2, ReadType, InputReads, InputType
<1> HIDE DEF r
<1>4. Read(a, n.up) = t
  BY <1>1, <1>2, ReadTwice
<1> HIDE DEF a
<1>5. t.at = "data" /\ (k.passed \o <<>>) \o t.data = p.text
  BY <1>4 DEF UpFine, a
<1> HIDE DEF u
<1>6. Ahead(t, t2, u.data)
  BY <1>2, <1>3, ReadData
<1>7. u.at = Start(r.s.st) /\ u.data = data /\ data \in Seq(Byte)
  BY <1>3 DEF Match, Results, IOs
<1>8. t2 \in Readers
  BY <1>2, <1>3, AtType, ReadType DEF Readers
<1> HIDE DEF t, t2, data
<1>9. t2.at = "data" /\ t.data = data \o t2.data /\ t2.data \in Seq(Byte)
  BY <1>5, <1>6, <1>7, <1>8 DEF Ahead, Readers
<1>10. (k.passed \o data) \o t2.data = p.text
  <2>1. k.passed \o <<>> = k.passed
    BY <1>1
  <2>2. (k.passed \o data) \o t2.data = k.passed \o (data \o t2.data)
    BY <1>1, <1>7, <1>9, ByteAssoc DEF IsAssoc
  <2> QED
    BY <1>5, <1>9, <2>1, <2>2
<1>11. Read(At(Start(k2.proto.st)), n2.up) = t2
  BY <1>7 DEF t2, r, x, y
<1> QED
  BY <1>9, <1>10, <1>11 DEF UpFine, data, r, x

\* An answer that is sent leaves the client as it was, as long as it is whole.
LEMMA DownMore ==
  ASSUME NEW k, NEW k2, NEW n \in Nets, NEW p, NEW q, NEW text, DownFine(k, n, p, text), q.heard = p.heard,
         k2.got = k.got, NEW bytes \in Seq(Byte), k2.whole => k.whole /\ IsWhole(bytes),
         NEW n2, n2.down = n.down \o bytes
  PROVE  DownFine(k2, n2, q, text)
<1> SUFFICES ASSUME k2.whole
             PROVE  /\ Telnet(n2.down).at = "data"
                    /\ q.heard \o Telnet(n2.down).data = [i \in DOMAIN k2.got |-> text[k2.got[i]]]
  BY DEF DownFine
<1> DEFINE d == Telnet(n.down).data
<1>1. n.down \in Seq(Byte) /\ Telnet(n.down) \in Readers
  BY AtData, ReadType DEF Nets, Telnet
<1>2. d \in Seq(Byte) /\ <<>> \in Seq(Byte)
  BY <1>1 DEF Readers
<1>3. ReadsAs(n.down, d) /\ ReadsAs(bytes, <<>>)
  BY DEF DownFine, ReadsAs, IsWhole
<1>4. ReadsAs(n.down \o bytes, d \o <<>>)
  <2> HIDE DEF d
  <2> QED
    BY <1>1, <1>2, <1>3, ReadsJoin
<1>5. d \o <<>> = d
  BY <1>2
<1>6. p.heard \o d = [i \in DOMAIN k.got |-> text[k.got[i]]]
  BY DEF DownFine
<1> HIDE DEF d
<1> QED
  BY <1>4, <1>5, <1>6 DEF ReadsAs

\* Wherever TCP cuts, recv leaves the rest of a command for the next one, and
\* the parser its place in it.
LEMMA ReceiveKept ==
  ASSUME Inv, NEW c \in Open, NEW m \in 1..Len(net[c].up), Receive(c, m)
  PROVE  Inv'
<1> DEFINE k == client[c]
           n == net[c]
           p == peer[c]
           bytes == SubSeq(n.up, 1, m)
           rest == SubSeq(n.up, m + 1, Len(n.up))
           cut == IF m < Len(n.up) THEN p.cut + 1 ELSE p.cut
           q == [p EXCEPT !.cut = cut]
           r == Input(k.proto, bytes, modem)
           k2 == [k EXCEPT !.proto = r.s, !.whole = @ /\ IsWhole(r.io.reply)]
           n2 == [n EXCEPT !.up = rest, !.down = @ \o r.io.reply]
<1>1. /\ Idle /\ peer' = [peer EXCEPT ![c] = q] /\ UNCHANGED <<svsVars, modem, rested, events>>
      /\ \/ /\ client' = [client EXCEPT ![c] = k2] /\ net' = [net EXCEPT ![c] = n2]
            /\ todo' = Todo(c, r.io.raised, r.io.data)
         \/ Dropped(c) /\ net' = Gone(c) /\ UNCHANGED todo
  <2>1. /\ Idle /\ UNCHANGED <<svsVars, modem, rested, events>>
        /\ peer' = [peer EXCEPT ![c].cut = IF m < Len(n.up) THEN @ + 1 ELSE @]
        /\ \/ /\ client' = [client EXCEPT ![c].proto = r.s, ![c].whole = @ /\ IsWhole(r.io.reply)]
              /\ net' = [net EXCEPT ![c].up = SubSeq(@, m + 1, Len(@)), ![c].down = @ \o r.io.reply]
              /\ todo' = Todo(c, r.io.raised, r.io.data)
           \/ Dropped(c) /\ net' = Gone(c) /\ UNCHANGED todo
    BY DEF Receive
  <2> HIDE DEF r
  <2>2. [client EXCEPT ![c].proto = r.s, ![c].whole = @ /\ IsWhole(r.io.reply)] = [client EXCEPT ![c] = k2]
    OBVIOUS
  <2>3. [net EXCEPT ![c].up = SubSeq(@, m + 1, Len(@)), ![c].down = @ \o r.io.reply] = [net EXCEPT ![c] = n2]
    OBVIOUS
  <2>4. [peer EXCEPT ![c].cut = IF m < Len(n.up) THEN @ + 1 ELSE @] = [peer EXCEPT ![c] = q]
    OBVIOUS
  <2> HIDE DEF k2, n2, q, n
  <2> QED
    BY <2>1, <2>2, <2>3, <2>4
<1>2. Served(k, n, p, <<>>, said)
  BY <1>1, ServedFacts, IdleRest
<1>3. World' /\ said' = said
  BY <1>1 DEF Inv, World, svsVars
<1>4. modem \in Byte /\ c \in Conns
  BY ServedFacts DEF Inv, World, Modems, MODEM_LINK_UP, MODEM_LINK_DOWN, Byte
<1> HIDE DEF k, n, p
<1>5. /\ k \in Proper /\ k \in Kinds /\ n \in Nets /\ p \in Peers /\ Order(k, said) /\ UpFine(k, n, p, <<>>)
      /\ DownFine(k, n, p, said) /\ k.proto \in Protos /\ n.up \in Seq(Byte) /\ n.down \in Seq(Byte)
      /\ n.state \in {"open", "left"}
  BY <1>2 DEF Served, Proper, Kinds, Nets
<1>6. m \in 1..Len(n.up) /\ bytes \in Seq(Byte) /\ rest \in Seq(Byte)
  <2>1. m \in 1..Len(n.up) /\ Len(n.up) \in Nat
    BY <1>5 DEF n
  <2> QED
    BY <1>5, <2>1
<1>7. r \in Results /\ r.s \in Protos /\ r.io.reply \in Seq(Byte) /\ r.io.data \in Seq(Byte) /\ r.io.raised \in BOOLEAN
  <2> HIDE DEF bytes
  <2>1. r \in Results
    BY <1>4, <1>5, <1>6, InputType
  <2> HIDE DEF r
  <2> QED
    BY <2>1 DEF Results, IOs
<1>8. q \in Peers /\ q.text = p.text /\ q.heard = p.heard
  <2>1. cut \in Nat
    BY <1>5 DEF Peers
  <2> HIDE DEF cut
  <2> QED
    BY <1>5, <2>1 DEF Peers
<1>9. CASE Dropped(c) /\ net' = Gone(c) /\ UNCHANGED todo
  <2> HIDE DEF q
  <2> QED
    BY <1>1, <1>3, <1>8, <1>9, AwayKept
<1>10. CASE /\ client' = [client EXCEPT ![c] = k2] /\ net' = [net EXCEPT ![c] = n2]
            /\ todo' = Todo(c, r.io.raised, r.io.data)
  <2>1. /\ k2 \in Proper /\ k2.proto = r.s /\ k2.passed = k.passed /\ k2.got = k.got
        /\ k2.from = k.from /\ k2.pos = k.pos /\ k2.echo = k.echo /\ k2.asks = k.asks
        /\ (k2.whole => k.whole /\ IsWhole(r.io.reply))
    <3> DEFINE whole == k.whole /\ IsWhole(r.io.reply)
    <3>1. whole \in BOOLEAN
      OBVIOUS
    <3> HIDE DEF r
    <3>2. k2 = [k EXCEPT !.proto = r.s, !.whole = whole]
      OBVIOUS
    <3>3. whole => k.whole /\ IsWhole(r.io.reply)
      OBVIOUS
    <3> HIDE DEF whole
    <3> QED
      BY <1>5, <1>7, <3>1, <3>2, <3>3 DEF Proper, IsProper, Kinds
  <2>2. /\ n2 \in Nets /\ n2.state = n.state /\ n2.up = rest /\ n2.down = n.down \o r.io.reply
    <3> DEFINE down == n.down \o r.io.reply
    <3>1. down \in Seq(Byte)
      BY <1>5, <1>7
    <3> HIDE DEF down, rest
    <3>2. [n EXCEPT !.up = rest, !.down = down] \in Nets
      BY <1>5, <1>6, <3>1 DEF Nets
    <3>3. n2 = [n EXCEPT !.up = rest, !.down = down]
      BY DEF down
    <3> QED
      BY <1>5, <3>2, <3>3 DEF Nets, down
  <2> HIDE DEF k2, n2
  <2>3. UpFine(k2, n2, q, r.io.data)
    <3>1. k2 \in Kinds
      BY <2>1 DEF Proper
    <3> HIDE DEF q
    <3> QED
      BY <1>4, <1>5, <1>6, <1>8, <2>1, <2>2, <3>1, UpTaken
  <2> HIDE DEF r
  <2>4. DownFine(k2, n2, q, said)
    <3> HIDE DEF q
    <3> QED
      BY <1>5, <1>7, <1>8, <2>1, <2>2, DownMore
  <2>5. Order(k2, said)
    BY <1>5, <2>1, SameOrder
  <2>6. Served(k2, n2, q, r.io.data, said)
    BY <1>2, <1>5, <1>8, <2>1, <2>2, <2>3, <2>4, <2>5 DEF Served
  <2>7. c \in Nat /\ c # NoConn
    BY <1>4 DEF Conns, NoConn
  <2>8. /\ todo' \in Todos /\ todo'.data = r.io.data /\ todo'.conn \in {c, NoConn}
        /\ r.io.data # <<>> => todo'.conn = c
        /\ todo' = Nothing \/ (todo'.conn = c /\ (todo'.raised \/ todo'.data # <<>>))
    BY <1>7, <1>10, <2>7, TodoType
  <2>9. Rest(c)' = r.io.data
    BY <2>7, <2>8 DEF Rest
  <2>10. \A d \in Conns \ {c} : Rest(d)' = Rest(d)
    <3>1. \A d \in Conns \ {c} : todo'.conn # d
      BY <2>8 DEF Conns, NoConn
    <3>2. \A d : Rest(d) = <<>>
      BY <1>1, IdleRest
    <3> QED
      BY <3>1, <3>2 DEF Rest
  <2>11. Turn(c, k2, n2, q)
    BY <1>1, <1>10 DEF Turn
  <2> HIDE DEF q
  <2> QED
    BY <1>3, <2>6, <2>8, <2>9, <2>10, <2>11, TurnKept
<1> HIDE DEF k2, n2, q, r
<1> QED
  BY <1>1, <1>9, <1>10

\* The program at the other end does something: its connection becomes n, it p.
LEMMA PeerKept ==
  ASSUME Inv, NEW c \in Open, NEW n, NEW p, net' = [net EXCEPT ![c] = n], peer' = [peer EXCEPT ![c] = p],
         UNCHANGED <<svsVars, serverVars>>, n \in Nets, n.state \in {"open", "left"}, p \in Peers,
         UpFine(client[c], n, p, Rest(c)), DownFine(client[c], n, p, said)
  PROVE  Inv'
<1>1. World' /\ said' = said /\ todo' = todo /\ client' = client
  BY DEF Inv, World, svsVars, serverVars
<1>2. Served(client[c], n, p, Rest(c), said)
  BY ServedFacts DEF Served
<1>3. Turn(c, client[c], n, p)
  BY <1>1, ServedFacts DEF Turn
<1>4. /\ todo' \in Todos
      /\ todo' = Nothing \/ (todo'.conn \in Open /\ (todo'.raised \/ todo'.data # <<>>))
      /\ \A d : Rest(d)' = Rest(d)
  BY <1>1 DEF Inv, Tables, Doing, Rest
<1>5. Served(client[c], n, p, Rest(c)', said)
  BY <1>2, <1>4
<1> QED
  BY <1>1, <1>3, <1>4, <1>5, TurnKept

\* Only a connection that has a slot is open.
LEMMA OpenServed ==
  ASSUME Inv, NEW c \in Conns, net[c].state = "open"
  PROVE  c \in Open
BY DEF Inv, Fine, Unserved

\* What a plan lets happen is in the types.
LEMMA PlanConns ==
  ASSUME Inv
  PROVE  /\ 1..plan.conns \subseteq Conns
         /\ plan.requests \subseteq Byte
         /\ \A bytes \in plan.typings : bytes \in Seq(Byte) /\ Telnet(bytes).at = "data"
BY ServerAssumption DEF Inv, World, Conns

\* What a client was left to do is bytes.
LEMMA RestType ==
  ASSUME Inv, NEW c
  PROVE  Rest(c) \in Seq(Byte)
<1>1. <<>> \in Seq(Byte)
  OBVIOUS
<1> QED
  BY <1>1 DEF Inv, Tables, Todos, Rest

\* The program reads what is under way and answers with whole commands.
LEMMA PeerReadsKept ==
  ASSUME Inv, NEW c \in Conns, PeerReads(c)
  PROVE  Inv'
<1> DEFINE k == client[c]
           n == net[c]
           p == peer[c]
           t == Telnet(n.down)
           a == Answers(p, t.verbs)
           q == [a.p EXCEPT !.fresh = FALSE, !.heard = @ \o t.data]
           n2 == [n EXCEPT !.up = @ \o a.says, !.down = <<>>]
<1>1. /\ n.state = "open" /\ UNCHANGED <<svsVars, serverVars>>
      /\ peer' = [peer EXCEPT ![c] = q]
      /\ net' = [net EXCEPT ![c].up = @ \o a.says, ![c].down = <<>>]
  BY DEF PeerReads
<1>2. c \in Open
  BY <1>1, OpenServed
<1>3. Served(k, n, p, Rest(c), said) /\ net' = [net EXCEPT ![c] = n2]
  <2>1. [net EXCEPT ![c].up = @ \o a.says, ![c].down = <<>>] = [net EXCEPT ![c] = n2]
    OBVIOUS
  <2> QED
    BY <1>1, <1>2, <2>1, ServedFacts
<1> HIDE DEF k, n, p
<1>4. /\ k \in Kinds /\ n \in Nets /\ p \in Peers /\ n.up \in Seq(Byte) /\ n.down \in Seq(Byte)
      /\ UpFine(k, n, p, Rest(c)) /\ DownFine(k, n, p, said) /\ p.heard \in Seq(Byte) /\ p.text \in Seq(Byte)
  BY <1>3 DEF Served, Proper, Nets, Peers
<1>5. t \in Readers /\ t.data \in Seq(Byte) /\ t.verbs \in Seq(Verbs \X Byte)
  <2>1. t \in Readers
    BY <1>4, AtData, ReadType DEF Telnet
  <2> HIDE DEF t
  <2> QED
    BY <2>1 DEF Readers
<1> HIDE DEF t
<1>6. /\ a.p \in Peers /\ a.says \in Seq(Byte) /\ a.p.text = p.text /\ a.p.heard = p.heard
      /\ ReadsAs(a.says, <<>>)
  <2>1. a \in Answerings(p)
    BY <1>4, <1>5, AnswersType
  <2> HIDE DEF a
  <2> QED
    BY <2>1 DEF Answerings
<1> HIDE DEF a
<1>7. q \in Peers /\ q.text = p.text /\ q.heard = p.heard \o t.data
  <2> DEFINE heard == p.heard \o t.data
  <2>1. heard \in Seq(Byte)
    BY <1>4, <1>5
  <2> HIDE DEF heard
  <2>2. q = [a.p EXCEPT !.fresh = FALSE, !.heard = heard]
    BY <1>6 DEF Peers, heard
  <2> QED
    BY <1>6, <2>1, <2>2 DEF Peers, heard
<1>8. n2 \in Nets /\ n2.state = "open" /\ n2.up = n.up \o a.says /\ n2.down = <<>>
  <2> DEFINE up == n.up \o a.says
  <2>1. up \in Seq(Byte) /\ <<>> \in Seq(Byte)
    BY <1>4, <1>6
  <2> HIDE DEF up
  <2>2. n2 = [n EXCEPT !.up = up, !.down = <<>>]
    BY DEF up
  <2>3. n2 \in Nets /\ n2.state = n.state /\ n2.up = up /\ n2.down = <<>>
    BY <1>4, <2>1, <2>2 DEF Nets
  <2> QED
    BY <1>1, <2>3 DEF up
<1> HIDE DEF q, n2
<1>9. UpFine(k, n2, q, Rest(c))
  <2>1. p.text \o <<>> = p.text /\ <<>> \in Seq(Byte)
    BY <1>4
  <2>2. UpFine(k, [n EXCEPT !.up = @ \o a.says], q, Rest(c))
    BY <1>4, <1>6, <1>7, <2>1, RestType, UpMore
  <2>3. [n EXCEPT !.up = @ \o a.says].up = n2.up
    BY <1>4, <1>6, <1>8, NetType
  <2> QED
    BY <2>2, <2>3 DEF UpFine
<1>10. DownFine(k, n2, q, said)
  <2>1. Telnet(<<>>).at = "data" /\ Telnet(<<>>).data = <<>>
    BY ReadsNone DEF ReadsAs
  <2>2. q.heard \o <<>> = p.heard \o t.data
    <3>1. q.heard \in Seq(Byte)
      BY <1>7 DEF Peers
    <3> QED
      BY <1>7, <3>1
  <2>3. k.whole => p.heard \o t.data = [i \in DOMAIN k.got |-> said[k.got[i]]]
    BY <1>4 DEF DownFine, t
  <2> QED
    BY <1>8, <2>1, <2>2, <2>3 DEF DownFine
<1> QED
  BY <1>1, <1>2, <1>3, <1>7, <1>8, <1>9, <1>10, PeerKept DEF k

\* What is sent to the server: bytes that are read as text, by a program that is q then.
Sent(c, bytes, text, q) ==
  /\ bytes \in Seq(Byte) /\ text \in Seq(Byte) /\ ReadsAs(bytes, text)
  /\ net[c].state = "open" /\ net' = [net EXCEPT ![c].up = @ \o bytes]
  /\ q \in Peers /\ q.text = peer[c].text \o text /\ q.heard = peer[c].heard
  /\ peer' = [peer EXCEPT ![c] = q]

\* A program sends something that reads as the text it means.
LEMMA SentKept ==
  ASSUME Inv, NEW c \in Open, NEW bytes, NEW text, NEW q, Sent(c, bytes, text, q),
         UNCHANGED <<svsVars, serverVars>>
  PROVE  Inv'
<1> DEFINE k == client[c]
           n == net[c]
           p == peer[c]
           n2 == [n EXCEPT !.up = @ \o bytes]
<1>1. Served(k, n, p, Rest(c), said) /\ net' = [net EXCEPT ![c] = n2]
  BY ServedFacts DEF Sent
<1>2. /\ n.state = "open" /\ q.text = p.text \o text /\ q.heard = p.heard
      /\ bytes \in Seq(Byte) /\ text \in Seq(Byte) /\ ReadsAs(bytes, text)
      /\ q \in Peers /\ peer' = [peer EXCEPT ![c] = q]
  BY DEF Sent
<1> HIDE DEF k, n, p
<1>3. k \in Kinds /\ n \in Nets /\ p \in Peers /\ UpFine(k, n, p, Rest(c)) /\ DownFine(k, n, p, said)
  BY <1>1 DEF Served, Proper
<1>4. n2 \in Nets /\ n2.state = "open" /\ n2.down = n.down
  BY <1>2, <1>3, NetType
<1>5. UpFine(k, n2, q, Rest(c))
  BY <1>2, <1>3, RestType, UpMore
<1> HIDE DEF n2
<1>6. DownFine(k, n2, q, said)
  BY <1>2, <1>3, <1>4 DEF DownFine
<1> QED
  BY <1>1, <1>2, <1>4, <1>5, <1>6, PeerKept DEF k

\* Typing is sending what is typed.
LEMMA TypeKept ==
  ASSUME Inv, NEW c \in Conns, NEW bytes \in plan.typings, Type(c, bytes)
  PROVE  Inv'
<1> DEFINE p == peer[c]
           text == Telnet(bytes).data
           q == [p EXCEPT !.typed = @ + 1, !.text = @ \o text]
<1>1. /\ net[c].state = "open" /\ UNCHANGED <<svsVars, serverVars>>
      /\ peer' = [peer EXCEPT ![c].typed = @ + 1, ![c].text = @ \o text]
      /\ net' = [net EXCEPT ![c].up = @ \o bytes]
  BY DEF Type
<1>2. c \in Open
  BY <1>1, OpenServed
<1>3. bytes \in Seq(Byte) /\ Telnet(bytes).at = "data"
  BY PlanConns
<1>4. text \in Seq(Byte) /\ ReadsAs(bytes, text)
  <2>1. Telnet(bytes) \in Readers
    BY <1>3, AtData, ReadType DEF Telnet
  <2> QED
    BY <1>3, <2>1 DEF ReadsAs, Readers
<1> HIDE DEF text
<1>5. p \in Peers
  BY <1>2, ServedFacts DEF Served
<1>6. peer' = [peer EXCEPT ![c] = q]
  BY <1>1
<1> HIDE DEF p
<1>7. q \in Peers /\ q.text = p.text \o text /\ q.heard = p.heard
  <2> DEFINE all == p.text \o text
             typed == p.typed + 1
  <2>1. all \in Seq(Byte) /\ typed \in Nat
    BY <1>4, <1>5 DEF Peers
  <2>2. q = [p EXCEPT !.typed = typed, !.text = all]
    OBVIOUS
  <2> HIDE DEF all, typed
  <2>3. q \in Peers /\ q.text = all /\ q.heard = p.heard
    BY <1>5, <2>1, <2>2 DEF Peers
  <2> QED
    BY <2>3 DEF all
<1> HIDE DEF q
<1>8. q.text = peer[c].text \o text /\ q.heard = peer[c].heard
  BY <1>7 DEF p
<1>9. Sent(c, bytes, text, q)
  BY <1>1, <1>3, <1>4, <1>6, <1>7, <1>8 DEF Sent
<1> QED
  BY <1>1, <1>2, <1>9, SentKept

\* Changing an option is sending a verb, which reads as no text.
LEMMA RequestKept ==
  ASSUME Inv, NEW c \in Conns, NEW verb \in WILL..DONT, NEW opt \in plan.requests, Request(c, verb, opt)
  PROVE  Inv'
<1> DEFINE p == peer[c]
           changed ==
             CASE verb = WILL -> [p EXCEPT !.will = @ \cup {opt}]
               [] verb = WONT -> [p EXCEPT !.will = @ \ {opt}]
               [] verb = DO -> [p EXCEPT !.do = @ \cup {opt}]
               [] verb = DONT -> [p EXCEPT !.do = @ \ {opt}]
           q == [changed EXCEPT !.typed = @ + 1]
           bytes == <<IAC, verb, opt>>
<1>1. /\ net[c].state = "open" /\ UNCHANGED <<svsVars, serverVars>>
      /\ peer' = [peer EXCEPT ![c] = q]
      /\ net' = [net EXCEPT ![c].up = @ \o bytes]
  BY DEF Request
<1>2. c \in Open
  BY <1>1, OpenServed
<1>3. opt \in Byte /\ verb \in Verbs
  BY PlanConns DEF Verbs
<1>4. bytes \in Seq(Byte) /\ ReadsAs(bytes, <<>>)
  BY <1>3, VerbReads
<1> HIDE DEF bytes
<1>5. p \in Peers
  BY <1>2, ServedFacts DEF Served
<1> HIDE DEF p
<1>6. changed \in Peers /\ changed.text = p.text /\ changed.heard = p.heard
  <2>1. verb = WILL \/ verb = WONT \/ verb = DO \/ verb = DONT
    BY Consts
  <2>2. WILL # WONT /\ WILL # DO /\ WILL # DONT /\ WONT # DO /\ WONT # DONT /\ DO # DONT
    BY DEF WILL, WONT, DO, DONT
  <2>3. /\ p.will \cup {opt} \in SUBSET Byte /\ p.will \ {opt} \in SUBSET Byte
        /\ p.do \cup {opt} \in SUBSET Byte /\ p.do \ {opt} \in SUBSET Byte
    BY <1>3, <1>5 DEF Peers
  <2>4. \A x \in SUBSET Byte : /\ [p EXCEPT !.will = x] \in Peers /\ [p EXCEPT !.will = x].text = p.text
                               /\ [p EXCEPT !.will = x].heard = p.heard
                               /\ [p EXCEPT !.do = x] \in Peers /\ [p EXCEPT !.do = x].text = p.text
                               /\ [p EXCEPT !.do = x].heard = p.heard
    BY <1>5 DEF Peers
  <2>5. CASE verb = WILL
    BY <2>2, <2>3, <2>4, <2>5
  <2>6. CASE verb = WONT
    BY <2>2, <2>3, <2>4, <2>6
  <2>7. CASE verb = DO
    BY <2>2, <2>3, <2>4, <2>7
  <2>8. CASE verb = DONT
    BY <2>2, <2>3, <2>4, <2>8
  <2> QED
    BY <2>1, <2>5, <2>6, <2>7, <2>8
<1> HIDE DEF changed
<1>7. q \in Peers /\ q.text = p.text /\ q.heard = p.heard
  <2>1. changed.typed + 1 \in Nat
    BY <1>6 DEF Peers
  <2> QED
    BY <1>6, <2>1 DEF Peers
<1>8. p.text \o <<>> = p.text /\ <<>> \in Seq(Byte)
  BY <1>5 DEF Peers
<1> HIDE DEF q
<1>9. Sent(c, bytes, <<>>, q)
  BY <1>1, <1>4, <1>7, <1>8 DEF Sent, p
<1> QED
  BY <1>1, <1>2, <1>9, SentKept

\* A program that leaves loses what is under way, and says so.
LEMMA LeaveKept ==
  ASSUME Inv, NEW c \in Conns, Leave(c)
  PROVE  Inv'
<1> DEFINE n == net[c]
           n2 == [n EXCEPT !.state = "left"]
<1>1. /\ n.state = "open" /\ net' = [net EXCEPT ![c].state = "left"] /\ UNCHANGED <<svsVars, serverVars, peer>>
  BY DEF Leave
<1>2. c \in Open
  BY <1>1, OpenServed
<1>3. /\ Served(client[c], n, peer[c], Rest(c), said) /\ net' = [net EXCEPT ![c] = n2]
      /\ peer' = [peer EXCEPT ![c] = peer[c]]
  BY <1>1, <1>2, ServedFacts
<1> HIDE DEF n
<1>4. n2 \in Nets /\ n2.state = "left" /\ n2.up = n.up /\ n2.down = n.down
  BY <1>3 DEF Served, Nets
<1> HIDE DEF n2
<1>5. /\ UpFine(client[c], n2, peer[c], Rest(c)) /\ DownFine(client[c], n2, peer[c], said) /\ peer[c] \in Peers
  BY <1>3, <1>4 DEF Served, UpFine, DownFine
<1> QED
  BY <1>1, <1>2, <1>3, <1>4, <1>5, PeerKept

\* A client that joins
LEMMA JoinedServed ==
  ASSUME said \in Seq(Byte)
  PROVE  Served(Joined, [NewConn EXCEPT !.state = "open", !.down = Greeting], NewPeer, <<>>, said)
<1> DEFINE n == [NewConn EXCEPT !.state = "open", !.down = Greeting]
           k == Joined
           L == Len(said)
<1>1. L \in Nat /\ <<>> \in Seq(Byte) /\ <<>> \in Seq(Nat) /\ <<>> \in Seq(Asked) /\ <<>> \in Seq(Items)
  OBVIOUS
<1>2. /\ k.proto = Greeted(Fresh) /\ k.pos = L /\ k.line = <<>> /\ k.echo = NoEcho /\ k.late = FALSE
      /\ k.from = L /\ k.got = <<>> /\ k.asks = <<>> /\ k.passed = <<>> /\ k.whole = TRUE
  BY DEF Joined
<1>3. Greeted(Fresh) \in Protos /\ Greeted(Fresh).st = "data"
  <2>1. we_accept \in SUBSET they_accept
    BY DEF we_accept, they_accept
  <2>2. <<(<<0, 0, 37, 128>>), (<<8>>), (<<1>>), (<<1>>)>> \in [1..4 -> Seq(Byte)]
    <3>1. {0, 37, 128, 8, 1} \subseteq Byte
      BY DEF Byte
    <3> DEFINE w == <<0, 0, 37, 128>>
               x == <<8>>
               y == <<1>>
    <3>2. w \in Seq(Byte) /\ x \in Seq(Byte) /\ y \in Seq(Byte)
      BY <3>1
    <3> HIDE DEF w, x, y
    <3>3. <<w, x, y, y>> \in [1..4 -> Seq(Byte)]
      BY <3>2
    <3> QED
      BY <3>3 DEF w, x, y
  <2> DEFINE set == <<(<<0, 0, 37, 128>>), (<<8>>), (<<1>>), (<<1>>)>>
  <2>3. Fresh = [st |-> "data", verb |-> 0, sb |-> <<>>, overflow |-> FALSE, we |-> {}, they |-> {},
                 set |-> set, dtr |-> FALSE]
    BY DEF Fresh
  <2> HIDE DEF set
  <2>4. Greeted(Fresh) = [st |-> "data", verb |-> 0, sb |-> <<>>, overflow |-> FALSE, we |-> we_accept,
                          they |-> we_accept, set |-> set, dtr |-> FALSE]
    <3> DEFINE s == Fresh
    <3>1. s.we \cup we_accept = we_accept /\ s.they \cup we_accept = we_accept
      BY <2>3
    <3>2. Greeted(s) = [s EXCEPT !.we = we_accept, !.they = we_accept]
      BY <3>1 DEF Greeted
    <3> HIDE DEF s
    <3>3. s = [st |-> "data", verb |-> 0, sb |-> <<>>, overflow |-> FALSE, we |-> {}, they |-> {},
               set |-> set, dtr |-> FALSE]
      BY <2>3 DEF s
    <3>4. Greeted(s) = [st |-> "data", verb |-> 0, sb |-> <<>>, overflow |-> FALSE, we |-> we_accept,
                        they |-> we_accept, set |-> set, dtr |-> FALSE]
      BY <3>2, <3>3
    <3> QED
      BY <3>4 DEF s
  <2>5. "data" \in States /\ 0 \in Byte /\ Len(<<>>) <= SbMax
    BY ProtoAssumption DEF States, Byte
  <2> QED
    BY <1>1, <2>1, <2>2, <2>4, <2>5 DEF Protos, set
<1>4. k \in Proper
  <2>1. NoEcho \in Echos /\ Len(<<>>) < LineMax
    BY NoEchoType, TapSizes
  <2>2. k \in Kinds
    <3> DEFINE proto == Greeted(Fresh)
    <3> HIDE DEF proto
    <3>1. k = [proto |-> proto, pos |-> L, modem |-> -1, line |-> <<>>, echo |-> NoEcho,
               late |-> FALSE, from |-> L, got |-> <<>>, asks |-> <<>>, passed |-> <<>>, whole |-> TRUE]
      BY DEF Joined, proto
    <3> HIDE DEF k
    <3> QED
      BY <1>1, <1>3, <2>1, <3>1 DEF Kinds, proto
  <2> QED
    BY <1>2, <2>1, <2>2 DEF Proper, IsProper
<1> HIDE DEF k
<1>5. n \in Nets /\ n.state = "open" /\ n.up = <<>> /\ n.down = Greeting
  <2>1. n = [state |-> "open", up |-> <<>>, down |-> Greeting]
    <3> DEFINE g == Greeting
    <3> HIDE DEF g
    <3> DEFINE o == [NewConn EXCEPT !.state = "open"]
    <3>1. o = [state |-> "open", up |-> <<>>, down |-> <<>>]
      BY DEF NewConn
    <3>2. [NewConn EXCEPT !.state = "open", !.down = g] = [o EXCEPT !.down = g]
      OBVIOUS
    <3> HIDE DEF o
    <3>3. [o EXCEPT !.down = g] = [state |-> "open", up |-> <<>>, down |-> g]
      BY <3>1
    <3> QED
      BY <3>2, <3>3 DEF g
  <2> HIDE DEF n
  <2> QED
    BY <1>1, <2>1, GreetingReads DEF Nets
<1> HIDE DEF n
<1>6. NewPeer \in Peers /\ NewPeer.text = <<>> /\ NewPeer.heard = <<>>
  BY <1>1 DEF NewPeer, Peers
<1>7. UpFine(k, n, NewPeer, <<>>)
  <2>1. At(Start("data")) = Fragment
    BY AtData DEF Start
  <2>2. Telnet(<<>>).at = "data" /\ Telnet(<<>>).data = <<>>
    BY ReadsNone DEF ReadsAs
  <2> QED
    BY <1>2, <1>3, <1>5, <1>6, <2>1, <2>2 DEF UpFine, Telnet
<1>8. DownFine(k, n, NewPeer, said)
  <2>1. Telnet(Greeting).at = "data" /\ Telnet(Greeting).data = <<>>
    BY GreetingReads DEF ReadsAs
  <2>2. [i \in DOMAIN k.got |-> said[k.got[i]]] = <<>>
    BY <1>2
  <2> QED
    BY <1>5, <1>6, <2>1, <2>2 DEF DownFine
<1>9. Order(k, said)
  <2>1. k.echo.hold = <<>> /\ k.echo.input = NoInput
    BY <1>2 DEF NoEcho
  <2>2. Given(k) = <<>>
    <3>1. Given(k) = <<>> \o Ats(<<>>)
      BY <1>2, <1>4, <2>1, GivenType DEF Proper
    <3>2. Ats(<<>>) = <<>>
      BY DEF Ats
    <3> QED
      BY <3>1, <3>2
  <2>3. Missing(k) = {}
    BY <1>1, <1>2, <2>2 DEF Missing
  <2>4. GivenInOrder(k)
    BY <2>2 DEF GivenInOrder
  <2>5. HeldIsLast(k, said)
    BY <2>1 DEF HeldIsLast
  <2>6. EndsCounted(k, said)
    <3>1. Ends(k, said) = {}
      BY <2>3 DEF Ends
    <3>2. Len(k.asks) = 0
      BY <1>2
    <3> QED
      BY <2>1, <3>1, <3>2, FS_EmptySet DEF EndsCounted
  <2> QED
    BY <2>1, <2>3, <2>4, <2>5, <2>6 DEF Order
<1> QED
  BY <1>1, <1>2, <1>4, <1>5, <1>6, <1>7, <1>8, <1>9 DEF Served, k, n

\* A new client is greeted, and the oldest goes when there is no slot.
LEMMA AcceptKept ==
  ASSUME Inv, NEW c \in Conns, Accept(c)
  PROVE  Inv'
<1> DEFINE out == IF Cardinality(Open) = MaxClients THEN {d \in Open : \A e \in Open : d <= e} ELSE {}
<1>1. /\ Idle /\ net[c].state = "new" /\ UNCHANGED <<svsVars, modem, todo, rested, peer, events>>
      /\ client' = [d \in {c} \cup (Open \ out) |-> IF d = c THEN Joined ELSE client[d]]
      /\ net' = [d \in Conns |->
                      IF d = c THEN [NewConn EXCEPT !.state = "open", !.down = Greeting]
                      ELSE IF d \in out THEN [NewConn EXCEPT !.state = "closed"] ELSE net[d]]
  BY DEF Accept
<1>2. /\ client = [d \in Open |-> client[d]] /\ Open \subseteq Conns /\ Cardinality(Open) <= MaxClients
      /\ net = [d \in Conns |-> net[d]] /\ peer = [d \in Conns |-> peer[d]]
      /\ todo \in Todos /\ todo = Nothing
  BY <1>1 DEF Inv, Tables, Idle
<1>3. c \notin Open /\ net[c] = NewConn /\ peer[c] = NewPeer
  <2>1. Fine(c)
    BY DEF Inv
  <2> QED
    BY <1>1, <2>1 DEF Fine, Served, Unserved
<1>4. Open' = {c} \cup (Open \ out) /\ client' = [d \in Open' |-> client'[d]]
  BY <1>1 DEF Open
<1>5. MaxConns \in Nat /\ MaxClients \in Nat /\ MaxClients > 0
  BY ServerAssumption
<1>6. IsFiniteSet(Open) /\ Cardinality(Open) \in Nat /\ IsFiniteSet(Open \ out) /\ Cardinality(Open \ out) \in Nat
  <2>1. IsFiniteSet(Conns)
    BY <1>5, FiniteRange DEF Conns
  <2>2. IsFiniteSet(Open)
    BY <1>2, <2>1, FS_Subset
  <2>3. IsFiniteSet(Open \ out)
    <3> HIDE DEF out
    <3> QED
      BY <2>2, FS_Subset
  <2> QED
    BY <2>2, <2>3, FS_CardinalityType
<1>7. Cardinality(Open \ out) < MaxClients
  <2>1. CASE Cardinality(Open) # MaxClients
    <3>1. Open \ out = Open
      BY <2>1
    <3> HIDE DEF out
    <3> QED
      BY <1>2, <1>5, <1>6, <2>1, <3>1
  <2>2. CASE Cardinality(Open) = MaxClients
    <3>1. Open # {}
      BY <1>5, <2>2, FS_EmptySet
    <3>2. Open \in SUBSET Nat
      BY <1>2, <1>5 DEF Conns
    <3>3. PICK m \in Open : \A d \in Open : m <= d
      <4> DEFINE S == Open
      <4> HIDE DEF S
      <4>1. S \in SUBSET Nat /\ S # {}
        BY <3>1, <3>2 DEF S
      <4>2. \E m \in S : \A d \in S : m <= d
        BY <4>1, Least
      <4> QED
        BY <4>2 DEF S
    <3>4. out = {m}
      <4>1. \A d \in Open : d \in Nat
        BY <3>2
      <4>2. ASSUME NEW d \in Open, \A e \in Open : d <= e PROVE d = m
        BY <3>3, <4>1, <4>2
      <4> QED
        BY <2>2, <3>3, <4>2
    <3> HIDE DEF out
    <3>5. Cardinality(Open \ {m}) = Cardinality(Open) - 1
      BY <1>6, <3>3, FS_RemoveElement
    <3> QED
      BY <1>5, <1>6, <2>2, <3>4, <3>5
  <2> QED
    BY <2>1, <2>2
<1>8. Cardinality(Open') <= MaxClients
  <2> DEFINE S == Open \ out
  <2> HIDE DEF S
  <2>1. IsFiniteSet(S) /\ Cardinality(S) \in Nat /\ Cardinality(S) < MaxClients /\ Open' = S \cup {c}
    BY <1>4, <1>6, <1>7 DEF S
  <2>2. Cardinality(S \cup {c}) \in {Cardinality(S), Cardinality(S) + 1}
    BY <2>1, FS_AddElement
  <2> QED
    BY <1>5, <2>1, <2>2
<1> HIDE DEF out
<1>9. out \subseteq Open
  BY DEF out
<1>10. Tables'
  <2>1. net' = [d \in Conns |-> net'[d]] /\ peer' = [d \in Conns |-> peer'[d]]
    BY <1>1, <1>2
  <2>2. Open' \subseteq Conns
    BY <1>2, <1>4
  <2> QED
    BY <1>1, <1>2, <1>4, <1>8, <2>1, <2>2 DEF Tables, Doing, Conns
<1>11. World' /\ said' = said
  BY <1>1 DEF Inv, World, svsVars
<1>12. \A d : Rest(d) = <<>> /\ Rest(d)' = <<>>
  BY <1>1, IdleRest
<1>13. Fine(c)'
  <2>1. /\ c \in Open' /\ client'[c] = Joined /\ peer'[c] = NewPeer
        /\ net'[c] = [NewConn EXCEPT !.state = "open", !.down = Greeting]
    BY <1>1, <1>3, <1>4
  <2>2. said \in Seq(Byte)
    BY DEF Inv, World
  <2>3. Served(client'[c], net'[c], peer'[c], Rest(c)', said')
    BY <1>11, <1>12, <2>1, <2>2, JoinedServed
  <2> QED
    BY <2>1, <2>3 DEF Fine
<1>14. ASSUME NEW d \in out PROVE Fine(d)'
  <2>1. d \in Open /\ d \in Conns /\ d # c
    BY <1>2, <1>3, <1>9
  <2>2. /\ d \notin Open' /\ net'[d] = [NewConn EXCEPT !.state = "closed"] /\ peer'[d] = peer[d]
    BY <1>1, <1>4, <2>1
  <2>3. peer[d] \in Peers
    BY <2>1, ServedFacts DEF Served
  <2>4. net'[d] \in Nets /\ net'[d].state = "closed"
    <3>1. <<>> \in Seq(Byte)
      OBVIOUS
    <3>2. net'[d] = [state |-> "closed", up |-> <<>>, down |-> <<>>]
      BY <2>2 DEF NewConn
    <3> QED
      BY <3>1, <3>2 DEF Nets
  <2> QED
    BY <2>2, <2>3, <2>4 DEF Fine, Unserved
<1>15. ASSUME NEW d \in Conns, d # c, d \notin out PROVE Fine(d)'
  <2>1. Same(d)
    BY <1>1, <1>4, <1>12, <1>15 DEF Same
  <2>2. Fine(d)
    BY DEF Inv
  <2> QED
    BY <1>11, <2>1, <2>2, StillFine
<1>16. \A d \in Conns' : Fine(d)'
  BY <1>13, <1>14, <1>15 DEF Conns
<1> QED
  BY <1>10, <1>11, <1>16 DEF Inv

\* Every step keeps the invariant.
LEMMA NextKept ==
  ASSUME Inv, [Next]_vars
  PROVE  Inv'
<1>1. CASE Task
  <2>1. CASE Look
    BY <2>1, LineKept
  <2>2. CASE RestartForDtr
    BY <2>2, RestartKept
  <2>3. CASE FromClient
    BY <2>3, FromClientKept
  <2>4. ASSUME NEW c \in Open, NEW n \in 1..Len(net[c].up), Receive(c, n) PROVE Inv'
    BY <2>4, ReceiveKept
  <2>5. ASSUME NEW c \in Open, ReceiveEnd(c) PROVE Inv'
    BY <2>5, ReceiveEndKept
  <2>6. ASSUME NEW c \in Open, Announce(c) PROVE Inv'
    BY <2>6, AnnounceKept
  <2>7. ASSUME NEW c \in Open, Release(c) PROVE Inv'
    BY <2>7, ReleaseKept
  <2>8. ASSUME NEW c \in Open, Drain(c) PROVE Inv'
    BY <2>8, DrainKept
  <2> QED
    BY <1>1, <2>1, <2>2, <2>3, <2>4, <2>5, <2>6, <2>7, <2>8 DEF Task
<1>2. CASE Rests \/ Session \/ Replug
  BY <1>2, LineKept
<1>3. ASSUME NEW bytes \in plan.sayings, Says(bytes) PROVE Inv'
  BY <1>3, SaysKept
<1>4. ASSUME NEW c \in Open, EchoWaits(c) PROVE Inv'
  BY <1>4, EchoWaitsKept
<1>5. ASSUME NEW c \in 1..plan.conns,
             \/ Accept(c) \/ PeerReads(c) \/ Leave(c)
             \/ \E bytes \in plan.typings : Type(c, bytes)
             \/ \E verb \in WILL..DONT, opt \in plan.requests : Request(c, verb, opt)
      PROVE  Inv'
  <2>1. c \in Conns
    BY PlanConns
  <2>2. CASE Accept(c)
    BY <2>1, <2>2, AcceptKept
  <2>3. CASE PeerReads(c)
    BY <2>1, <2>3, PeerReadsKept
  <2>4. CASE Leave(c)
    BY <2>1, <2>4, LeaveKept
  <2>5. ASSUME NEW bytes \in plan.typings, Type(c, bytes) PROVE Inv'
    BY <2>1, <2>5, TypeKept
  <2>6. ASSUME NEW verb \in WILL..DONT, NEW opt \in plan.requests, Request(c, verb, opt) PROVE Inv'
    BY <2>1, <2>6, RequestKept
  <2> QED
    BY <1>5, <2>2, <2>3, <2>4, <2>5, <2>6
<1>6. CASE UNCHANGED vars
  <2>1. World' /\ UNCHANGED <<said, client, net, peer>> /\ todo' \in Todos /\ Doing'
        /\ \A c \in Conns : Rest(c)' = Rest(c)
    BY <1>6 DEF Inv, World, Tables, Doing, Rest, Open, vars, svsVars, serverVars
  <2> QED
    BY <2>1, SideKept
<1> QED
  BY <1>1, <1>2, <1>3, <1>4, <1>5, <1>6 DEF Next

\* So it always holds.
LEMMA InvHolds == Spec => []Inv
<1>1. Init => Inv
  BY InitHolds
<1>2. Inv /\ [Next]_vars => Inv'
  BY NextKept
<1> QED
  BY <1>1, <1>2, PTL DEF Spec

-----------------------------------------------------------------------------
(* What follows *)

\* The invariant has the types in it.
LEMMA TypeFollows == Inv => TypeOK
<1> SUFFICES ASSUME Inv PROVE TypeOK
  OBVIOUS
<1>1. World /\ Tables
  BY DEF Inv
<1>2. ASSUME NEW c \in Open PROVE IsClient(client[c]) /\ net[c].state \in {"open", "left"}
  <2> DEFINE k == client[c]
  <2>1. Served(k, net[c], peer[c], Rest(c), said)
    BY ServedFacts
  <2>2. k \in Proper /\ k \in Kinds /\ k.proto \in Protos /\ k.echo \in Echos
    BY <2>1 DEF Served, Proper, Kinds
  <2>3. /\ k.proto.st \in States /\ k.proto.we \in SUBSET we_accept /\ k.proto.they \in SUBSET they_accept
        /\ Len(k.proto.sb) <= SbMax /\ k.proto.dtr \in BOOLEAN
    BY <2>2 DEF Protos
  <2>4. Len(k.echo.hold) < HoldMax /\ (k.echo.input = NoInput => k.echo.hold = <<>>)
    BY <2>2 DEF Echos
  <2>5. /\ Len(k.line) < LineMax /\ (k.echo.input = NoInput => ~k.late)
        /\ k.modem \in {-1, MODEM_LINK_UP, MODEM_LINK_DOWN}
    BY <2>2 DEF Proper, IsProper, Kinds
  <2> HIDE DEF k
  <2>6. IsClient(k)
    BY <2>1, <2>3, <2>4, <2>5 DEF IsClient, Served
  <2> QED
    BY <2>1, <2>6 DEF Served, k
<1>3. \A c \in Conns \ Open : net[c].state \in {"new", "closed"}
  BY DEF Inv, Fine, Unserved
<1>4. \A i \in DOMAIN tap : tap[i].at \in 0..Len(said) /\ tap[i].b \in Byte
  <2>1. /\ tap \in [Slots -> Items] /\ Len(said) \in Nat
        /\ \A i \in Slots : tap[i].at <= Len(said)
    BY <1>1 DEF World
  <2> TAKE i \in DOMAIN tap
  <2>2. tap[i] \in Items /\ tap[i].at <= Len(said)
    BY <2>1
  <2> QED
    BY <2>1, <2>2 DEF Items
<1> QED
  BY <1>1, <1>2, <1>3, <1>4 DEF TypeOK, World, Tables, Doing, Modems

\* With nothing under way, UpFine and DownFine are transparency.
LEMMA TransparentFollows == Inv => Transparent
<1> SUFFICES ASSUME Inv, NEW c \in Open
             PROVE  /\ net[c].down = <<>> /\ client[c].whole =>
                         peer[c].heard = [i \in DOMAIN client[c].got |-> said[client[c].got[i]]]
                    /\ net[c].up = <<>> /\ todo.conn # c => client[c].passed = peer[c].text
  BY DEF Transparent
<1> DEFINE k == client[c]
           n == net[c]
           p == peer[c]
<1>1. Served(k, n, p, Rest(c), said)
  BY ServedFacts
<1>2. Telnet(<<>>).data = <<>>
  BY ReadsNone DEF ReadsAs
<1> HIDE DEF k, n, p
<1>3. k \in Kinds /\ p \in Peers /\ p.heard \in Seq(Byte) /\ k.passed \in Seq(Byte) /\ n \in Nets
  BY <1>1 DEF Served, Proper, Peers, Kinds
<1>4. ASSUME n.down = <<>>, k.whole
      PROVE  p.heard = [i \in DOMAIN k.got |-> said[k.got[i]]]
  <2>1. p.heard \o <<>> = [i \in DOMAIN k.got |-> said[k.got[i]]]
    BY <1>1, <1>2, <1>4 DEF Served, DownFine
  <2>2. p.heard \o <<>> = p.heard
    BY <1>3
  <2> QED
    BY <2>1, <2>2
<1>5. ASSUME n.up = <<>>, todo.conn # c
      PROVE  k.passed = p.text
  <2> DEFINE a == At(Start(k.proto.st))
  <2>1. a \in Readers /\ a.data = <<>>
    BY <1>3, StartType, AtType DEF Kinds, Protos
  <2> HIDE DEF a
  <2>2. Read(a, <<>>) = a
    <3>1. <<>> \in Seq(Byte)
      OBVIOUS
    <3>2. PICK f : IsReading(f, a, <<>>) /\ Read(a, <<>>) = f[Len(<<>>)]
      BY <2>1, <3>1, ReadRuns
    <3> QED
      BY <3>2 DEF IsReading
  <2>3. Rest(c) = <<>>
    BY <1>5 DEF Rest
  <2>4. (k.passed \o <<>>) \o <<>> = p.text
    BY <1>1, <1>5, <2>1, <2>2, <2>3 DEF Served, UpFine, a
  <2>5. (k.passed \o <<>>) \o <<>> = k.passed
    BY <1>3
  <2> QED
    BY <2>4, <2>5
<1> QED
  BY <1>4, <1>5 DEF k, n, p

\* Order counts every line end that is missing, and OnlyEchoMissing those of
\* answers.
LEMMA MissingFollows == Inv => OnlyEchoMissing
<1> SUFFICES ASSUME Inv, NEW c \in Open, NEW k, k = client[c]
             PROVE  /\ \A i \in 1..Len(Given(k)) - 1 : Given(k)[i] < Given(k)[i + 1]
                    /\ Cardinality({l[2] : l \in Answered(k)} \ Overwritten) <= Len(k.asks)
                    /\ \A n \in Missing(k) :
                         \/ n \in Overwritten
                         \/ \E l \in Answered(k) : n \in l[1]..l[2]
                         \/ \E a \in DOMAIN k.asks : n \in k.asks[a].held
  BY DEF OnlyEchoMissing
<1>1. k \in Kinds /\ Order(k, said)
  BY ServedFacts DEF Served, Proper
<1>2. Overwritten = Old(said)
  BY DEF Overwritten, Old
<1>3. ASSUME NEW i \in 1..Len(Given(k)) - 1 PROVE Given(k)[i] < Given(k)[i + 1]
  <2>1. Given(k) \in Seq(Nat)
    BY <1>1, GivenType
  <2>2. i \in DOMAIN Given(k) /\ i + 1 \in DOMAIN Given(k) /\ i < i + 1
    BY <2>1
  <2> QED
    BY <1>1, <2>2 DEF Order, GivenInOrder
<1>4. Cardinality({l[2] : l \in Answered(k)} \ Overwritten) <= Len(k.asks)
  <2> DEFINE E == {l[2] : l \in Answered(k)} \ Overwritten
  <2>1. E \subseteq Ends(k, said)
    <3> SUFFICES ASSUME NEW l \in Answered(k), l[2] \notin Overwritten PROVE l[2] \in Ends(k, said)
      OBVIOUS
    <3>1. /\ l[1] \in Int /\ l[2] \in Int /\ l[1] <= l[2]
          /\ l[1]..l[2] \subseteq Missing(k) /\ said[l[2]] = Newline
      BY DEF Answered, IsAnswer
    <3>2. l[2] \in l[1]..l[2]
      BY <3>1
    <3> QED
      BY <1>2, <3>1, <3>2 DEF Ends
  <2> HIDE DEF E
  <2>2. IsFiniteSet(Ends(k, said)) /\ Cardinality(Ends(k, said)) \in Nat
    BY <1>1, EndsFinite
  <2>3. Cardinality(E) <= Cardinality(Ends(k, said)) /\ Cardinality(E) \in Nat
    BY <2>1, <2>2, FS_Subset, FS_CardinalityType
  <2>4. EndsCounted(k, said) /\ Len(k.asks) \in Nat
    BY <1>1 DEF Order, Kinds
  <2>5. Cardinality(E) <= Len(k.asks)
    BY <2>2, <2>3, <2>4 DEF EndsCounted
  <2> QED
    BY <2>5 DEF E
<1>5. ASSUME NEW n \in Missing(k)
      PROVE  \/ n \in Overwritten
             \/ \E l \in Answered(k) : n \in l[1]..l[2]
             \/ \E a \in DOMAIN k.asks : n \in k.asks[a].held
  <2>1. Excused(k, n, said)
    BY <1>1 DEF Order
  <2>2. ASSUME NEW a \in (k.from + 1)..k.pos, NEW b \in (k.from + 1)..k.pos, a <= n, n <= b,
               AnswerIn(k, a, b, said)
        PROVE  \E l \in Answered(k) : n \in l[1]..l[2]
    <3>1. IsAnswer(k, <<a, b>>)
      BY <1>2, <2>2 DEF AnswerIn, IsAnswer
    <3>2. a <= b
      BY <2>2 DEF AnswerIn
    <3>3. <<a, b>> \in Answered(k)
      BY <3>1, <3>2 DEF Answered
    <3>4. n \in Int /\ a \in Int /\ b \in Int
      BY <1>1 DEF Missing, Kinds
    <3>5. n \in a..b
      BY <2>2, <3>4
    <3> QED
      BY <3>3, <3>5
  <2> QED
    BY <1>2, <2>1, <2>2 DEF Excused
<1> QED
  BY <1>3, <1>4, <1>5

\* Types, and that the line being typed and the line held have room for a byte:
\* what log_line and rfc2217_echo_filter store.
THEOREM Rfc2217TypeCorrect == Spec => []TypeOK
BY InvHolds, TypeFollows, PTL

\* Both ways the server is transparent: rfc2217_escape and rfc2217_input undo each
\* other, however TCP cuts what is sent.
THEOREM TransparentHolds == Spec => []Transparent
BY InvHolds, TransparentFollows, PTL

\* What a client is not given was overwritten in the ring, was an answer it asked
\* for, or was held when it asked again: rfc2217_echo_filter and rx_since.
THEOREM OnlyEchoMissingHolds == Spec => []OnlyEchoMissing
BY InvHolds, MissingFollows, PTL
=============================================================================
