-------------------------- MODULE MCSettingsEditor --------------------------
(* Nine inputs with two slots each: bitmaps of two bytes, rows of codes      *)
(* that the inputs share, and stale codes behind empty slots                 *)
EXTENDS SettingsEditor

A == {0}
B == {1}

\* The inputs at the edges of a bitmap byte
Edges == {1, 8, 9}

\* Addresses of the codes in slot k, of all inputs
Row(k) == {ir_address_addr(n, k, Inputs) : n \in 1..Inputs}

\* The bits of the inputs at the edges, and of one past them, and two rows of
\* codes, empty or not
MCChips ==
  {[a \in Addresses |->
      CASE a \in {AUTO_PROFILE_BASE, RGSB_BASE} -> low
        [] a \in {AUTO_PROFILE_BASE + 1, RGSB_BASE + 1} -> high
        [] a \in Row(0) -> first
        [] a \in Row(1) -> second
        [] OTHER -> B] :
     low \in {{}, {0, 7}}, high \in {{1}, {0, 2}}, first \in {IR_EMPTY, A},
     second \in {IR_EMPTY, A}}

Lists == {<<>>, <<<<B, A>>>>, <<<<A, A>>, <<B, B>>>>}

MCWants ==
  {[n \in 1..Inputs |->
      [auto_profile |-> n = on, rgsb |-> n # on, sync_bypass |-> n = on,
       ir |-> IF n = on THEN mine ELSE others]] :
     on \in Edges, mine \in Lists, others \in Lists}
=============================================================================
