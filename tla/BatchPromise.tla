---------------------------- MODULE BatchPromise ----------------------------
(***************************************************************************)
(* What a batch promises its caller (ServiceScanner.scan_all and           *)
(* Scanner.scan): every job settles on a value of its own, in any order    *)
(* and independently of the others, and when all have settled one report   *)
(* is published that gives job i's value at position i.                    *)
(***************************************************************************)
EXTENDS Sequences

VARIABLES
  given,      \* <<>> or << sequence of the sets of values the jobs may settle on >>
  settled,    \* job -> <<>> or <<value>>
  published   \* <<>> or << job -> value >>

promiseVars == <<given, settled, published>>

Init ==
  /\ given = <<>> /\ settled = <<>> /\ published = <<>>

\* A batch is handed over, whichever it is.
Accept ==
  /\ given = <<>> /\ given' # <<>>
  /\ settled' = [j \in DOMAIN given'[1] |-> <<>>]
  /\ UNCHANGED published

Settle(j) ==
  /\ settled[j] = <<>>
  /\ \E v \in given[1][j] : settled' = [settled EXCEPT ![j] = <<v>>]
  /\ UNCHANGED <<given, published>>

Publish ==
  /\ given # <<>> /\ published = <<>>
  /\ \A j \in DOMAIN given[1] : settled[j] # <<>>
  /\ published' = << [j \in DOMAIN given[1] |-> settled[j][1]] >>
  /\ UNCHANGED <<given, settled>>

Next == Accept \/ Publish \/ \E j \in DOMAIN settled : Settle(j)

Spec == Init /\ [][Next]_promiseVars
=============================================================================
