----------------------------- MODULE LedgerBook -----------------------------
(***************************************************************************)
(* What the general ledger promises: a book that only grows.  A posting is *)
(* entered once, in an open period, under the next number of its period    *)
(* and word, and never changed or removed; the one correction is a second  *)
(* posting that negates the first, at most once, and is final itself.      *)
(***************************************************************************)
EXTENDS Integers, FiniteSets

CONSTANTS Ids, Periods, Words, Lines, NoVoucher

VARIABLES book, locked

Blank == [number |-> 0]

Posting == [lines : Lines, period : Periods, word : Words,
            number : Nat \ {0}, reverses : Ids \cup {NoVoucher}]

Entered == {v \in Ids : book[v] # Blank}

InSeries(p, w) == {v \in Entered : book[v].period = p /\ book[v].word = w}

Init == book = [v \in Ids |-> Blank] /\ locked = {}

(* A reversal negates one posting that is itself no reversal.              *)
ReversesProperly(posting) ==
  posting.reverses # NoVoucher =>
    /\ posting.reverses \in Entered
    /\ book[posting.reverses].reverses = NoVoucher
    /\ posting.lines = -book[posting.reverses].lines
    /\ \A v \in Entered : book[v].reverses # posting.reverses

Enter(v) ==
  /\ book[v] = Blank /\ book'[v] # Blank
  /\ UNCHANGED locked
  /\ \E lines \in Lines, period \in Periods \ locked, word \in Words,
        reverses \in Ids \cup {NoVoucher} :
       LET posting == [lines |-> lines, period |-> period, word |-> word,
                       number |-> Cardinality(InSeries(period, word)) + 1,
                       reverses |-> reverses] IN
       ReversesProperly(posting) /\ book' = [book EXCEPT ![v] = posting]

Lock(p) == p \notin locked /\ locked' = locked \cup {p} /\ UNCHANGED book
Unlock(p) == p \in locked /\ locked' = locked \ {p} /\ UNCHANGED book

Next == (\E v \in Ids : Enter(v)) \/ (\E p \in Periods : Lock(p) \/ Unlock(p))

Spec == Init /\ [][Next]_<<book, locked>>
=============================================================================
