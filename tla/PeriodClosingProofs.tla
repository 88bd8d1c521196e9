------------------------- MODULE PeriodClosingProofs -------------------------
(***************************************************************************)
(* The closing of months and years, for any number of requests, accounts,  *)
(* amounts, months and years.  What is kept with a closing is in the       *)
(* ledger however requests overlap.  That a closing is complete rests on   *)
(* nobody entering what it has summed while it is under way, and that a    *)
(* locked month stays as it is on nobody locking it under a request.       *)
(***************************************************************************)
EXTENDS PeriodClosing, Sums

-----------------------------------------------------------------------------
(* Months and years.                                                       *)

LEMMA MonthNumbers ==
  /\ IsFiniteSet(Months) /\ Months \subseteq Nat \ {0}
  /\ \A m \in Months : IsFiniteSet(1..m) /\ 1..m \subseteq Months
<1>1. MonthsPerYear * LastYear \in Nat
  BY ClosingAssumption
<1>2. \A m \in Months : m \in Nat \ {0} /\ 1..m \subseteq Months
  BY <1>1 DEF Months
<1>3. IsFiniteSet(Months)
  BY <1>1, FS_Interval DEF Months
<1> QED
  BY <1>2, <1>3, FS_Subset

(* Years end in December, a month of its own.                              *)
LEMMA Decembers ==
  /\ \A y \in Years : December(y) \in Months
  /\ \A x, y \in Years : x < y => December(x) < December(y)
<1>1. \A y \in Years, M \in Nat \ {0} :
        y * M \in Nat \ {0} /\ y * M <= M * LastYear
  BY ClosingAssumption DEF Years
<1>2. \A x, y \in Years, M \in Nat \ {0} : x < y => x * M < y * M
  BY ClosingAssumption DEF Years
<1> QED
  BY <1>1, <1>2, ClosingAssumption DEF December, Months

LEMMA DecemberOnce == \A x, y \in Years : December(x) = December(y) => x = y
<1>1. \A x, y \in Years : x < y \/ y < x \/ x = y
  BY ClosingAssumption DEF Years
<1>2. \A y \in Years : December(y) \in Nat
  BY Decembers, MonthNumbers
<1> QED
  BY <1>1, <1>2, Decembers

-----------------------------------------------------------------------------
(* Sums of entries.                                                        *)

Ledgers == [Sources -> [Codes -> [Months -> Int]]]

(* Sum, of any ledger.                                                     *)
Entries(l, sources, codes, months) ==
  LET entries == sources \X codes \X months IN
  SumFunctionOnSet([e \in entries |-> l[e[1]][e[2]][e[3]]], entries)

LEMMA SumOfLedger ==
  ASSUME NEW sources, NEW codes, NEW months
  PROVE  /\ Sum(sources, codes, months) = Entries(ledger, sources, codes, months)
         /\ Sum(sources, codes, months)' = Entries(ledger', sources, codes, months)
BY DEF Sum, Entries

LEMMA FiniteTriple == \A x, y, z : IsFiniteSet({x, y, z})
<1> TAKE x, y, z
<1>1. IsFiniteSet({x}) /\ IsFiniteSet({x} \cup {y})
  BY FS_Singleton, FS_AddElement
<1>2. IsFiniteSet(({x} \cup {y}) \cup {z}) /\ ({x} \cup {y}) \cup {z} = {x, y, z}
  BY <1>1, FS_AddElement
<1> QED
  BY <1>2

LEMMA FiniteCodes == IsFiniteSet(Codes)
<1>1. IsFiniteSet({"Profit", "Retained", "Retained"})
      /\ {"Profit", "Retained", "Retained"} = {"Profit", "Retained"}
  BY FiniteTriple
<1> QED
  BY <1>1, FS_Union, ClosingAssumption DEF Codes

LEMMA FiniteEntries ==
  ASSUME NEW sources \in SUBSET Sources, NEW codes \in SUBSET Codes, NEW months \in SUBSET Months
  PROVE  IsFiniteSet(sources \X codes \X months)
<1>1. IsFiniteSet(Sources)
  BY FiniteTriple, FS_Union DEF Sources, Posted
<1>3. IsFiniteSet(sources) /\ IsFiniteSet(codes) /\ IsFiniteSet(months)
  BY <1>1, FiniteCodes, MonthNumbers, FS_Subset
<1>4. IsFiniteSet((sources \X codes) \X months)
  <2>1. IsFiniteSet(sources \X codes)
    BY <1>3, FS_Product
  <2> QED
    BY <1>3, <2>1, FS_Product
<1> DEFINE f == [e \in sources \X codes \X months |-> <<<<e[1], e[2]>>, e[3]>>]
<1>5. f \in Injection(sources \X codes \X months, (sources \X codes) \X months)
  BY DEF Injection, IsInjective
<1> QED
  BY <1>4, <1>5, FS_Injection

(* Ledgers that agree on what is summed.                                   *)
LEMMA SameEntries ==
  ASSUME NEW sources \in SUBSET Sources, NEW codes \in SUBSET Codes, NEW months \in SUBSET Months,
         NEW l \in Ledgers, NEW k \in Ledgers,
         \A q \in sources, d \in codes, n \in months : k[q][d][n] = l[q][d][n]
  PROVE  Entries(k, sources, codes, months) = Entries(l, sources, codes, months)
<1> DEFINE S == sources \X codes \X months
           f == [e \in S |-> l[e[1]][e[2]][e[3]]]
           g == [e \in S |-> k[e[1]][e[2]][e[3]]]
<1>1. f = g
  OBVIOUS
<1> QED
  BY <1>1 DEF Entries

(* One entry of a ledger changes, and so does any sum it is part of.       *)
AgreeBut(l, k, sources, codes, months, r, c, m) ==
  \A q \in sources, d \in codes, n \in months :
    <<q, d, n>> # <<r, c, m>> => k[q][d][n] = l[q][d][n]

LEMMA OneEntry ==
  ASSUME NEW sources \in SUBSET Sources, NEW codes \in SUBSET Codes, NEW months \in SUBSET Months,
         NEW l \in Ledgers, NEW k \in Ledgers, NEW r \in sources, NEW c \in codes, NEW m \in months,
         AgreeBut(l, k, sources, codes, months, r, c, m)
  PROVE  Entries(k, sources, codes, months)
           = Entries(l, sources, codes, months) + k[r][c][m] - l[r][c][m]
<1> DEFINE S == sources \X codes \X months
           f == [e \in S |-> l[e[1]][e[2]][e[3]]]
           g == [e \in S |-> k[e[1]][e[2]][e[3]]]
           x == <<r, c, m>>
<1>1. \A e \in S : f[e] \in Int /\ g[e] \in Int
  BY DEF Ledgers
<1>2. \A e \in S \ {x} : f[e] = g[e]
  <2> TAKE e \in S \ {x}
  <2>1. /\ e[1] \in sources /\ e[2] \in codes /\ e[3] \in months
        /\ e = <<e[1], e[2], e[3]>>
    OBVIOUS
  <2>2. k[e[1]][e[2]][e[3]] = l[e[1]][e[2]][e[3]]
    BY <2>1, Zenon DEF AgreeBut
  <2> QED
    BY <2>2
<1>3. x \in S /\ f[x] = l[r][c][m] /\ g[x] = k[r][c][m]
  OBVIOUS
<1>4. IsFiniteSet(S)
  BY FiniteEntries
<1> HIDE DEF S, f, g, x
<1>5. SumFunctionOnSet(g, S) = SumFunctionOnSet(f, S) + g[x] - f[x]
  BY <1>1, <1>2, <1>3, <1>4, SumChange
<1> QED
  BY <1>3, <1>5 DEF Entries, S, f, g

LEMMA EntriesType ==
  ASSUME NEW sources \in SUBSET Sources, NEW codes \in SUBSET Codes, NEW months \in SUBSET Months,
         NEW l \in Ledgers
  PROVE  Entries(l, sources, codes, months) \in Int
<1> DEFINE S == sources \X codes \X months
           f == [e \in S |-> l[e[1]][e[2]][e[3]]]
<1>1. \A e \in S : f[e] \in Int
  BY DEF Ledgers
<1> HIDE DEF f
<1>2. SumFunctionOnSet(f, S) \in Int
  BY <1>1, FiniteEntries, SumType
<1> QED
  BY <1>2 DEF Entries, f

(* A sum of no entries but zeros.                                          *)
LEMMA EntriesZero ==
  ASSUME NEW sources \in SUBSET Sources, NEW codes \in SUBSET Codes, NEW months \in SUBSET Months,
         NEW l, \A r \in sources, c \in codes, m \in months : l[r][c][m] = 0
  PROVE  Entries(l, sources, codes, months) = 0
<1> DEFINE S == sources \X codes \X months
           f == [e \in S |-> l[e[1]][e[2]][e[3]]]
<1>1. \A e \in S : f[e] = 0
  OBVIOUS
<1> HIDE DEF f
<1>2. SumFunctionOnSet(f, S) = 0
  BY <1>1, FiniteEntries, SumZero
<1> QED
  BY <1>2 DEF Entries, f
-----------------------------------------------------------------------------
(* Entering lines.                                                         *)

(* Enter, on each entry.                                                   *)
LEMMA Entering ==
  ASSUME ledger \in Ledgers, NEW r \in Sources, NEW m \in Months, NEW lines \in Voucher,
         Enter(r, m, lines)
  PROVE  /\ ledger' \in Ledgers
         /\ \A q \in Sources, c \in Codes, n \in Months :
              ledger'[q][c][n] = IF q = r /\ n = m THEN ledger[q][c][n] + lines[c]
                                 ELSE ledger[q][c][n]
         /\ active' \subseteq active \cup {m}
<1>1. ledger' = [ledger EXCEPT ![r] =
                   [c \in Codes |-> [ledger[r][c] EXCEPT ![m] = ledger[r][c][m] + lines[c]]]]
  BY DEF Enter
<1>2. \A c \in Codes : /\ ledger[r][c] \in [Months -> Int] /\ lines[c] \in Int
                       /\ ledger[r][c][m] + lines[c] \in Int
  BY DEF Ledgers, Voucher
<1>3. [c \in Codes |-> [ledger[r][c] EXCEPT ![m] = ledger[r][c][m] + lines[c]]]
        \in [Codes -> [Months -> Int]]
  BY <1>2
<1>4. ledger' \in Ledgers
  BY <1>1, <1>3 DEF Ledgers
<1>5. \A q \in Sources, c \in Codes, n \in Months :
        ledger'[q][c][n] = IF q = r /\ n = m THEN ledger[q][c][n] + lines[c]
                           ELSE ledger[q][c][n]
  BY <1>1, <1>2 DEF Ledgers
<1>6. active' = active \/ active' = active \cup {m}
  BY Zenon DEF Enter
<1>7. active' \subseteq active \cup {m}
  BY <1>6
<1> QED
  BY <1>4, <1>5, <1>7, Zenon

LEMMA CodeNames ==
  /\ "Profit" \in Codes /\ "Retained" \in Codes /\ Accounts \subseteq Codes
  /\ \A c \in Codes : c \in Accounts <=> c # "Profit" /\ c # "Retained"
  /\ Posted \subseteq Sources /\ "period_closing" \in Sources /\ "annual_closing" \in Sources
  /\ "opening_balance" \in Sources
BY ClosingAssumption DEF Codes, Sources

(* What the lines of a voucher do to a sum and to a balance.               *)
LEMMA SumEntered ==
  ASSUME ledger \in Ledgers, NEW r \in Sources, NEW m \in Months, NEW lines \in Voucher,
         Enter(r, m, lines), NEW c \in Codes,
         NEW sources \in SUBSET Sources, NEW months \in SUBSET Months
  PROVE  Sum(sources, {c}, months)' =
           IF r \in sources /\ m \in months THEN Sum(sources, {c}, months) + lines[c]
           ELSE Sum(sources, {c}, months)
<1> DEFINE C == {c}
<1>1. C \in SUBSET Codes /\ c \in C /\ \A d \in C : d = c
  OBVIOUS
<1> HIDE DEF C
<1>2. /\ ledger' \in Ledgers
      /\ \A q \in Sources, d \in Codes, k \in Months :
           ledger'[q][d][k] = IF q = r /\ k = m THEN ledger[q][d][k] + lines[d]
                              ELSE ledger[q][d][k]
  BY Entering
<1>3. ledger'[r][c][m] = ledger[r][c][m] + lines[c] /\ lines[c] \in Int /\ ledger[r][c][m] \in Int
  BY <1>2 DEF Ledgers, Voucher
<1>4. Entries(ledger, sources, C, months) \in Int
  BY <1>1, EntriesType
<1>5. CASE r \in sources /\ m \in months
  <2>1. AgreeBut(ledger, ledger', sources, C, months, r, c, m)
    BY <1>1, <1>2 DEF AgreeBut
  <2>2. Entries(ledger', sources, C, months)
          = Entries(ledger, sources, C, months) + ledger'[r][c][m] - ledger[r][c][m]
    BY <1>1, <1>2, <1>5, <2>1, OneEntry
  <2>3. Entries(ledger', sources, C, months) = Entries(ledger, sources, C, months) + lines[c]
    BY <1>3, <1>4, <2>2
  <2> QED
    BY <1>5, <2>3, SumOfLedger, Zenon DEF C
<1>6. CASE ~(r \in sources /\ m \in months)
  <2>1. \A q \in sources, d \in C, n \in months : ledger'[q][d][n] = ledger[q][d][n]
    BY <1>1, <1>2, <1>6
  <2>2. Entries(ledger', sources, C, months) = Entries(ledger, sources, C, months)
    BY <1>1, <1>2, <2>1, SameEntries
  <2> QED
    BY <1>6, <2>2, SumOfLedger, Zenon DEF C
<1> QED
  BY <1>5, <1>6

LEMMA BalanceEntered ==
  ASSUME ledger \in Ledgers, NEW r \in Sources, NEW m \in Months, NEW lines \in Voucher,
         Enter(r, m, lines), NEW c \in Codes, NEW n \in Months
  PROVE  Balance(c, n)' = IF m <= n THEN Balance(c, n) + lines[c] ELSE Balance(c, n)
<1> DEFINE M == 1..n
<1>1. M \in SUBSET Months /\ (m \in M <=> m <= n)
  BY MonthNumbers
<1> HIDE DEF M
<1>2. Sum(Sources, {c}, M)' = IF r \in Sources /\ m \in M THEN Sum(Sources, {c}, M) + lines[c]
                              ELSE Sum(Sources, {c}, M)
  BY <1>1, SumEntered
<1> QED
  BY <1>1, <1>2, Zenon DEF Balance, M

LEMMA BalanceType ==
  ASSUME ledger \in Ledgers, NEW c \in Codes, NEW n \in Months
  PROVE  Balance(c, n) \in Int
<1> DEFINE M == 1..n
<1>1. {c} \in SUBSET Codes /\ M \in SUBSET Months
  BY MonthNumbers
<1> HIDE DEF M
<1>2. Entries(ledger, Sources, {c}, M) \in Int
  BY <1>1, EntriesType
<1> QED
  BY <1>2, SumOfLedger, Zenon DEF Balance, M

LEMMA BalanceKept ==
  ASSUME ledger' = ledger, NEW c, NEW n
  PROVE  Balance(c, n)' = Balance(c, n)
BY SumOfLedger DEF Balance

-----------------------------------------------------------------------------
(* Types.                                                                  *)

LEMMA Nothing == DOMAIN << >> = {} /\ \A S : << >> \in [{} -> S]
OBVIOUS

LEMMA CallShape ==
  ASSUME NEW call \in Requests
  PROVE  /\ call.op = "month" => call \in MonthClosing
         /\ call.op = "year" => call \in YearClosing
         /\ call.op = "open" => call \in Opening
         /\ call.op \in {"reverse", "lines", "draft"} => call \in Reversing
         /\ call # Idle <=> call.op # "idle"
BY DEF Requests, MonthClosing, YearClosing, Opening, Reversing, Idle

OpeningShape ==
  opening = << >> \/ \E m \in Months, b \in OpeningAmounts : opening = [x \in {m} |-> b]

LEMMA TypeInit == Init => TypeOK /\ OpeningShape
<1> SUFFICES ASSUME Init PROVE TypeOK /\ OpeningShape
  OBVIOUS
<1>1. ledger \in [Sources -> [Codes -> [Months -> Int]]]
  BY DEF Init
<1>2. slot \in [Slots -> Requests]
  BY DEF Init, Requests, Idle
<1>3. posts \in 0..MaxPosts
  BY ClosingAssumption DEF Init
<1> QED
  BY <1>1, <1>2, <1>3, Nothing DEF Init, TypeOK, OpeningShape, ClosedMonths, ClosedYears

(* A step that enters the lines of a reversal or of a voucher, no more.    *)
LEMMA TypeEntered ==
  ASSUME TypeOK, OpeningShape, NEW r \in Sources, NEW m \in Months, NEW lines \in Voucher,
         Enter(r, m, lines), UNCHANGED <<locked, closing, annual, opening, slot>>,
         posts' \in 0..MaxPosts, reversed' = reversed, drafts' \subseteq drafts
  PROVE  TypeOK' /\ OpeningShape'
<1>1. ledger' \in Ledgers /\ active' \subseteq active \cup {m}
  BY Entering DEF TypeOK, Ledgers
<1> QED
  BY <1>1 DEF TypeOK, OpeningShape, ClosedMonths, ClosedYears, Ledgers

(* A step that changes nothing but a call.                                 *)
LEMMA TypeCalled ==
  ASSUME TypeOK, OpeningShape, UNCHANGED <<rows, locked>>, NEW s \in Slots, NEW call \in Requests,
         slot' = [slot EXCEPT ![s] = call]
  PROVE  TypeOK' /\ OpeningShape'
BY DEF TypeOK, OpeningShape, ClosedMonths, ClosedYears, rows

(* What is read of a voucher that is to be reversed.                       *)
LEMMA ReversalType ==
  ASSUME TypeOK, NEW id \in Ids
  PROVE  Dated(id) \subseteq Months /\ ReversalLines(id) \in Voucher
<1> DEFINE M == Dated(id)
<1>1. M \in SUBSET Months
  BY DEF Dated, Ids, TypeOK
<1>2. id[1] \in Sources
  BY CodeNames DEF Ids, OpeningId
<1>3. ledger \in Ledgers
  BY DEF TypeOK, Ledgers
<1> HIDE DEF M
<1>4. \A c \in Codes : Sum({id[1]}, {c}, M) \in Int
  <2> TAKE c \in Codes
  <2>1. Entries(ledger, {id[1]}, {c}, M) \in Int
    BY <1>1, <1>2, <1>3, EntriesType
  <2> QED
    BY <2>1, SumOfLedger
<1> QED
  BY <1>1, <1>4 DEF ReversalLines, Voucher, M

(* Until it is inserted a reversal is what its request has read.           *)
ReversalReads(s) ==
  (\E id \in Ids : ReverseVoucher(s, id)) \/ ReverseLines(s) \/ ReverseCheck(s)

LEMMA ReadsShape ==
  ASSUME TypeOK, NEW s \in Slots, ReversalReads(s)
  PROVE  /\ UNCHANGED <<rows, locked>>
         /\ \E call \in Reversing : slot' = [slot EXCEPT ![s] = call]
<1>1. ASSUME NEW id \in Ids, ReverseVoucher(s, id)
      PROVE  \E call \in Reversing : slot' = [slot EXCEPT ![s] = call]
  <2>1. [op |-> "reverse", of |-> id] \in Reversing
    BY DEF Reversing
  <2> QED
    BY <1>1, <2>1 DEF ReverseVoucher
<1>2. ASSUME ReverseLines(s)
      PROVE  \E call \in Reversing : slot' = [slot EXCEPT ![s] = call]
  <2> DEFINE id == slot[s].of
             lines == ReversalLines(id)
  <2>1. slot[s] \in Reversing
    BY <1>2, CallShape DEF ReverseLines, TypeOK
  <2>2. id \in Ids
    BY <2>1 DEF Reversing
  <2>3. slot' = [slot EXCEPT ![s] = [op |-> "lines", of |-> id, lines |-> lines]]
    BY <1>2 DEF ReverseLines
  <2> HIDE DEF id
  <2>4. lines \in Voucher
    BY <2>2, ReversalType
  <2> HIDE DEF lines
  <2>5. [op |-> "lines", of |-> id, lines |-> lines] \in Reversing
    BY <2>2, <2>4 DEF Reversing
  <2> QED
    BY <2>3, <2>5
<1>3. ASSUME ReverseCheck(s)
      PROVE  \E call \in Reversing : slot' = [slot EXCEPT ![s] = call]
  <2> DEFINE call == [slot[s] EXCEPT !.op = "draft"]
  <2>1. slot[s] \in Reversing /\ slot[s].op = "lines"
    BY <1>3, CallShape DEF ReverseCheck, TypeOK
  <2>2. slot[s] \in [op : {"lines", "draft"}, of : Ids, lines : Voucher]
    BY <2>1 DEF Reversing
  <2>3. call \in Reversing
    BY <2>2 DEF Reversing
  <2>4. slot' = [slot EXCEPT ![s] = call]
    BY <1>3 DEF ReverseCheck
  <2> QED
    BY <2>3, <2>4
<1>4. UNCHANGED <<rows, locked>>
  BY DEF ReversalReads, ReverseVoucher, ReverseLines, ReverseCheck
<1> QED
  BY <1>1, <1>2, <1>3, <1>4 DEF ReversalReads

LEMMA InsertedShape ==
  ASSUME TypeOK, NEW s \in Slots, NEW today \in Months, ReverseCommit(s, today)
  PROVE  \E d \in Drafts :
           /\ d.of = slot[s].of /\ d.lines = slot[s].lines /\ d.of \notin reversed
           /\ Dated(d.of) # {}
           /\ drafts' = drafts \cup {d} /\ reversed' = reversed \cup {d.of}
           /\ slot' = [slot EXCEPT ![s] = Idle]
           /\ UNCHANGED <<ledger, active, locked, closing, annual, opening, posts>>
<1> DEFINE d == [of |-> slot[s].of, month |-> today, lines |-> slot[s].lines]
<1>1. slot[s] \in Reversing /\ slot[s].op = "draft"
  BY CallShape DEF ReverseCommit, TypeOK
<1>2. slot[s] \in [op : {"lines", "draft"}, of : Ids, lines : Voucher]
  BY <1>1 DEF Reversing
<1>3. d \in Drafts /\ d.of = slot[s].of /\ d.lines = slot[s].lines
  BY <1>2 DEF Drafts
<1>4. /\ slot[s].of \notin reversed /\ Dated(slot[s].of) # {}
      /\ drafts' = drafts \cup {d} /\ reversed' = reversed \cup {slot[s].of}
      /\ slot' = [slot EXCEPT ![s] = Idle]
      /\ UNCHANGED <<ledger, active, locked, closing, annual, opening, posts>>
  BY DEF ReverseCommit, ReversalRefused, Answer
<1> HIDE DEF d
<1> QED
  BY <1>3, <1>4

(* The source a reversal's entries are of.                                 *)
SourceOf(d) == IF d.of = OpeningId THEN "opening_reversal" ELSE "closing_reversal"

LEMMA ReversalEntered ==
  ASSUME TypeOK, NEW s, NEW d \in drafts, PostReversal(s, d)
  PROVE  /\ SourceOf(d) \in Sources /\ d.month \in Months /\ d.lines \in Voucher
         /\ Enter(SourceOf(d), d.month, d.lines) /\ d.month \notin locked
         /\ drafts' = drafts \ {d}
         /\ UNCHANGED <<locked, closing, annual, opening, reversed, posts, slot>>
<1>1. d \in Drafts
  BY DEF TypeOK
<1>2. SourceOf(d) \in Sources
  BY CodeNames DEF SourceOf, Posted
<1> QED
  BY <1>1, <1>2 DEF PostReversal, Drafts, SourceOf, IsLocked

LEMMA TypeStep == TypeOK /\ OpeningShape /\ [Next]_vars => TypeOK' /\ OpeningShape'
<1> SUFFICES ASSUME TypeOK, OpeningShape, [Next]_vars PROVE TypeOK' /\ OpeningShape'
  OBVIOUS
<1>0. CASE UNCHANGED vars
  BY <1>0 DEF TypeOK, OpeningShape, ClosedMonths, ClosedYears, vars
<1> SUFFICES ASSUME NEW s \in Slots, Serve(s) PROVE TypeOK' /\ OpeningShape'
  BY <1>0 DEF Next
<1>a. ledger \in Ledgers /\ slot[s] \in Requests /\ Idle \in Requests
  BY DEF TypeOK, Ledgers, Requests, Idle
<1>1. ASSUME NEW a \in Accounts, NEW amount \in Amounts, NEW m \in Months,
             PostVoucher(s, a, amount, m)
      PROVE  TypeOK' /\ OpeningShape'
  <2>1. Lines({a}, [x \in {a} |-> amount]) \in Voucher
    BY ClosingAssumption DEF Lines, Voucher
  <2>2. posts' \in 0..MaxPosts
    BY <1>1, ClosingAssumption DEF PostVoucher, TypeOK
  <2> QED
    BY <1>1, <2>1, <2>2, TypeEntered DEF PostVoucher, TypeOK, Sources, Posted
<1>2. CASE ReversalReads(s)
  <2>1. PICK call \in Reversing : slot' = [slot EXCEPT ![s] = call]
    BY <1>2, ReadsShape
  <2>2. call \in Requests /\ UNCHANGED <<rows, locked>>
    BY <1>2, ReadsShape DEF Requests
  <2> QED
    BY <2>1, <2>2, TypeCalled
<1>3. ASSUME NEW today \in Todays, ReverseCommit(s, today) PROVE TypeOK' /\ OpeningShape'
  <2>1. today \in Months
    BY ClosingAssumption
  <2>2. PICK d \in Drafts :
          /\ d.of \notin reversed
          /\ drafts' = drafts \cup {d} /\ reversed' = reversed \cup {d.of}
          /\ slot' = [slot EXCEPT ![s] = Idle]
          /\ UNCHANGED <<ledger, active, locked, closing, annual, opening, posts>>
    BY <1>3, <2>1, InsertedShape
  <2>3. slot' \in [Slots -> Requests]
    BY <1>a, <2>2 DEF TypeOK
  <2>4. /\ reversed' \subseteq Ids /\ drafts' \subseteq Drafts
        /\ \A e \in drafts' : e.of \in reversed' /\ \A f \in drafts' : f.of = e.of => f = e
    BY <2>2 DEF TypeOK, Drafts
  <2>5. OpeningShape'
    BY <2>2 DEF OpeningShape
  <2>6. /\ UNCHANGED <<ledger, active, locked, closing, annual, opening, posts>>
        /\ ClosedMonths' = ClosedMonths /\ ClosedYears' = ClosedYears
    BY <2>2 DEF ClosedMonths, ClosedYears
  <2> QED
    BY <2>3, <2>4, <2>5, <2>6 DEF TypeOK
<1>4. ASSUME NEW d \in drafts, PostReversal(s, d) PROVE TypeOK' /\ OpeningShape'
  <2>1. posts \in 0..MaxPosts
    BY DEF TypeOK
  <2> QED
    BY <1>4, <2>1, ReversalEntered, TypeEntered
<1>5. ASSUME NEW m \in Months, NEW amount \in OpeningAmounts, PostOpeningRead(s, m, amount)
      PROVE  TypeOK' /\ OpeningShape'
  <2>1. [op |-> "open", month |-> m, amount |-> amount] \in Requests
    BY DEF Requests, Opening
  <2> QED
    BY <1>5, <2>1, TypeCalled DEF PostOpeningRead
<1>6. CASE PostOpeningCommit(s)
  <2> DEFINE m == slot[s].month
             b == slot[s].amount
  <2>1. m \in Months /\ b \in OpeningAmounts /\ b \in Int
    BY <1>a, <1>6, CallShape, ClosingAssumption DEF PostOpeningCommit, Opening
  <2>2. /\ Enter("opening_balance", m, Lines({"Retained"}, [Retained |-> b]))
        /\ opening = << >> /\ opening' = [x \in {m} |-> b]
        /\ slot' = [slot EXCEPT ![s] = Idle]
        /\ UNCHANGED <<locked, closing, annual, reversed, drafts, posts>>
    BY <1>6 DEF PostOpeningCommit, Answer
  <2> HIDE DEF m, b
  <2>3. Lines({"Retained"}, [Retained |-> b]) \in Voucher
    BY <2>1 DEF Lines, Voucher
  <2>4. ledger' \in Ledgers /\ active' \subseteq active \cup {m}
    BY <1>a, <2>1, <2>2, <2>3, CodeNames, Entering
  <2>5. slot' \in [Slots -> Requests]
    BY <1>a, <2>2 DEF TypeOK
  <2> QED
    BY <2>1, <2>2, <2>4, <2>5
    DEF TypeOK, OpeningShape, ClosedMonths, ClosedYears, Ledgers
<1>7. CASE DeleteOpeningRead(s)
  <2>1. [op |-> "delete"] \in Requests
    BY DEF Requests
  <2> QED
    BY <1>7, <2>1, TypeCalled DEF DeleteOpeningRead
<1>8. CASE DeleteOpeningCommit(s)
  <2>1. /\ ledger' = [ledger EXCEPT !["opening_balance"] = [c \in Codes |-> [m \in Months |-> 0]]]
        /\ opening' = << >> /\ slot' = [slot EXCEPT ![s] = Idle]
        /\ UNCHANGED <<active, locked, closing, annual, reversed, drafts, posts>>
        /\ OpeningId \notin reversed
    BY <1>8 DEF DeleteOpeningCommit, Answer, OpeningKept
  <2>2. ledger' \in Ledgers /\ slot' \in [Slots -> Requests]
    <3>1. [c \in Codes |-> [m \in Months |-> 0]] \in [Codes -> [Months -> Int]]
      OBVIOUS
    <3> QED
      BY <1>a, <2>1, <3>1 DEF Ledgers, TypeOK
  <2> QED
    BY <2>1, <2>2, Nothing DEF TypeOK, OpeningShape, ClosedMonths, ClosedYears, Ledgers
<1>9. ASSUME NEW m \in Months, ClosePeriodRead(s, m) PROVE TypeOK' /\ OpeningShape'
  <2> DEFINE moved == [a \in Accounts |-> UnclosedBalance(a, m)]
  <2>1. moved \in [Accounts -> Int]
    BY <1>a, CodeNames, BalanceType DEF UnclosedBalance
  <2>2. slot' = [slot EXCEPT ![s] = [op |-> "month", month |-> m, moved |-> moved]]
        /\ UNCHANGED <<rows, locked>>
    BY <1>9 DEF ClosePeriodRead
  <2> HIDE DEF moved
  <2>3. [op |-> "month", month |-> m, moved |-> moved] \in Requests
    BY <2>1 DEF Requests, MonthClosing
  <2> QED
    BY <2>2, <2>3, TypeCalled
<1>10. CASE ClosePeriodCommit(s)
  <2> DEFINE m     == slot[s].month
             moved == slot[s].moved
             total == SumFunctionOnSet(moved, Accounts)
             lines == [c \in Codes |-> IF c \in Accounts THEN -moved[c]
                                       ELSE IF c = "Profit" THEN total ELSE 0]
  <2>1. m \in Months /\ moved \in [Accounts -> Int]
    BY <1>a, <1>10, CallShape DEF ClosePeriodCommit, MonthClosing
  <2>2. /\ Enter("period_closing", m, lines)
        /\ closing' = [x \in ClosedMonths \cup {m} |-> IF x = m THEN -total ELSE closing[x]]
        /\ slot' = [slot EXCEPT ![s] = Idle]
        /\ UNCHANGED <<locked, annual, opening, reversed, drafts, posts>>
    BY <1>10 DEF ClosePeriodCommit, Answer
  <2> HIDE DEF m, moved
  <2>3. total \in Int
    BY <2>1, SumType, ClosingAssumption
  <2> HIDE DEF total
  <2>4. lines \in Voucher
    BY <2>1, <2>3 DEF Voucher
  <2> HIDE DEF lines
  <2>5. ledger' \in Ledgers /\ active' \subseteq active \cup {m}
    BY <1>a, <2>1, <2>2, <2>4, CodeNames, Entering
  <2>6. slot' \in [Slots -> Requests]
    BY <1>a, <2>2 DEF TypeOK
  <2>7. ClosedMonths' = ClosedMonths \cup {m} /\ closing' \in [ClosedMonths' -> Int]
    BY <2>2, <2>3 DEF TypeOK, ClosedMonths
  <2> QED
    BY <2>1, <2>2, <2>5, <2>6, <2>7 DEF TypeOK, OpeningShape, ClosedYears, Ledgers
<1>11. ASSUME NEW y \in Years, CloseFiscalYearRead(s, y) PROVE TypeOK' /\ OpeningShape'
  <2>1. CarriedProfit(y) \in Int
    BY <1>a, CodeNames, BalanceType, Decembers DEF CarriedProfit
  <2>2. [op |-> "year", year |-> y, balance |-> CarriedProfit(y)] \in Requests
    BY <2>1 DEF Requests, YearClosing
  <2> QED
    BY <1>11, <2>2, TypeCalled DEF CloseFiscalYearRead
<1>12. CASE CloseFiscalYearCommit(s)
  <2> DEFINE y == slot[s].year
             b == slot[s].balance
             lines == Lines({"Profit", "Retained"}, [Profit |-> -b, Retained |-> b])
  <2>1. y \in Years /\ b \in Int
    BY <1>a, <1>12, CallShape DEF CloseFiscalYearCommit, YearClosing
  <2>2. /\ UNCHANGED <<ledger, active>> \/ Enter("annual_closing", December(y), lines)
        /\ annual' = [x \in ClosedYears \cup {y} |-> IF x = y THEN -b ELSE annual[x]]
        /\ slot' = [slot EXCEPT ![s] = Idle]
        /\ UNCHANGED <<locked, closing, opening, reversed, drafts, posts>>
    BY <1>12 DEF CloseFiscalYearCommit, Answer
  <2> HIDE DEF y, b
  <2>3. lines \in Voucher
    BY <2>1 DEF Lines, Voucher
  <2> HIDE DEF lines
  <2>4. December(y) \in Months
    BY <2>1, Decembers
  <2>5. ledger' \in Ledgers /\ active' \subseteq active \cup {December(y)}
    BY <1>a, <2>2, <2>3, <2>4, CodeNames, Entering
  <2>6. slot' \in [Slots -> Requests]
    BY <1>a, <2>2 DEF TypeOK
  <2>7. ClosedYears' = ClosedYears \cup {y} /\ annual' \in [ClosedYears' -> Int]
    BY <2>1, <2>2 DEF TypeOK, ClosedYears
  <2> QED
    BY <2>1, <2>2, <2>4, <2>5, <2>6, <2>7 DEF TypeOK, OpeningShape, ClosedMonths, Ledgers
<1>13. CASE Abandon(s)
  BY <1>a, <1>13, TypeCalled DEF Abandon, Answer
<1>14. ASSUME NEW m \in Lockable,
              LockAccountingPeriod(s, m) \/ UnlockAccountingPeriod(s, m)
       PROVE  TypeOK' /\ OpeningShape'
  BY <1>14, ClosingAssumption DEF LockAccountingPeriod, UnlockAccountingPeriod, rows, TypeOK,
     OpeningShape, ClosedMonths, ClosedYears
<1> QED
  BY <1>1, <1>2, <1>3, <1>4, <1>5, <1>6, <1>7, <1>8, <1>9, <1>10, <1>11, <1>12, <1>13, <1>14
  DEF Serve, ReversalReads

(* Every variable keeps its type.                                          *)
THEOREM TypeCorrect == Spec => []TypeOK
BY TypeInit, TypeStep, PTL DEF Spec

-----------------------------------------------------------------------------
(* What is in the ledger of closings and of the opening.                   *)

(* A month's closing nets to zero, and moves to Profit what is kept of it. *)
ClosingRows ==
  \A m \in Months :
    /\ ledger["period_closing"]["Retained"][m] = 0
    /\ SumFunctionOnSet([a \in Accounts |-> ledger["period_closing"][a][m]], Accounts)
         + ledger["period_closing"]["Profit"][m] = 0
    /\ m \in ClosedMonths => ledger["period_closing"]["Profit"][m] = -closing[m]
    /\ m \notin ClosedMonths => \A c \in Codes : ledger["period_closing"][c][m] = 0

(* A year's moves what is kept of it from Profit to Retained, in December. *)
AnnualRows ==
  /\ \A y \in Years : ledger["annual_closing"]["Profit"][December(y)] =
       IF y \in ClosedYears THEN annual[y] ELSE 0
  /\ \A m \in Months :
       /\ \A a \in Accounts : ledger["annual_closing"][a][m] = 0
       /\ ledger["annual_closing"]["Profit"][m] # 0 => \E y \in ClosedYears : m = December(y)
       /\ ledger["annual_closing"]["Retained"][m] = -ledger["annual_closing"]["Profit"][m]

(* Entries of the opening are those of the opening voucher there is, and   *)
(* of its reversal there are none until that is posted.                    *)
OpeningRows ==
  /\ \A m \in Months, c \in Codes : ledger["opening_balance"][c][m] =
       IF c = "Retained" /\ m \in DOMAIN opening THEN opening[m] ELSE 0
  /\ \A m \in Months, c \in Codes :
       \/ c # "Retained" \/ OpeningId \notin reversed \/ \E d \in drafts : d.of = OpeningId
       => ledger["opening_reversal"][c][m] = 0
  /\ OpeningId \in reversed => opening # << >>

(* What a reversal of the opening may say: some opening's lines, or none.  *)
Stale == {Lines({"Retained"}, [Retained |-> -b]) : b \in {0} \cup OpeningAmounts}

ReversalLinesRead ==
  \A s \in Slots :
    slot[s].op \in {"lines", "draft"} /\ slot[s].of = OpeningId => slot[s].lines \in Stale

ReversalLinesDrafted == \A d \in drafts : d.of = OpeningId => d.lines \in Stale

(* The lock of a year's row lets one request at a time close the year.     *)
YearsLocked ==
  \A s \in Slots : slot[s].op = "year" =>
    /\ slot[s].year \notin ClosedYears
    /\ \A t \in Slots : slot[t].op = "year" /\ slot[t].year = slot[s].year => s = t

IInv ==
  /\ TypeOK /\ OpeningShape
  /\ ClosingRows /\ AnnualRows /\ OpeningRows /\ YearsLocked
  /\ ReversalLinesRead /\ ReversalLinesDrafted /\ OpeningInLedger

(* Which steps enter lines of which source.                                *)
LEMMA OtherSources ==
  ASSUME ledger \in Ledgers, NEW r, NEW m, NEW lines, Enter(r, m, lines)
  PROVE  \A q \in Sources \ {r} : ledger'[q] = ledger[q]
BY DEF Enter, Ledgers

ClosingsKept == ledger'["period_closing"] = ledger["period_closing"] /\ closing' = closing
AnnualsKept  == ledger'["annual_closing"] = ledger["annual_closing"] /\ annual' = annual
OpeningsKept ==
  /\ ledger'["opening_balance"] = ledger["opening_balance"]
  /\ ledger'["opening_reversal"] = ledger["opening_reversal"]
  /\ opening' = opening
  /\ reversed' = reversed /\ drafts' = drafts

LEMMA LedgerSteps ==
  ASSUME TypeOK, [Next]_vars
  PROVE  /\ ClosingsKept \/ \E s \in Slots : ClosePeriodCommit(s)
         /\ AnnualsKept \/ \E s \in Slots : CloseFiscalYearCommit(s)
         /\ \/ OpeningsKept
            \/ \E s \in Slots : \/ PostOpeningCommit(s) \/ DeleteOpeningCommit(s)
                                \/ \E today \in Todays : ReverseCommit(s, today)
                                \/ \E d \in drafts : PostReversal(s, d)
<1> DEFINE Goal == /\ ClosingsKept \/ \E s \in Slots : ClosePeriodCommit(s)
                   /\ AnnualsKept \/ \E s \in Slots : CloseFiscalYearCommit(s)
                   /\ \/ OpeningsKept
                      \/ \E s \in Slots : \/ PostOpeningCommit(s) \/ DeleteOpeningCommit(s)
                                          \/ \E today \in Todays : ReverseCommit(s, today)
                                          \/ \E d \in drafts : PostReversal(s, d)
<1> USE DEF ClosingsKept, AnnualsKept, OpeningsKept
<1>a. ledger \in Ledgers
  BY DEF TypeOK, Ledgers
<1>0. CASE UNCHANGED vars
  BY <1>0 DEF vars
<1> SUFFICES ASSUME NEW s \in Slots, Serve(s) PROVE Goal
  BY <1>0 DEF Next
<1>b. \A r \in Sources : (\E m, lines : Enter(r, m, lines))
                         => \A q \in Sources \ {r} : ledger'[q] = ledger[q]
  BY <1>a, OtherSources
<1>c. /\ \A q \in {"voucher", "closing_reversal", "period_closing", "annual_closing",
                   "opening_balance", "opening_reversal"} : q \in Sources
  BY DEF Sources, Posted
<1>1. ASSUME NEW a \in Accounts, NEW amount \in Amounts, NEW m \in Months,
             PostVoucher(s, a, amount, m)
      PROVE  Goal
  <2>1. \A q \in Sources \ {"voucher"} : ledger'[q] = ledger[q]
    BY <1>b, <1>c, <1>1 DEF PostVoucher
  <2> QED
    BY <1>1, <1>c, <2>1 DEF PostVoucher
<1>2. CASE ReversalReads(s)
  BY <1>2, ReadsShape DEF rows
<1>3. ASSUME NEW today \in Todays, ReverseCommit(s, today) PROVE Goal
  BY <1>3 DEF ReverseCommit
<1>4. ASSUME NEW d \in drafts, PostReversal(s, d) PROVE Goal
  <2>1. \A q \in Sources \ {SourceOf(d)} : ledger'[q] = ledger[q]
    BY <1>b, <1>4, ReversalEntered
  <2>2. ledger'["period_closing"] = ledger["period_closing"]
        /\ ledger'["annual_closing"] = ledger["annual_closing"]
    BY <1>c, <2>1 DEF SourceOf
  <2> QED
    BY <1>4, <2>2, ReversalEntered
<1>5. CASE PostOpeningCommit(s)
  <2>1. \A q \in Sources \ {"opening_balance"} : ledger'[q] = ledger[q]
    BY <1>b, <1>c, <1>5 DEF PostOpeningCommit
  <2> QED
    BY <1>5, <1>c, <2>1 DEF PostOpeningCommit
<1>6. CASE DeleteOpeningCommit(s)
  <2>1. \A q \in Sources \ {"opening_balance"} : ledger'[q] = ledger[q]
    BY <1>a, <1>6 DEF DeleteOpeningCommit, Ledgers
  <2> QED
    BY <1>6, <1>c, <2>1 DEF DeleteOpeningCommit
<1>7. CASE ClosePeriodCommit(s)
  <2>1. \A q \in Sources \ {"period_closing"} : ledger'[q] = ledger[q]
    BY <1>b, <1>c, <1>7 DEF ClosePeriodCommit
  <2> QED
    BY <1>7, <1>c, <2>1 DEF ClosePeriodCommit
<1>8. CASE CloseFiscalYearCommit(s)
  <2>1. \A q \in Sources \ {"annual_closing"} : ledger'[q] = ledger[q]
    BY <1>b, <1>c, <1>8 DEF CloseFiscalYearCommit
  <2> QED
    BY <1>8, <1>c, <2>1 DEF CloseFiscalYearCommit
<1>9. CASE UNCHANGED rows
  BY <1>9 DEF rows
<1> QED
  BY <1>1, <1>2, <1>3, <1>4, <1>5, <1>6, <1>7, <1>8, <1>9
  DEF Serve, ReversalReads, PostOpeningRead, DeleteOpeningRead, ClosePeriodRead,
      CloseFiscalYearRead, Abandon, LockAccountingPeriod, UnlockAccountingPeriod

LEMMA ClosingStep ==
  ASSUME IInv, [Next]_vars
  PROVE  ClosingRows'
<1>1. CASE ClosingsKept
  BY <1>1 DEF ClosingsKept, ClosingRows, ClosedMonths, IInv
<1>2. ASSUME NEW s \in Slots, ClosePeriodCommit(s) PROVE ClosingRows'
  <2> DEFINE m     == slot[s].month
             moved == slot[s].moved
             total == SumFunctionOnSet(moved, Accounts)
             lines == [c \in Codes |-> IF c \in Accounts THEN -moved[c]
                                       ELSE IF c = "Profit" THEN total ELSE 0]
  <2>1. m \in Months /\ moved \in [Accounts -> Int]
    <3>1. slot[s] \in Requests /\ slot[s].op = "month"
      BY <1>2 DEF ClosePeriodCommit, IInv, TypeOK
    <3> QED
      BY <3>1, CallShape DEF MonthClosing
  <2>2. /\ Enter("period_closing", m, lines) /\ m \notin ClosedMonths
        /\ closing' = [x \in ClosedMonths \cup {m} |-> IF x = m THEN -total ELSE closing[x]]
    BY <1>2 DEF ClosePeriodCommit, MonthRefused
  <2> HIDE DEF m, moved
  <2>3. total \in Int
    BY <2>1, SumType, ClosingAssumption
  <2>4. /\ \A a \in Accounts : lines[a] = -moved[a]
        /\ lines["Profit"] = total /\ lines["Retained"] = 0
    BY CodeNames
  <2> HIDE DEF total
  <2>5. lines \in Voucher
    BY <2>1, <2>3 DEF Voucher
  <2> HIDE DEF lines
  <2>6. \A c \in Codes, n \in Months :
          ledger'["period_closing"][c][n] =
            IF n = m THEN ledger["period_closing"][c][n] + lines[c]
            ELSE ledger["period_closing"][c][n]
    BY <2>1, <2>2, <2>5, CodeNames, Entering DEF IInv, TypeOK, Ledgers
  <2>7. \A c \in Codes : ledger'["period_closing"][c][m] = lines[c]
    <3>1. \A c \in Codes : ledger["period_closing"][c][m] = 0
      BY <2>1, <2>2 DEF IInv, ClosingRows
    <3>2. \A c \in Codes : lines[c] \in Int
      BY <2>5 DEF Voucher
    <3> QED
      BY <2>1, <2>6, <3>1, <3>2
  <2>8. /\ ClosedMonths' = ClosedMonths \cup {m} /\ closing'[m] = -total
        /\ \A n \in ClosedMonths : closing'[n] = closing[n]
    BY <2>2 DEF ClosedMonths
  <2>9. SumFunctionOnSet([a \in Accounts |-> ledger'["period_closing"][a][m]], Accounts) = -total
    <3> DEFINE g == [a \in Accounts |-> ledger'["period_closing"][a][m]]
    <3>1. \A a \in Accounts : moved[a] \in Int /\ g[a] = -moved[a]
      BY <2>1, <2>4, <2>7, CodeNames
    <3> HIDE DEF g
    <3>2. SumFunctionOnSet(g, Accounts) = -SumFunctionOnSet(moved, Accounts)
      BY <3>1, SumNegated, ClosingAssumption
    <3> QED
      BY <3>2 DEF g, total
  <2>10. ASSUME NEW n \in Months, n # m
         PROVE  [a \in Accounts |-> ledger'["period_closing"][a][n]]
                  = [a \in Accounts |-> ledger["period_closing"][a][n]]
    BY <2>6, <2>10, CodeNames
  <2> SUFFICES ASSUME NEW n \in Months
               PROVE  /\ ledger'["period_closing"]["Retained"][n] = 0
                      /\ SumFunctionOnSet([a \in Accounts |-> ledger'["period_closing"][a][n]], Accounts)
                           + ledger'["period_closing"]["Profit"][n] = 0
                      /\ n \in ClosedMonths' => ledger'["period_closing"]["Profit"][n] = -closing'[n]
                      /\ n \notin ClosedMonths' => \A c \in Codes : ledger'["period_closing"][c][n] = 0
    BY DEF ClosingRows
  <2>11. CASE n = m
    BY <2>3, <2>4, <2>7, <2>8, <2>9, <2>11, CodeNames
  <2>12. CASE n # m
    <3>1. \A c \in Codes : ledger'["period_closing"][c][n] = ledger["period_closing"][c][n]
      BY <2>6, <2>12
    <3> QED
      BY <2>8, <2>10, <2>12, <3>1, CodeNames DEF IInv, ClosingRows
  <2> QED
    BY <2>11, <2>12
<1> QED
  BY <1>1, <1>2, LedgerSteps DEF IInv

LEMMA AnnualStep ==
  ASSUME IInv, [Next]_vars
  PROVE  AnnualRows'
<1>1. CASE AnnualsKept
  BY <1>1 DEF AnnualsKept, AnnualRows, ClosedYears, IInv
<1>2. ASSUME NEW s \in Slots, CloseFiscalYearCommit(s) PROVE AnnualRows'
  <2> DEFINE y == slot[s].year
             b == slot[s].balance
             lines == Lines({"Profit", "Retained"}, [Profit |-> -b, Retained |-> b])
  <2>1. y \in Years /\ b \in Int /\ y \notin ClosedYears
    <3>1. slot[s] \in Requests /\ slot[s].op = "year"
      BY <1>2 DEF CloseFiscalYearCommit, IInv, TypeOK
    <3> QED
      BY <3>1, CallShape DEF YearClosing, IInv, YearsLocked
  <2>2. /\ IF b = 0 THEN UNCHANGED <<ledger, active>>
           ELSE Enter("annual_closing", December(y), lines)
        /\ annual' = [x \in ClosedYears \cup {y} |-> IF x = y THEN -b ELSE annual[x]]
    BY <1>2 DEF CloseFiscalYearCommit
  <2> HIDE DEF y, b
  <2>3. /\ lines["Profit"] = -b /\ lines["Retained"] = b
        /\ \A a \in Accounts : lines[a] = 0
    BY CodeNames DEF Lines
  <2>4. lines \in Voucher
    BY <2>1 DEF Lines, Voucher
  <2> HIDE DEF lines
  <2>5. December(y) \in Months
    BY <2>1, Decembers
  <2>6. \A c \in {"Profit", "Retained"} \cup Accounts, n \in Months :
          /\ ledger["annual_closing"][c][n] \in Int
          /\ ledger'["annual_closing"][c][n] =
               IF n = December(y) THEN ledger["annual_closing"][c][n] + lines[c]
               ELSE ledger["annual_closing"][c][n]
    <3>1. ledger \in Ledgers
      BY DEF IInv, TypeOK, Ledgers
    <3>2. \A c \in {"Profit", "Retained"} \cup Accounts, n \in Months :
            ledger["annual_closing"][c][n] \in Int /\ c \in Codes
      BY <3>1, CodeNames DEF Ledgers
    <3>3. CASE b = 0
      <4>1. ledger' = ledger
        BY <2>2, <3>3
      <4>2. \A c \in {"Profit", "Retained"} \cup Accounts : lines[c] = 0
        BY <2>3, <3>3
      <4> QED
        BY <3>2, <4>1, <4>2
    <3>4. CASE b # 0
      BY <2>2, <2>4, <2>5, <3>1, <3>2, <3>4, CodeNames, Entering
    <3> QED
      BY <3>3, <3>4
  <2>7. /\ ClosedYears' = ClosedYears \cup {y} /\ annual'[y] = -b
        /\ \A x \in ClosedYears : annual'[x] = annual[x]
    BY <2>1, <2>2 DEF ClosedYears
  <2>8. \A x \in Years : December(x) \in Months /\ (x = y <=> December(x) = December(y))
    BY <2>1, Decembers, DecemberOnce
  <2>9. ledger["annual_closing"]["Profit"][December(y)] = 0
    BY <2>1 DEF IInv, AnnualRows
  <2>10. \A x \in Years : ledger'["annual_closing"]["Profit"][December(x)] =
           IF x \in ClosedYears' THEN annual'[x] ELSE 0
    BY <2>1, <2>3, <2>6, <2>7, <2>8, <2>9 DEF IInv, AnnualRows
  <2>11. ASSUME NEW n \in Months
         PROVE  /\ \A a \in Accounts : ledger'["annual_closing"][a][n] = 0
                /\ ledger'["annual_closing"]["Profit"][n] # 0 => \E x \in ClosedYears' : n = December(x)
                /\ ledger'["annual_closing"]["Retained"][n] = -ledger'["annual_closing"]["Profit"][n]
    <3>1. CASE n = December(y)
      <4>1. /\ \A a \in Accounts : ledger["annual_closing"][a][n] = 0
            /\ ledger["annual_closing"]["Retained"][n] = 0
        BY <2>9, <3>1 DEF IInv, AnnualRows
      <4>2. \A c \in {"Profit", "Retained"} \cup Accounts :
              ledger'["annual_closing"][c][n] = ledger["annual_closing"][c][n] + lines[c]
        BY <2>6, <3>1
      <4>3. \A a \in Accounts : ledger'["annual_closing"][a][n] = 0
        <5> TAKE a \in Accounts
        <5>1. /\ ledger'["annual_closing"][a][n] = ledger["annual_closing"][a][n] + lines[a]
              /\ lines[a] = 0 /\ ledger["annual_closing"][a][n] = 0
          BY <2>3, <4>1, <4>2
        <5> QED
          BY <5>1
      <4>4. ledger'["annual_closing"]["Retained"][n] = -ledger'["annual_closing"]["Profit"][n]
        BY <2>1, <2>3, <2>9, <3>1, <4>1, <4>2
      <4> QED
        BY <2>7, <3>1, <4>3, <4>4
    <3>2. CASE n # December(y)
      <4>1. AnnualRows
        BY DEF IInv
      <4>2. \A c \in {"Profit", "Retained"} \cup Accounts :
              ledger'["annual_closing"][c][n] = ledger["annual_closing"][c][n]
        BY <2>6, <3>2
      <4>3. /\ \A a \in Accounts : ledger["annual_closing"][a][n] = 0
            /\ ledger["annual_closing"]["Profit"][n] # 0 => \E x \in ClosedYears : n = December(x)
            /\ ledger["annual_closing"]["Retained"][n] = -ledger["annual_closing"]["Profit"][n]
        BY <4>1 DEF AnnualRows
      <4> QED
        BY <2>7, <4>2, <4>3
    <3> QED
      BY <3>1, <3>2
  <2> QED
    BY <2>10, <2>11 DEF AnnualRows
<1> QED
  BY <1>1, <1>2, LedgerSteps DEF IInv

(* How a step changes the calls.                                           *)
LEMMA YearsLockedStep ==
  ASSUME IInv, [Next]_vars
  PROVE  YearsLocked'
<1>1. ASSUME UNCHANGED annual, NEW s \in Slots, NEW call, slot' = [slot EXCEPT ![s] = call],
             call.op # "year"
      PROVE  YearsLocked'
  BY <1>1 DEF IInv, TypeOK, YearsLocked, ClosedYears
<1>2. CASE UNCHANGED <<slot, annual>>
  BY <1>2 DEF IInv, YearsLocked, ClosedYears
<1>3. ASSUME NEW s \in Slots, NEW y \in Years, CloseFiscalYearRead(s, y) PROVE YearsLocked'
  <2>1. slot' = [slot EXCEPT ![s] = [op |-> "year", year |-> y, balance |-> CarriedProfit(y)]]
        /\ UNCHANGED annual /\ y \notin ClosedYears
        /\ \A t \in Slots : ~(slot[t].op = "year" /\ slot[t].year = y)
    BY <1>3 DEF CloseFiscalYearRead, rows, YearRowLocked
  <2> QED
    BY <2>1 DEF IInv, TypeOK, YearsLocked, ClosedYears
<1>4. ASSUME NEW s \in Slots, CloseFiscalYearCommit(s) PROVE YearsLocked'
  <2>1. /\ slot[s].op = "year" /\ slot' = [slot EXCEPT ![s] = Idle]
        /\ ClosedYears' = ClosedYears \cup {slot[s].year}
    BY <1>4 DEF CloseFiscalYearCommit, Answer, ClosedYears
  <2> QED
    BY <2>1 DEF IInv, TypeOK, YearsLocked, Idle
<1>5. CASE UNCHANGED vars
  BY <1>2, <1>5 DEF vars
<1>6. ASSUME NEW s \in Slots, \/ PostOpeningCommit(s) \/ DeleteOpeningCommit(s)
                              \/ ClosePeriodCommit(s) \/ Abandon(s)
                              \/ \E today \in Todays : ReverseCommit(s, today)
      PROVE  YearsLocked'
  <2>1. slot' = [slot EXCEPT ![s] = Idle] /\ UNCHANGED annual
    BY <1>6 DEF PostOpeningCommit, DeleteOpeningCommit, ClosePeriodCommit, ReverseCommit, Abandon,
       Answer, rows
  <2>2. Idle.op # "year"
    BY DEF Idle
  <2> QED
    BY <1>1, <2>1, <2>2
<1>7. ASSUME NEW s \in Slots, NEW m \in Months, NEW b, PostOpeningRead(s, m, b) PROVE YearsLocked'
  <2> DEFINE call == [op |-> "open", month |-> m, amount |-> b]
  <2>1. slot' = [slot EXCEPT ![s] = call] /\ UNCHANGED annual /\ call.op # "year"
    BY <1>7 DEF PostOpeningRead, rows
  <2> HIDE DEF call
  <2> QED
    BY <1>1, <2>1
<1>8. ASSUME NEW s \in Slots, DeleteOpeningRead(s) PROVE YearsLocked'
  <2> DEFINE call == [op |-> "delete"]
  <2>1. slot' = [slot EXCEPT ![s] = call] /\ UNCHANGED annual /\ call.op # "year"
    BY <1>8 DEF DeleteOpeningRead, rows
  <2> HIDE DEF call
  <2> QED
    BY <1>1, <2>1
<1>10. ASSUME NEW s \in Slots, ReversalReads(s) PROVE YearsLocked'
  <2>1. UNCHANGED annual /\ \E call \in Reversing : slot' = [slot EXCEPT ![s] = call]
    BY <1>10, ReadsShape DEF IInv, rows
  <2>2. \A call \in Reversing : call.op # "year"
    BY DEF Reversing
  <2> QED
    BY <1>1, <2>1, <2>2
<1>9. ASSUME NEW s \in Slots, NEW m \in Months, ClosePeriodRead(s, m) PROVE YearsLocked'
  <2> DEFINE call == [op |-> "month", month |-> m, moved |-> [a \in Accounts |-> UnclosedBalance(a, m)]]
  <2>1. slot' = [slot EXCEPT ![s] = call] /\ UNCHANGED annual /\ call.op # "year"
    BY <1>9 DEF ClosePeriodRead, rows
  <2> HIDE DEF call
  <2> QED
    BY <1>1, <2>1
<1> QED
  BY <1>2, <1>3, <1>4, <1>5, <1>6, <1>7, <1>8, <1>9, <1>10
  DEF Next, Serve, ReversalReads, rows, PostVoucher, PostReversal, LockAccountingPeriod,
      UnlockAccountingPeriod

(* One source's entries on one code: none, one, and the same as before.    *)
LEMMA SumOfNothing ==
  ASSUME NEW r \in Sources, NEW c \in Codes, NEW months \in SUBSET Months
  PROVE  /\ (\A m \in months : ledger[r][c][m] = 0) => Sum({r}, {c}, months) = 0
         /\ (\A m \in months : ledger'[r][c][m] = 0) => Sum({r}, {c}, months)' = 0
<1> DEFINE R == {r}
           C == {c}
<1>1. R \in SUBSET Sources /\ C \in SUBSET Codes
  OBVIOUS
<1>2. ASSUME NEW l, \A m \in months : l[r][c][m] = 0 PROVE Entries(l, R, C, months) = 0
  <2>1. \A q \in R, d \in C, m \in months : l[q][d][m] = 0
    BY <1>2
  <2> HIDE DEF R, C
  <2> QED
    BY <1>1, <2>1, EntriesZero
<1>3. /\ Sum(R, C, months) = Entries(ledger, R, C, months)
      /\ Sum(R, C, months)' = Entries(ledger', R, C, months)
  BY SumOfLedger, Zenon
<1> QED
  BY <1>2, <1>3, Zenon

LEMMA SumOfOne ==
  ASSUME ledger \in Ledgers, NEW r \in Sources, NEW c \in Codes, NEW m \in Months
  PROVE  Sum({r}, {c}, {m}) = ledger[r][c][m]
<1> DEFINE R == {r}
           C == {c}
           M == {m}
           zero == [q \in Sources |-> [d \in Codes |-> [n \in Months |-> 0]]]
<1>1. R \in SUBSET Sources /\ C \in SUBSET Codes /\ M \in SUBSET Months
  OBVIOUS
<1>2. zero \in Ledgers /\ \A q \in Sources, d \in Codes, n \in Months : zero[q][d][n] = 0
  BY DEF Ledgers
<1>3. AgreeBut(zero, ledger, R, C, M, r, c, m)
  BY DEF AgreeBut
<1>4. r \in R /\ c \in C /\ m \in M /\ ledger[r][c][m] \in Int
  BY DEF Ledgers
<1> HIDE DEF R, C, M, zero
<1>5. Entries(zero, R, C, M) = 0
  BY <1>1, <1>2, EntriesZero
<1>6. Entries(ledger, R, C, M) = Entries(zero, R, C, M) + ledger[r][c][m] - zero[r][c][m]
  BY <1>1, <1>2, <1>3, <1>4, OneEntry
<1>7. Entries(ledger, R, C, M) = ledger[r][c][m]
  BY <1>2, <1>4, <1>5, <1>6
<1> QED
  BY <1>7, SumOfLedger, Zenon DEF R, C, M

LEMMA SumKept ==
  ASSUME ledger \in Ledgers, ledger' \in Ledgers, NEW r \in Sources, NEW c \in Codes,
         NEW months \in SUBSET Months, ledger'[r] = ledger[r]
  PROVE  Sum({r}, {c}, months)' = Sum({r}, {c}, months)
<1> DEFINE R == {r}
           C == {c}
<1>1. R \in SUBSET Sources /\ C \in SUBSET Codes
  OBVIOUS
<1>2. \A q \in R, d \in C, m \in months : ledger'[q][d][m] = ledger[q][d][m]
  OBVIOUS
<1> HIDE DEF R, C
<1>3. Entries(ledger', R, C, months) = Entries(ledger, R, C, months)
  BY <1>1, <1>2, SameEntries
<1> QED
  BY <1>3, SumOfLedger, Zenon DEF R, C

(* What a request reads of the opening, to reverse it.                     *)
LEMMA StaleRead ==
  ASSUME IInv
  PROVE  ReversalLines(OpeningId) \in Stale
<1> DEFINE read(c) == Sum({"opening_balance"}, {c}, DOMAIN opening)
<1>a. /\ ledger \in Ledgers /\ "opening_balance" \in Sources /\ "Retained" \in Codes
      /\ DOMAIN opening \in SUBSET Months
  BY CodeNames DEF IInv, TypeOK, Ledgers
<1>1. ReversalLines(OpeningId) = [c \in Codes |-> -read(c)]
  BY DEF ReversalLines, Dated, OpeningId
<1>2. \A c \in Codes : c # "Retained" => read(c) = 0
  <2> TAKE c \in Codes
  <2> HAVE c # "Retained"
  <2>1. \A m \in DOMAIN opening : ledger["opening_balance"][c][m] = 0
    BY <1>a DEF IInv, OpeningRows
  <2> QED
    BY <1>a, <2>1, SumOfNothing
<1>3. read("Retained") \in {0} \cup OpeningAmounts
  <2>1. CASE opening = << >>
    <3>1. \A m \in DOMAIN opening : ledger["opening_balance"]["Retained"][m] = 0
      BY <2>1, Nothing
    <3>2. read("Retained") = 0
      BY <1>a, <3>1, SumOfNothing
    <3> QED
      BY <3>2
  <2>2. CASE opening # << >>
    <3>1. PICK m \in Months, b \in OpeningAmounts : opening = [x \in {m} |-> b]
      BY <2>2 DEF IInv, OpeningShape
    <3>2. DOMAIN opening = {m} /\ opening[m] = b
      BY <3>1
    <3>3. ledger["opening_balance"]["Retained"][m] = b
      BY <1>a, <3>2 DEF IInv, OpeningRows
    <3>4. Sum({"opening_balance"}, {"Retained"}, {m}) = b
      BY <1>a, <3>3, SumOfOne
    <3>5. read("Retained") = b
      BY <3>2, <3>4, Zenon
    <3> QED
      BY <3>5
  <2> QED
    BY <2>1, <2>2
<1> HIDE DEF read
<1>4. [c \in Codes |-> -read(c)] = Lines({"Retained"}, [Retained |-> -read("Retained")])
  BY <1>a, <1>2 DEF Lines
<1> QED
  BY <1>1, <1>3, <1>4 DEF Stale

(* A call that brings no other lines.                                      *)
LEMMA StaleCalled ==
  ASSUME IInv, drafts' \subseteq drafts, NEW s \in Slots, NEW call,
         slot' = [slot EXCEPT ![s] = call],
         call.op \in {"lines", "draft"} /\ call.of = OpeningId => call.lines \in Stale
  PROVE  ReversalLinesRead' /\ ReversalLinesDrafted'
<1>1. slot'[s] = call /\ \A t \in Slots : t # s => slot'[t] = slot[t]
  BY DEF IInv, TypeOK
<1> QED
  BY <1>1 DEF IInv, ReversalLinesRead, ReversalLinesDrafted

LEMMA StaleStep ==
  ASSUME IInv, [Next]_vars
  PROVE  ReversalLinesRead' /\ ReversalLinesDrafted'
<1> DEFINE Goal == ReversalLinesRead' /\ ReversalLinesDrafted'
<1>a. TypeOK
  BY DEF IInv
<1>0. CASE drafts' \subseteq drafts /\ slot' = slot
  BY <1>0 DEF IInv, ReversalLinesRead, ReversalLinesDrafted
<1>1. CASE UNCHANGED vars
  BY <1>0, <1>1 DEF vars
<1> SUFFICES ASSUME NEW s \in Slots, Serve(s) PROVE Goal
  BY <1>1 DEF Next
<1>2. CASE \/ \E a \in Accounts, amount \in Amounts, m \in Months : PostVoucher(s, a, amount, m)
           \/ \E d \in drafts : PostReversal(s, d)
           \/ \E m \in Lockable : LockAccountingPeriod(s, m) \/ UnlockAccountingPeriod(s, m)
  BY <1>0, <1>2 DEF PostVoucher, PostReversal, LockAccountingPeriod, UnlockAccountingPeriod, rows
<1>3. ASSUME NEW id \in Ids, ReverseVoucher(s, id) PROVE Goal
  <2> DEFINE call == [op |-> "reverse", of |-> id]
  <2>1. slot' = [slot EXCEPT ![s] = call] /\ drafts' = drafts
    BY <1>3 DEF ReverseVoucher, rows
  <2>2. call.op \notin {"lines", "draft"}
    OBVIOUS
  <2> HIDE DEF call
  <2> QED
    BY <2>1, <2>2, StaleCalled
<1>4. CASE ReverseLines(s)
  <2> DEFINE call == [op |-> "lines", of |-> slot[s].of, lines |-> ReversalLines(slot[s].of)]
  <2>1. slot' = [slot EXCEPT ![s] = call] /\ drafts' = drafts
    BY <1>4 DEF ReverseLines, rows
  <2>2. call.of = OpeningId => call.lines \in Stale
    BY StaleRead
  <2> HIDE DEF call
  <2> QED
    BY <2>1, <2>2, StaleCalled
<1>5. CASE ReverseCheck(s)
  <2> DEFINE call == [slot[s] EXCEPT !.op = "draft"]
  <2>1. slot[s] \in Reversing /\ slot[s].op = "lines"
    BY <1>a, <1>5, CallShape DEF ReverseCheck, TypeOK
  <2>2. slot[s] \in [op : {"lines", "draft"}, of : Ids, lines : Voucher]
    BY <2>1 DEF Reversing
  <2>3. slot' = [slot EXCEPT ![s] = call] /\ drafts' = drafts
    BY <1>5 DEF ReverseCheck, rows
  <2>4. call.of = slot[s].of /\ call.lines = slot[s].lines
    BY <2>2
  <2> HIDE DEF call
  <2>5. call.of = OpeningId => call.lines \in Stale
    BY <2>1, <2>4 DEF IInv, ReversalLinesRead
  <2> QED
    BY <2>3, <2>5, StaleCalled
<1>6. ASSUME NEW today \in Todays, ReverseCommit(s, today) PROVE Goal
  <2>1. today \in Months /\ slot[s].op = "draft"
    BY <1>6, ClosingAssumption DEF ReverseCommit
  <2>2. PICK d \in Drafts :
          /\ d.of = slot[s].of /\ d.lines = slot[s].lines
          /\ drafts' = drafts \cup {d} /\ slot' = [slot EXCEPT ![s] = Idle]
    BY <1>a, <1>6, <2>1, InsertedShape
  <2>3. d.of = OpeningId => d.lines \in Stale
    BY <2>1, <2>2 DEF IInv, ReversalLinesRead
  <2>4. slot'[s] = Idle /\ \A t \in Slots : t # s => slot'[t] = slot[t]
    BY <1>a, <2>2 DEF TypeOK
  <2>5. ReversalLinesDrafted'
    BY <2>2, <2>3 DEF IInv, ReversalLinesDrafted
  <2>6. ReversalLinesRead'
    BY <2>4 DEF IInv, ReversalLinesRead, Idle
  <2> QED
    BY <2>5, <2>6
<1>7. CASE PostOpeningCommit(s) \/ DeleteOpeningCommit(s) \/ ClosePeriodCommit(s)
           \/ CloseFiscalYearCommit(s) \/ Abandon(s)
  <2>1. slot' = [slot EXCEPT ![s] = Idle] /\ drafts' = drafts
    BY <1>7 DEF PostOpeningCommit, DeleteOpeningCommit, ClosePeriodCommit, CloseFiscalYearCommit,
       Abandon, Answer, rows
  <2>2. Idle.op \notin {"lines", "draft"}
    BY DEF Idle
  <2> QED
    BY <2>1, <2>2, StaleCalled
<1>8. ASSUME drafts' = drafts, NEW call, slot' = [slot EXCEPT ![s] = call],
             call.op \notin {"lines", "draft"}
      PROVE  Goal
  BY <1>8, StaleCalled
<1>9. ASSUME NEW m \in Months, NEW b \in OpeningAmounts, PostOpeningRead(s, m, b) PROVE Goal
  BY <1>8, <1>9 DEF PostOpeningRead, rows
<1>10. CASE DeleteOpeningRead(s)
  BY <1>8, <1>10 DEF DeleteOpeningRead, rows
<1>11. ASSUME NEW m \in Months, ClosePeriodRead(s, m) PROVE Goal
  <2> DEFINE moved == [a \in Accounts |-> UnclosedBalance(a, m)]
  <2>1. /\ slot' = [slot EXCEPT ![s] = [op |-> "month", month |-> m, moved |-> moved]]
        /\ drafts' = drafts
    BY <1>11 DEF ClosePeriodRead, rows
  <2> HIDE DEF moved
  <2> QED
    BY <1>8, <2>1
<1>12. ASSUME NEW y \in Years, CloseFiscalYearRead(s, y) PROVE Goal
  <2> DEFINE b == CarriedProfit(y)
  <2>1. /\ slot' = [slot EXCEPT ![s] = [op |-> "year", year |-> y, balance |-> b]]
        /\ drafts' = drafts
    BY <1>12 DEF CloseFiscalYearRead, rows
  <2> HIDE DEF b
  <2> QED
    BY <1>8, <2>1
<1> QED
  BY <1>2, <1>3, <1>4, <1>5, <1>6, <1>7, <1>9, <1>10, <1>11, <1>12 DEF Serve

(* The two sums OpeningInLedger is about.                                  *)
OpeningSum  == Sum({"opening_balance"}, {"Retained"}, Months)
ReversalSum == Sum({"opening_reversal"}, {"Retained"}, Months)
Negated     == {0} \cup {-b : b \in OpeningAmounts}

LEMMA OpeningParts ==
  /\ OpeningInLedger <=> /\ OpeningSum = SumFunctionOnSet(opening, DOMAIN opening)
                         /\ ReversalSum \in Negated
                         /\ opening = << >> => ReversalSum = 0
  /\ OpeningInLedger' <=> /\ OpeningSum' = SumFunctionOnSet(opening', DOMAIN opening')
                          /\ ReversalSum' \in Negated
                          /\ opening' = << >> => ReversalSum' = 0
BY DEF OpeningInLedger, OpeningSum, ReversalSum, Negated

LEMMA OpeningStep ==
  ASSUME IInv, [Next]_vars
  PROVE  OpeningRows' /\ OpeningInLedger'
<1>a. /\ ledger \in Ledgers /\ "opening_balance" \in Sources /\ "opening_reversal" \in Sources
      /\ "Retained" \in Codes /\ Months \in SUBSET Months /\ TypeOK
  BY CodeNames DEF IInv, TypeOK, Ledgers, Posted
<1>b. /\ OpeningSum = SumFunctionOnSet(opening, DOMAIN opening)
      /\ ReversalSum \in Negated /\ (opening = << >> => ReversalSum = 0)
  BY OpeningParts DEF IInv
<1>d. ledger' \in Ledgers
  BY TypeStep DEF IInv, TypeOK, Ledgers
<1>e. ledger'["opening_balance"] = ledger["opening_balance"] => OpeningSum' = OpeningSum
  BY <1>a, <1>d, SumKept DEF OpeningSum
<1>f. ledger'["opening_reversal"] = ledger["opening_reversal"] => ReversalSum' = ReversalSum
  BY <1>a, <1>d, SumKept DEF ReversalSum
<1>1. CASE OpeningsKept
  <2>1. OpeningRows'
    BY <1>1 DEF OpeningsKept, IInv, OpeningRows
  <2> QED
    BY <1>1, <1>b, <1>e, <1>f, <2>1, OpeningParts DEF OpeningsKept
<1>2. ASSUME NEW s \in Slots, PostOpeningCommit(s) PROVE OpeningRows' /\ OpeningInLedger'
  <2> DEFINE m == slot[s].month
             b == slot[s].amount
             lines == Lines({"Retained"}, [Retained |-> b])
  <2>1. m \in Months /\ b \in Int
    <3>1. slot[s] \in Requests /\ slot[s].op = "open"
      BY <1>2 DEF PostOpeningCommit, IInv, TypeOK
    <3> QED
      BY <3>1, CallShape, ClosingAssumption DEF Opening
  <2>2. /\ Enter("opening_balance", m, lines) /\ opening = << >>
        /\ opening' = [x \in {m} |-> b] /\ reversed' = reversed
    BY <1>2 DEF PostOpeningCommit
  <2> HIDE DEF m, b
  <2>3. lines["Retained"] = b /\ \A c \in Codes : c # "Retained" => lines[c] = 0
    BY CodeNames DEF Lines
  <2>4. lines \in Voucher
    BY <2>1 DEF Lines, Voucher
  <2> HIDE DEF lines
  <2>5. DOMAIN opening = {} /\ OpeningId \notin reversed
    BY <2>2, Nothing DEF IInv, OpeningRows
  <2>6. /\ \A c \in Codes, n \in Months :
             ledger'["opening_balance"][c][n] =
               IF n = m THEN ledger["opening_balance"][c][n] + lines[c]
               ELSE ledger["opening_balance"][c][n]
        /\ ledger'["opening_reversal"] = ledger["opening_reversal"]
    BY <1>a, <2>1, <2>2, <2>4, Entering, OtherSources, CodeNames DEF Posted
  <2>7. DOMAIN opening' = {m} /\ opening'[m] = b /\ opening' # << >>
    BY <2>2, Nothing
  <2>8. OpeningRows'
    <3>1. \A n \in Months, c \in Codes :
            ledger["opening_balance"][c][n] = 0 /\ ledger["opening_reversal"][c][n] = 0
      BY <2>5 DEF IInv, OpeningRows
    <3>2. \A n \in Months, c \in Codes : ledger'["opening_balance"][c][n] =
            IF c = "Retained" /\ n = m THEN b ELSE 0
      BY <2>1, <2>3, <2>6, <3>1
    <3> QED
      BY <2>2, <2>5, <2>6, <2>7, <3>1, <3>2 DEF OpeningRows
  <2>9. OpeningSum = 0
    BY <1>b, <2>5, SumEmpty
  <2>10. OpeningSum' = OpeningSum + b
    BY <1>a, <2>1, <2>2, <2>3, <2>4, SumEntered DEF OpeningSum
  <2>11. SumFunctionOnSet(opening', DOMAIN opening') = b
    BY <2>1, <2>7, SumOne
  <2>12. ReversalSum' \in Negated
    BY <1>b, <1>f, <2>6
  <2> QED
    BY <2>1, <2>7, <2>8, <2>9, <2>10, <2>11, <2>12, OpeningParts
<1>3. ASSUME NEW s \in Slots, DeleteOpeningCommit(s) PROVE OpeningRows' /\ OpeningInLedger'
  <2>1. /\ ledger' = [ledger EXCEPT !["opening_balance"] = [c \in Codes |-> [m \in Months |-> 0]]]
        /\ opening' = << >> /\ reversed' = reversed /\ OpeningId \notin reversed
    BY <1>3 DEF DeleteOpeningCommit, OpeningKept
  <2>2. \A c \in Codes, n \in Months :
          ledger'["opening_balance"][c][n] = 0 /\ ledger'["opening_reversal"][c][n] = 0
    BY <1>a, <2>1 DEF IInv, OpeningRows, Ledgers
  <2>3. OpeningRows'
    BY <2>1, <2>2, Nothing DEF OpeningRows
  <2>4. OpeningSum' = 0 /\ ReversalSum' = 0
    BY <1>a, <2>2, SumOfNothing DEF OpeningSum, ReversalSum
  <2>5. SumFunctionOnSet(opening', DOMAIN opening') = 0
    BY <2>1, Nothing, SumEmpty
  <2> QED
    BY <2>3, <2>4, <2>5, OpeningParts DEF Negated
<1>4. ASSUME NEW s \in Slots, NEW today \in Todays, ReverseCommit(s, today)
      PROVE  OpeningRows' /\ OpeningInLedger'
  <2>1. today \in Months
    BY ClosingAssumption
  <2>2. PICK d \in Drafts :
          /\ d.of \notin reversed /\ Dated(d.of) # {}
          /\ drafts' = drafts \cup {d} /\ reversed' = reversed \cup {d.of}
          /\ ledger' = ledger /\ opening' = opening
    BY <1>a, <1>4, <2>1, InsertedShape
  <2>3. d.of = OpeningId => opening # << >>
    BY <2>2, Nothing DEF Dated
  <2>4. OpeningRows'
    BY <2>2, <2>3 DEF IInv, OpeningRows
  <2> QED
    BY <1>b, <1>e, <1>f, <2>2, <2>4, OpeningParts
<1>5. ASSUME NEW s \in Slots, NEW d \in drafts, PostReversal(s, d)
      PROVE  OpeningRows' /\ OpeningInLedger'
  <2>1. /\ SourceOf(d) \in Sources /\ d.month \in Months /\ d.lines \in Voucher
        /\ Enter(SourceOf(d), d.month, d.lines) /\ drafts' = drafts \ {d}
        /\ opening' = opening /\ reversed' = reversed
    BY <1>a, <1>5, ReversalEntered
  <2>2. \A q \in Sources \ {SourceOf(d)} : ledger'[q] = ledger[q]
    BY <1>a, <2>1, OtherSources
  <2>3. ledger'["opening_balance"] = ledger["opening_balance"]
    BY <1>a, <2>2 DEF SourceOf
  <2>4. CASE d.of # OpeningId
    <3>1. ledger'["opening_reversal"] = ledger["opening_reversal"]
      BY <1>a, <2>2, <2>4 DEF SourceOf
    <3>2. OpeningRows'
      BY <2>1, <2>3, <2>4, <3>1 DEF IInv, OpeningRows
    <3> QED
      BY <1>b, <1>e, <1>f, <2>1, <2>3, <3>1, <3>2, OpeningParts
  <2>5. CASE d.of = OpeningId
    <3>1. SourceOf(d) = "opening_reversal" /\ OpeningId \in reversed /\ opening # << >>
      BY <2>5 DEF SourceOf, IInv, TypeOK, OpeningRows
    <3>2. PICK b \in {0} \cup OpeningAmounts : d.lines = Lines({"Retained"}, [Retained |-> -b])
      BY <2>5 DEF IInv, ReversalLinesDrafted, Stale
    <3>3. d.lines["Retained"] = -b /\ \A c \in Codes : c # "Retained" => d.lines[c] = 0
      BY <3>2, CodeNames DEF Lines
    <3>4. \A c \in Codes, n \in Months : ledger["opening_reversal"][c][n] = 0
      BY <2>5 DEF IInv, OpeningRows
    <3>5. \A c \in Codes, n \in Months :
            ledger'["opening_reversal"][c][n] = IF n = d.month THEN 0 + d.lines[c] ELSE 0
      BY <1>a, <2>1, <3>1, <3>4, Entering
    <3>6. \A c \in Codes, n \in Months : c # "Retained" => ledger'["opening_reversal"][c][n] = 0
      BY <3>3, <3>5
    <3>7. \A e \in drafts' : e.of # OpeningId
      BY <2>1, <2>5 DEF IInv, TypeOK
    <3>8. OpeningRows'
      BY <2>1, <2>3, <3>1, <3>6, <3>7 DEF IInv, OpeningRows
    <3>9. ReversalSum = 0
      BY <1>a, <3>4, SumOfNothing DEF ReversalSum
    <3>10. ReversalSum' = ReversalSum + d.lines["Retained"]
      BY <1>a, <2>1, <3>1, SumEntered DEF ReversalSum
    <3>11. b \in Int
      BY ClosingAssumption
    <3>12. ReversalSum' \in Negated
      BY <3>3, <3>9, <3>10, <3>11 DEF Negated
    <3> QED
      BY <1>b, <1>e, <2>1, <2>3, <3>1, <3>8, <3>12, OpeningParts
  <2> QED
    BY <2>4, <2>5
<1> QED
  BY <1>1, <1>2, <1>3, <1>4, <1>5, LedgerSteps DEF IInv

LEMMA Initially == Init => IInv
<1> SUFFICES ASSUME Init PROVE IInv
  OBVIOUS
<1>1. \A r \in Sources, c \in Codes, m \in Months : ledger[r][c][m] = 0
  BY DEF Init
<1>2. /\ DOMAIN opening = {} /\ ClosedMonths = {} /\ ClosedYears = {}
      /\ reversed = {} /\ drafts = {} /\ \A s \in Slots : slot[s].op = "idle"
  BY Nothing DEF Init, ClosedMonths, ClosedYears, Idle
<1>3. ClosingRows
  <2> SUFFICES ASSUME NEW m \in Months
               PROVE  SumFunctionOnSet([a \in Accounts |-> ledger["period_closing"][a][m]], Accounts)
                        + ledger["period_closing"]["Profit"][m] = 0
    BY <1>1, <1>2, CodeNames DEF ClosingRows
  <2> DEFINE f == [a \in Accounts |-> ledger["period_closing"][a][m]]
  <2>1. \A a \in Accounts : f[a] = 0
    BY <1>1, CodeNames
  <2> HIDE DEF f
  <2>2. SumFunctionOnSet(f, Accounts) = 0
    BY <2>1, SumZero, ClosingAssumption
  <2> QED
    BY <1>1, <2>2, CodeNames DEF f
<1>4. AnnualRows
  BY <1>1, <1>2, CodeNames, Decembers DEF AnnualRows
<1>5. OpeningRows
  BY <1>1, <1>2, CodeNames DEF OpeningRows, Posted
<1>6. OpeningInLedger
  <2>1. \A r \in Sources : Sum({r}, {"Retained"}, Months) = 0
    BY <1>1, CodeNames, SumOfNothing
  <2>2. SumFunctionOnSet(opening, DOMAIN opening) = 0
    BY <1>2, SumEmpty
  <2> QED
    BY <2>1, <2>2, CodeNames DEF OpeningInLedger, Posted
<1> QED
  BY <1>2, <1>3, <1>4, <1>5, <1>6, TypeInit DEF IInv, YearsLocked, ReversalLinesRead, ReversalLinesDrafted

LEMMA Stepwise == IInv /\ [Next]_vars => IInv'
BY TypeStep, ClosingStep, AnnualStep, OpeningStep, StaleStep, YearsLockedStep DEF IInv

LEMMA Invariance == Spec => []IInv
BY Initially, Stepwise, PTL DEF Spec

(* What is kept with a closing is in the ledger, and once.                 *)
THEOREM ClosingsAreInLedger == Spec => []ClosingsInLedger
<1>1. IInv => ClosingsInLedger
  <2> SUFFICES ASSUME IInv PROVE ClosingsInLedger
    OBVIOUS
  <2>1. \A y \in Years : ledger["annual_closing"]["Retained"][December(y)] =
          IF y \in ClosedYears THEN -annual[y] ELSE 0
    BY Decembers DEF IInv, AnnualRows
  <2>2. \A m \in Months : ledger["period_closing"]["Profit"][m] =
          IF m \in ClosedMonths THEN -closing[m] ELSE 0
    BY CodeNames DEF IInv, ClosingRows
  <2> QED
    BY <2>1, <2>2 DEF ClosingsInLedger
<1> QED
  BY <1>1, Invariance, PTL

(* The opening balances are in the ledger once, and at most one reversal   *)
(* of them, however the requests overlap.                                  *)
THEOREM OpeningIsInLedger == Spec => []OpeningInLedger
<1>1. IInv => OpeningInLedger
  BY DEF IInv
<1> QED
  BY <1>1, Invariance, PTL

-----------------------------------------------------------------------------
(* Requests that overlap in an orderly way: PeriodClosing says which        *)
(* overlaps NotLocked and Undisturbed exclude.                             *)

OneAtATime == \A s, t \in Slots : s = t

(* Requests served one at a time overlap in no such way.                   *)
THEOREM OneAtATimeIsOrderly ==
  OneAtATime /\ Spec => [][NotLocked]_vars /\ [][Undisturbed]_vars
<1>1. OneAtATime => NotLocked
  BY DEF OneAtATime, NotLocked, Awaited, LockAccountingPeriod, Free, Idle
<1>2. OneAtATime /\ TypeOK /\ [Next]_vars => [Undisturbed]_vars
  <2> SUFFICES ASSUME OneAtATime, TypeOK, Next, NEW s \in Slots,
                      slot[s].op \in {"month", "year"}, slot'[s] = slot[s]
               PROVE  FALSE
    BY DEF Undisturbed
  <2>1. Serve(s)
    BY DEF OneAtATime, Next
  <2>2. ~Free(s)
    BY DEF Free, Idle
  <2>3. slot' # [slot EXCEPT ![s] = Idle]
    BY DEF TypeOK, Idle
  <2> QED
    BY <2>1, <2>2, <2>3 DEF Serve, PostVoucher, ReverseVoucher, ReverseLines,
       ReverseCheck, ReverseCommit, PostReversal, PostOpeningRead, PostOpeningCommit, DeleteOpeningRead,
       DeleteOpeningCommit, ClosePeriodRead, ClosePeriodCommit, CloseFiscalYearRead,
       CloseFiscalYearCommit, Abandon, LockAccountingPeriod, UnlockAccountingPeriod, Answer
<1>3. OneAtATime => OneAtATime'
  BY DEF OneAtATime
<1> QED
  BY <1>1, <1>2, <1>3, TypeCorrect, PTL DEF Spec

(* What a request has found open is open until it commits.                 *)
OpenStill == \A s \in Slots : Awaited(s) \cap locked = {}

OpenInv == IInv /\ OpenStill

LEMMA OthersOpen ==
  ASSUME TypeOK, OpenStill, locked' = locked, opening' = opening,
         NEW s \in Slots, NEW call, slot' = [slot EXCEPT ![s] = call],
         Awaited(s)' \cap locked = {}
  PROVE  OpenStill'
<1> SUFFICES ASSUME NEW t \in Slots, t # s PROVE Awaited(t)' = Awaited(t)
  BY DEF OpenStill
<1>1. slot'[t] = slot[t]
  BY DEF TypeOK
<1> QED
  BY <1>1 DEF Awaited

LEMMA OpenStep == TypeOK /\ OpenStill /\ [NotLocked]_vars /\ [Next]_vars => OpenStill'
<1> SUFFICES ASSUME TypeOK, OpenStill, [NotLocked]_vars, [Next]_vars PROVE OpenStill'
  OBVIOUS
<1>0. CASE UNCHANGED <<slot, locked, opening>>
  BY <1>0 DEF OpenStill, Awaited
<1>1. CASE UNCHANGED vars
  BY <1>0, <1>1 DEF vars
<1> SUFFICES ASSUME NotLocked, NEW s \in Slots, Serve(s) PROVE OpenStill'
  BY <1>1 DEF Next
<1>2. CASE \/ \E a \in Accounts, amount \in Amounts, m \in Months : PostVoucher(s, a, amount, m)
           \/ \E d \in drafts : PostReversal(s, d)
  BY <1>0, <1>2 DEF PostVoucher, PostReversal
<1>3. CASE \/ ClosePeriodCommit(s) \/ CloseFiscalYearCommit(s) \/ Abandon(s)
           \/ \E today \in Todays : ReverseCommit(s, today)
  <2>1. slot' = [slot EXCEPT ![s] = Idle] /\ locked' = locked /\ opening' = opening
    BY <1>3 DEF ClosePeriodCommit, CloseFiscalYearCommit, ReverseCommit, Abandon, Answer, rows
  <2>2. slot'[s] = Idle
    BY <2>1 DEF TypeOK
  <2>3. Awaited(s)' = {}
    BY <2>2 DEF Awaited, Idle
  <2> QED
    BY <2>1, <2>3, OthersOpen
<1>4. CASE PostOpeningCommit(s)
  <2>1. /\ slot' = [slot EXCEPT ![s] = Idle] /\ locked' = locked /\ slot[s].op = "open"
        /\ DOMAIN opening' = {slot[s].month}
    BY <1>4 DEF PostOpeningCommit, Answer
  <2>2. \A m \in Months : m = slot[s].month => m \notin locked
    BY <2>1 DEF OpenStill, Awaited
  <2>3. slot'[s] = Idle /\ \A t \in Slots : t # s => slot'[t] = slot[t]
    BY <2>1 DEF TypeOK
  <2> SUFFICES ASSUME NEW t \in Slots, NEW m \in Months, m \in Awaited(t)' PROVE m \notin locked
    BY <2>1 DEF OpenStill, Awaited
  <2>4. t # s /\ slot'[t] = slot[t]
    BY <2>3 DEF Awaited, Idle
  <2>5. m \in Awaited(t) \/ m = slot[s].month
    BY <2>1, <2>4 DEF Awaited
  <2> QED
    BY <2>2, <2>5 DEF OpenStill
<1>5. CASE DeleteOpeningCommit(s)
  <2>1. /\ slot' = [slot EXCEPT ![s] = Idle] /\ locked' = locked /\ DOMAIN opening' = {}
    BY <1>5, Nothing DEF DeleteOpeningCommit, Answer
  <2>2. slot'[s] = Idle /\ \A t \in Slots : t # s => slot'[t] = slot[t]
    BY <2>1 DEF TypeOK
  <2>3. \A t \in Slots : Awaited(t)' \subseteq Awaited(t)
    BY <2>1, <2>2 DEF Awaited, Idle
  <2> QED
    BY <2>1, <2>3 DEF OpenStill
<1>6. ASSUME NEW m \in Months, NEW amount \in OpeningAmounts, PostOpeningRead(s, m, amount)
      PROVE  OpenStill'
  <2> DEFINE call == [op |-> "open", month |-> m, amount |-> amount]
  <2>1. /\ slot' = [slot EXCEPT ![s] = call] /\ locked' = locked /\ opening' = opening
        /\ m \notin locked
    BY <1>6 DEF PostOpeningRead, IsLocked, rows
  <2>2. slot'[s] = call
    BY <2>1 DEF TypeOK
  <2>3. Awaited(s)' = {m}
    BY <2>2 DEF Awaited
  <2> HIDE DEF call
  <2> QED
    BY <2>1, <2>3, OthersOpen
<1>7. CASE DeleteOpeningRead(s)
  <2> DEFINE call == [op |-> "delete"]
  <2>1. /\ slot' = [slot EXCEPT ![s] = call] /\ locked' = locked /\ opening' = opening
        /\ DOMAIN opening \cap locked = {}
    BY <1>7 DEF DeleteOpeningRead, IsLocked, rows
  <2>2. slot'[s] = call
    BY <2>1 DEF TypeOK
  <2>3. Awaited(s)' \subseteq DOMAIN opening
    BY <2>1, <2>2 DEF Awaited
  <2> HIDE DEF call
  <2> QED
    BY <2>1, <2>3, OthersOpen
<1>8. ASSUME NEW m \in Months, ClosePeriodRead(s, m) PROVE OpenStill'
  <2> DEFINE moved == [a \in Accounts |-> UnclosedBalance(a, m)]
             call  == [op |-> "month", month |-> m, moved |-> moved]
  <2>1. /\ slot' = [slot EXCEPT ![s] = call] /\ locked' = locked /\ opening' = opening
        /\ m \notin locked
    BY <1>8 DEF ClosePeriodRead, IsLocked, rows
  <2> HIDE DEF moved
  <2>2. slot'[s] = call
    BY <2>1 DEF TypeOK
  <2>3. Awaited(s)' = {m}
    BY <2>2 DEF Awaited
  <2> HIDE DEF call
  <2> QED
    BY <2>1, <2>3, OthersOpen
<1>9. ASSUME NEW y \in Years, CloseFiscalYearRead(s, y) PROVE OpenStill'
  <2> DEFINE b    == CarriedProfit(y)
             call == [op |-> "year", year |-> y, balance |-> b]
  <2>1. /\ slot' = [slot EXCEPT ![s] = call] /\ locked' = locked /\ opening' = opening
        /\ b # 0 => December(y) \notin locked
    BY <1>9 DEF CloseFiscalYearRead, YearPostable, IsLocked, rows
  <2> HIDE DEF b
  <2>2. slot'[s] = call
    BY <2>1 DEF TypeOK
  <2>3. \A m \in Awaited(s)' : b # 0 /\ m = December(y)
    BY <2>2 DEF Awaited, December
  <2> HIDE DEF call
  <2> QED
    BY <2>1, <2>3, OthersOpen
<1>10. ASSUME NEW m \in Lockable, LockAccountingPeriod(s, m) PROVE OpenStill'
  <2>1. locked' = locked \cup {m} /\ slot' = slot /\ opening' = opening
    BY <1>10 DEF LockAccountingPeriod, rows
  <2>2. \A t \in Slots : Awaited(t)' = Awaited(t) /\ m \notin Awaited(t)
    BY <1>10, <2>1 DEF Awaited, NotLocked
  <2> QED
    BY <2>1, <2>2 DEF OpenStill
<1>12. CASE ReversalReads(s)
  <2>1. PICK call \in Reversing : slot' = [slot EXCEPT ![s] = call]
    BY <1>12, ReadsShape
  <2>2. locked' = locked /\ opening' = opening
    BY <1>12, ReadsShape DEF rows
  <2>3. slot'[s] = call
    BY <2>1 DEF TypeOK
  <2>4. Awaited(s)' = {}
    BY <2>3 DEF Awaited, Reversing
  <2> QED
    BY <2>1, <2>2, <2>4, OthersOpen
<1>11. ASSUME NEW m \in Lockable, UnlockAccountingPeriod(s, m) PROVE OpenStill'
  <2>1. locked' = locked \ {m} /\ slot' = slot /\ opening' = opening
    BY <1>11 DEF UnlockAccountingPeriod, rows
  <2> QED
    BY <2>1 DEF OpenStill, Awaited
<1> QED
  BY <1>2, <1>3, <1>4, <1>5, <1>6, <1>7, <1>8, <1>9, <1>10, <1>11, <1>12 DEF Serve, ReversalReads

LEMMA OpenInvariance == Spec /\ [][NotLocked]_vars => []OpenInv
<1>1. Init => OpenInv
  BY Initially DEF OpenInv, OpenStill, Awaited, Init, Idle
<1>2. OpenInv /\ [NotLocked]_vars /\ [Next]_vars => OpenInv'
  BY Stepwise, OpenStep DEF OpenInv, IInv
<1> QED
  BY <1>1, <1>2, PTL DEF Spec

(* The balances a closing has read are so until it commits.                *)
Upheld(k) ==
  /\ k.op = "month" => \A a \in Accounts : k.moved[a] = Balance(a, k.month)
  /\ k.op = "year" => k.balance = CarriedProfit(k.year) /\ Flat(December(k.year))

BalancesStill == \A s \in Slots : Upheld(slot[s])

StillInv == IInv /\ BalancesStill

LEMMA BalancesKept ==
  ASSUME ledger' = ledger
  PROVE  /\ \A c, n : Balance(c, n)' = Balance(c, n)
         /\ \A n : Flat(n)' <=> Flat(n)
         /\ \A y : CarriedProfit(y)' = CarriedProfit(y)
<1>1. \A c, n : Balance(c, n)' = Balance(c, n)
  BY BalanceKept
<1> QED
  BY <1>1 DEF Flat, CarriedProfit

LEMMA BalanceUntouched ==
  ASSUME ledger \in Ledgers, ledger' \in Ledgers, NEW c \in Codes, NEW n \in Months,
         \A r \in Sources, m \in 1..n : ledger'[r][c][m] = ledger[r][c][m]
  PROVE  Balance(c, n)' = Balance(c, n)
<1> DEFINE M == 1..n
<1>1. {c} \in SUBSET Codes /\ M \in SUBSET Months
  BY MonthNumbers
<1>2. \A r \in Sources, k \in {c}, m \in M : ledger'[r][k][m] = ledger[r][k][m]
  OBVIOUS
<1> HIDE DEF M
<1>3. Entries(ledger', Sources, {c}, M) = Entries(ledger, Sources, {c}, M)
  BY <1>1, <1>2, SameEntries
<1> QED
  BY <1>3, SumOfLedger, Zenon DEF Balance, M

(* A request changes its own slot; what it reads is what there is.         *)
LEMMA WhoReads ==
  ASSUME TypeOK, Next, NEW t \in Slots, slot'[t] # slot[t]
  PROVE  \/ slot'[t].op \notin {"month", "year"}
         \/ \E m \in Months : ClosePeriodRead(t, m)
         \/ \E y \in Years : CloseFiscalYearRead(t, y)
<1>1. PICK s \in Slots : Serve(s)
  BY DEF Next
<1>2. CASE \/ \E a \in Accounts, amount \in Amounts, m \in Months : PostVoucher(s, a, amount, m)
           \/ \E d \in drafts : PostReversal(s, d)
           \/ \E m \in Lockable : LockAccountingPeriod(s, m) \/ UnlockAccountingPeriod(s, m)
  BY <1>2 DEF PostVoucher, PostReversal, LockAccountingPeriod, UnlockAccountingPeriod
<1>3. CASE PostOpeningCommit(s) \/ DeleteOpeningCommit(s) \/ ClosePeriodCommit(s)
           \/ CloseFiscalYearCommit(s) \/ Abandon(s)
           \/ \E today \in Todays : ReverseCommit(s, today)
  BY <1>3 DEF PostOpeningCommit, DeleteOpeningCommit, ClosePeriodCommit, CloseFiscalYearCommit,
     ReverseCommit, Abandon, Answer, TypeOK, Idle
<1>7. CASE ReversalReads(s)
  <2>1. PICK call \in Reversing : slot' = [slot EXCEPT ![s] = call]
    BY <1>7, ReadsShape
  <2>2. slot'[t] = call
    BY <2>1 DEF TypeOK
  <2> QED
    BY <2>2 DEF Reversing
<1>4. CASE \/ \E m \in Months, amount \in OpeningAmounts : PostOpeningRead(s, m, amount)
           \/ DeleteOpeningRead(s)
  BY <1>4 DEF PostOpeningRead, DeleteOpeningRead, TypeOK
<1>5. ASSUME NEW m \in Months, ClosePeriodRead(s, m) PROVE ClosePeriodRead(t, m)
  <2>1. s = t
    BY <1>5 DEF ClosePeriodRead, TypeOK
  <2> QED
    BY <1>5, <2>1
<1>6. ASSUME NEW y \in Years, CloseFiscalYearRead(s, y) PROVE CloseFiscalYearRead(t, y)
  <2>1. s = t
    BY <1>6 DEF CloseFiscalYearRead, TypeOK
  <2> QED
    BY <1>6, <2>1
<1> QED
  BY <1>1, <1>2, <1>3, <1>4, <1>5, <1>6, <1>7 DEF Serve, ReversalReads

LEMMA UpheldStep ==
  ASSUME IInv, TypeOK', Undisturbed, NEW t \in Slots, slot'[t] = slot[t], Upheld(slot[t])
  PROVE  \A k : k = slot[t] => Upheld(k)'
<1> SUFFICES ASSUME NEW k, k = slot[t] PROVE Upheld(k)'
  OBVIOUS
<1>a. /\ ledger \in Ledgers /\ ledger' \in Ledgers /\ k \in Requests /\ Upheld(k)
      /\ \A a \in Accounts : a \in Codes
      /\ "Profit" \in Codes
  BY CodeNames DEF IInv, TypeOK, Ledgers
<1>1. ASSUME k.op = "month"
      PROVE  \A a \in Accounts : Balance(a, k.month)' = Balance(a, k.month)
  <2>1. k.month \in Months
    BY <1>a, <1>1, CallShape DEF MonthClosing
  <2>2. PICK n \in Months : n = k.month
    BY <2>1
  <2>3. \A a \in Accounts, r \in Sources, m \in 1..n : ledger'[r][a][m] = ledger[r][a][m]
    BY <1>1, <2>2 DEF Undisturbed, Moves, UpTo
  <2>4. \A a \in Accounts : Balance(a, n)' = Balance(a, n)
    BY <1>a, <2>3, BalanceUntouched
  <2> QED
    BY <2>2, <2>4
<1>2. ASSUME k.op = "year"
      PROVE  /\ \A a \in Accounts : Balance(a, December(k.year))' = Balance(a, December(k.year))
             /\ CarriedProfit(k.year)' = CarriedProfit(k.year)
  <2>1. k.year \in Years
    BY <1>a, <1>2, CallShape DEF YearClosing
  <2>2. PICK n \in Months : n = December(k.year)
    BY <2>1, Decembers
  <2>3. \A c \in Accounts \cup {"Profit"}, r \in Sources, m \in 1..n :
          ledger'[r][c][m] = ledger[r][c][m]
    BY <1>2, <2>2 DEF Undisturbed, Moves, UpTo
  <2>4. \A c \in Accounts \cup {"Profit"} : Balance(c, n)' = Balance(c, n)
    BY <1>a, <2>3, BalanceUntouched
  <2> QED
    BY <2>2, <2>4 DEF CarriedProfit
<1> QED
  BY <1>a, <1>1, <1>2 DEF Upheld, Flat

LEMMA StillStep == IInv /\ BalancesStill /\ [Undisturbed]_vars /\ [Next]_vars => BalancesStill'
<1> SUFFICES ASSUME IInv, BalancesStill, [Undisturbed]_vars, [Next]_vars, NEW t \in Slots
             PROVE  Upheld(slot[t])'
  BY DEF BalancesStill
<1>a. TypeOK /\ TypeOK'
  BY Stepwise DEF IInv
<1>1. CASE UNCHANGED vars
  BY <1>1, BalancesKept DEF vars, BalancesStill, Upheld
<1>2. CASE Undisturbed /\ slot'[t] = slot[t]
  <2>1. Upheld(slot[t])
    BY DEF BalancesStill
  <2>2. \A k : k = slot[t] => Upheld(k)'
    BY <1>a, <1>2, <2>1, UpheldStep
  <2> QED
    BY <1>2, <2>2 DEF Upheld
<1>3. CASE Next /\ slot'[t] # slot[t]
  <2>1. CASE slot'[t].op \notin {"month", "year"}
    BY <2>1 DEF Upheld
  <2>2. ASSUME NEW m \in Months, ClosePeriodRead(t, m) PROVE Upheld(slot[t])'
    <3> DEFINE moved == [a \in Accounts |-> UnclosedBalance(a, m)]
    <3>1. slot'[t] = [op |-> "month", month |-> m, moved |-> moved] /\ ledger' = ledger
      BY <1>a, <2>2 DEF ClosePeriodRead, TypeOK, rows
    <3>2. \A a \in Accounts : moved[a] = Balance(a, m)'
      BY <3>1, BalancesKept DEF UnclosedBalance
    <3> HIDE DEF moved
    <3>3. slot'[t].op = "month" /\ slot'[t].month = m /\ slot'[t].moved = moved
      BY <3>1
    <3> QED
      BY <3>2, <3>3 DEF Upheld
  <2>3. ASSUME NEW y \in Years, CloseFiscalYearRead(t, y) PROVE Upheld(slot[t])'
    <3> DEFINE b == CarriedProfit(y)
    <3>1. /\ slot'[t] = [op |-> "year", year |-> y, balance |-> b] /\ ledger' = ledger
          /\ Flat(December(y))
      BY <1>a, <2>3 DEF CloseFiscalYearRead, TypeOK, rows, YearReady, UnclosedAccounts, Flat
    <3>2. b = CarriedProfit(y)' /\ Flat(December(y))'
      BY <3>1, BalancesKept
    <3> HIDE DEF b
    <3>3. slot'[t].op = "year" /\ slot'[t].year = y /\ slot'[t].balance = b
      BY <3>1
    <3> QED
      BY <3>2, <3>3 DEF Upheld
  <2> QED
    BY <1>a, <1>3, <2>1, <2>2, <2>3, WhoReads
<1> QED
  BY <1>1, <1>2, <1>3

LEMMA StillInvariance == Spec /\ [][Undisturbed]_vars => []StillInv
<1>1. Init => StillInv
  BY Initially DEF StillInv, BalancesStill, Upheld, Init, Idle
<1>2. StillInv /\ [Undisturbed]_vars /\ [Next]_vars => StillInv'
  BY Stepwise, StillStep DEF StillInv
<1> QED
  BY <1>1, <1>2, PTL DEF Spec

(* Lines are entered in months that are not locked.                        *)
LEMMA LockedStep ==
  ASSUME OpenInv, [Next]_vars
  PROVE  \A m \in locked, r \in Sources, c \in Codes : ledger'[r][c][m] = ledger[r][c][m]
<1> DEFINE Goal == \A m \in locked, r \in Sources, c \in Codes : ledger'[r][c][m] = ledger[r][c][m]
<1>a. ledger \in Ledgers /\ locked \subseteq Months /\ TypeOK /\ OpenStill
  BY DEF OpenInv, IInv, TypeOK, Ledgers
<1>b. \A q \in {"voucher", "closing_reversal", "period_closing", "annual_closing",
                "opening_balance", "opening_reversal"} : q \in Sources
  BY DEF Sources, Posted
<1>c. ASSUME NEW r \in Sources, NEW m \in Months, NEW lines \in Voucher, Enter(r, m, lines), m \notin locked
      PROVE  Goal
  BY <1>a, <1>c, Entering
<1>0. CASE UNCHANGED ledger
  BY <1>0
<1>1. ASSUME NEW s \in Slots, NEW a \in Accounts, NEW amount \in Amounts, NEW m \in Months,
             PostVoucher(s, a, amount, m)
      PROVE  Goal
  <2>1. Lines({a}, [x \in {a} |-> amount]) \in Voucher
    BY ClosingAssumption DEF Lines, Voucher
  <2> QED
    BY <1>b, <1>c, <1>1, <2>1 DEF PostVoucher, IsLocked
<1>2. ASSUME NEW s \in Slots, NEW d \in drafts, PostReversal(s, d) PROVE Goal
  <2> HIDE DEF Goal
  <2> QED
    BY <1>a, <1>c, <1>2, ReversalEntered
<1>3. ASSUME NEW s \in Slots, ReversalReads(s) PROVE Goal
  BY <1>0, <1>3, <1>a, ReadsShape DEF rows
<1>4. ASSUME NEW s \in Slots, NEW today \in Todays, ReverseCommit(s, today) PROVE Goal
  BY <1>0, <1>4 DEF ReverseCommit
<1>5. ASSUME NEW s \in Slots, PostOpeningCommit(s) PROVE Goal
  <2> DEFINE m == slot[s].month
             b == slot[s].amount
             lines == Lines({"Retained"}, [Retained |-> b])
  <2>1. slot[s] \in Requests /\ slot[s].op = "open"
    BY <1>a, <1>5 DEF PostOpeningCommit, TypeOK
  <2>2. m \in Months /\ b \in Int /\ m \notin locked
    BY <1>a, <2>1, CallShape, ClosingAssumption DEF Opening, OpenStill, Awaited
  <2>3. Enter("opening_balance", m, lines)
    BY <1>5 DEF PostOpeningCommit
  <2> HIDE DEF m, b
  <2>4. lines \in Voucher
    BY <2>2 DEF Lines, Voucher
  <2> HIDE DEF lines, Goal
  <2> QED
    BY <1>b, <1>c, <2>2, <2>3, <2>4
<1>6. ASSUME NEW s \in Slots, DeleteOpeningCommit(s) PROVE Goal
  <2>1. slot[s].op = "delete"
        /\ ledger' = [ledger EXCEPT !["opening_balance"] = [c \in Codes |-> [m \in Months |-> 0]]]
    BY <1>6 DEF DeleteOpeningCommit
  <2>2. \A m \in locked, c \in Codes : ledger["opening_balance"][c][m] = 0
    BY <1>a, <2>1 DEF OpenStill, Awaited, OpenInv, IInv, OpeningRows
  <2>3. \A m \in locked, c \in Codes : ledger'["opening_balance"][c][m] = 0
    BY <1>a, <1>b, <2>1 DEF Ledgers
  <2>4. \A r \in Sources \ {"opening_balance"} : ledger'[r] = ledger[r]
    BY <1>a, <2>1 DEF Ledgers
  <2> QED
    BY <2>2, <2>3, <2>4
<1>7. ASSUME NEW s \in Slots, ClosePeriodCommit(s) PROVE Goal
  <2> DEFINE m     == slot[s].month
             moved == slot[s].moved
             total == SumFunctionOnSet(moved, Accounts)
             lines == [c \in Codes |-> IF c \in Accounts THEN -moved[c]
                                       ELSE IF c = "Profit" THEN total ELSE 0]
  <2>1. slot[s] \in Requests /\ slot[s].op = "month"
    BY <1>a, <1>7 DEF ClosePeriodCommit, TypeOK
  <2>2. m \in Months /\ moved \in [Accounts -> Int] /\ m \notin locked
    BY <1>a, <2>1, CallShape DEF MonthClosing, OpenStill, Awaited
  <2>3. Enter("period_closing", m, lines)
    BY <1>7 DEF ClosePeriodCommit
  <2> HIDE DEF m, moved
  <2>4. total \in Int
    BY <2>2, SumType, ClosingAssumption
  <2> HIDE DEF total
  <2>5. lines \in Voucher
    BY <2>2, <2>4 DEF Voucher
  <2> HIDE DEF lines, Goal
  <2> QED
    BY <1>b, <1>c, <2>2, <2>3, <2>5
<1>8. ASSUME NEW s \in Slots, CloseFiscalYearCommit(s) PROVE Goal
  <2> DEFINE y == slot[s].year
             b == slot[s].balance
             lines == Lines({"Profit", "Retained"}, [Profit |-> -b, Retained |-> b])
  <2>1. slot[s] \in Requests /\ slot[s].op = "year"
    BY <1>a, <1>8 DEF CloseFiscalYearCommit, TypeOK
  <2>2. y \in Years /\ b \in Int /\ (b # 0 => December(y) \notin locked)
    BY <1>a, <2>1, CallShape DEF YearClosing, OpenStill, Awaited
  <2>3. IF b = 0 THEN UNCHANGED <<ledger, active>> ELSE Enter("annual_closing", December(y), lines)
    BY <1>8 DEF CloseFiscalYearCommit
  <2> HIDE DEF y, b
  <2>4. lines \in Voucher /\ December(y) \in Months
    BY <2>2, Decembers DEF Lines, Voucher
  <2> HIDE DEF lines
  <2>5. CASE b = 0
    BY <1>0, <2>3, <2>5
  <2>6. CASE b # 0
    <3>1. Enter("annual_closing", December(y), lines)
      BY <2>3, <2>6
    <3> HIDE DEF Goal
    <3> QED
      BY <1>b, <1>c, <2>2, <2>4, <2>6, <3>1
  <2> QED
    BY <2>5, <2>6
<1>9. CASE UNCHANGED rows
  BY <1>0, <1>9 DEF rows
<1>10. CASE UNCHANGED vars
  BY <1>0, <1>10 DEF vars
<1>11. ASSUME NEW s \in Slots, Serve(s) PROVE Goal
  <2>1. CASE \/ \E m \in Months, amount \in OpeningAmounts : PostOpeningRead(s, m, amount)
             \/ DeleteOpeningRead(s)
             \/ \E m \in Months : ClosePeriodRead(s, m)
             \/ \E y \in Years : CloseFiscalYearRead(s, y)
             \/ Abandon(s)
             \/ \E m \in Lockable : LockAccountingPeriod(s, m) \/ UnlockAccountingPeriod(s, m)
    <3>1. UNCHANGED rows
      BY <2>1 DEF PostOpeningRead, DeleteOpeningRead, ClosePeriodRead, CloseFiscalYearRead,
         Abandon, LockAccountingPeriod, UnlockAccountingPeriod
    <3> QED
      BY <1>9, <3>1
  <2> HIDE DEF Goal
  <2> QED
    BY <1>1, <1>2, <1>3, <1>4, <1>5, <1>6, <1>7, <1>8, <1>11, <2>1 DEF Serve, ReversalReads
<1>12. CASE Next
  <2>1. PICK s \in Slots : Serve(s)
    BY <1>12 DEF Next
  <2> QED
    BY <1>11, <2>1
<1> QED
  BY <1>10, <1>12

(* While a month is locked its entries stay as they are.                   *)
THEOREM LockedMonthsAreFrozen == Spec /\ [][NotLocked]_vars => LockedMonthFrozen
<1>1. OpenInv /\ [Next]_vars =>
        [\A m \in locked, r \in Sources, c \in Codes : ledger'[r][c][m] = ledger[r][c][m]]_vars
  BY LockedStep
<1> QED
  BY <1>1, OpenInvariance, PTL DEF Spec, LockedMonthFrozen

(* What a month's closing enters.                                          *)
LEMMA MonthFlat ==
  ASSUME StillInv, NEW s \in Slots, ClosePeriodCommit(s), NEW m, m = slot[s].month
  PROVE  NewlyClosedMonths \subseteq {m} /\ \A a \in Accounts : Balance(a, m)' = 0
<1>1. slot[s] \in Requests /\ slot[s].op = "month"
  BY DEF ClosePeriodCommit, StillInv, IInv, TypeOK
<1>2. PICK moved \in [Accounts -> Int] : moved = slot[s].moved
  BY <1>1, CallShape DEF MonthClosing
<1>3. m \in Months /\ \A a \in Accounts : moved[a] = Balance(a, m)
  BY <1>1, <1>2, CallShape DEF MonthClosing, BalancesStill, Upheld, StillInv
<1>4. PICK total : total = SumFunctionOnSet(moved, Accounts)
  OBVIOUS
<1>5. total \in Int
  BY <1>2, <1>4, SumType, ClosingAssumption
<1>6. PICK lines : lines = [c \in Codes |-> IF c \in Accounts THEN -moved[c]
                                            ELSE IF c = "Profit" THEN total ELSE 0]
  OBVIOUS
<1>7. /\ Enter("period_closing", m, lines)
      /\ closing' = [x \in ClosedMonths \cup {m} |-> IF x = m THEN -total ELSE closing[x]]
  BY <1>2, <1>4, <1>6 DEF ClosePeriodCommit
<1>8. NewlyClosedMonths \subseteq {m}
  BY <1>7 DEF NewlyClosedMonths, ClosedMonths
<1>9. lines \in Voucher /\ \A a \in Accounts : lines[a] = -moved[a]
  BY <1>2, <1>5, <1>6, CodeNames DEF Voucher
<1>10. ledger \in Ledgers
  BY DEF StillInv, IInv, TypeOK, Ledgers
<1>11. ASSUME NEW a \in Accounts PROVE Balance(a, m)' = 0
  <2>1. Balance(a, m)' = IF m <= m THEN Balance(a, m) + lines[a] ELSE Balance(a, m)
    BY <1>3, <1>7, <1>9, <1>10, CodeNames, BalanceEntered
  <2>2. Balance(a, m) \in Int /\ m \in Nat
    BY <1>3, <1>10, CodeNames, BalanceType, MonthNumbers
  <2> QED
    BY <1>3, <1>9, <2>1, <2>2
<1> QED
  BY <1>8, <1>11

(* Once a month is closed its profit-and-loss accounts net to zero.        *)
THEOREM MonthsCloseCompletely == Spec /\ [][Undisturbed]_vars => ClosingIsComplete
<1>1. StillInv /\ [Next]_vars => [\A m \in NewlyClosedMonths : Flat(m)']_vars
  <2> SUFFICES ASSUME StillInv, [Next]_vars, NEW m \in NewlyClosedMonths PROVE Flat(m)'
    OBVIOUS
  <2>1. PICK s \in Slots : ClosePeriodCommit(s)
    BY LedgerSteps DEF StillInv, IInv, ClosingsKept, NewlyClosedMonths
  <2>2. PICK n : n = slot[s].month
    OBVIOUS
  <2>3. NewlyClosedMonths \subseteq {n} /\ \A a \in Accounts : Balance(a, n)' = 0
    BY <2>1, <2>2, MonthFlat
  <2> QED
    BY <2>3 DEF Flat
<1> QED
  BY <1>1, StillInvariance, PTL DEF Spec, ClosingIsComplete

(* What a year's closing enters.                                           *)
LEMMA YearFlat ==
  ASSUME StillInv, NEW s \in Slots, CloseFiscalYearCommit(s), NEW y, y = slot[s].year
  PROVE  /\ NewlyClosedYears \subseteq {y} /\ y \in Years
         /\ Flat(December(y))' /\ Balance("Profit", December(y))' = 0
<1>1. slot[s] \in Requests /\ slot[s].op = "year"
  BY DEF CloseFiscalYearCommit, StillInv, IInv, TypeOK
<1>2. PICK b : b = slot[s].balance
  OBVIOUS
<1>3. PICK n : n = December(y)
  OBVIOUS
<1>4. y \in Years /\ b \in Int /\ b = Balance("Profit", n) /\ \A a \in Accounts : Balance(a, n) = 0
  BY <1>1, <1>2, <1>3, CallShape DEF YearClosing, BalancesStill, Upheld, StillInv, CarriedProfit, Flat
<1>5. PICK lines : lines = Lines({"Profit", "Retained"}, [Profit |-> -b, Retained |-> b])
  OBVIOUS
<1>6. /\ IF b = 0 THEN UNCHANGED <<ledger, active>> ELSE Enter("annual_closing", n, lines)
      /\ annual' = [x \in ClosedYears \cup {y} |-> IF x = y THEN -b ELSE annual[x]]
  BY <1>2, <1>3, <1>5 DEF CloseFiscalYearCommit
<1>7. NewlyClosedYears \subseteq {y}
  BY <1>6 DEF NewlyClosedYears, ClosedYears
<1>8. n \in Months /\ n \in Nat
  BY <1>3, <1>4, Decembers, MonthNumbers
<1>9. lines \in Voucher /\ lines["Profit"] = -b /\ \A a \in Accounts : lines[a] = 0
  BY <1>4, <1>5, CodeNames DEF Lines, Voucher
<1>10. ledger \in Ledgers
  BY DEF StillInv, IInv, TypeOK, Ledgers
<1>11. Balance("Profit", n)' = 0 /\ \A a \in Accounts : Balance(a, n)' = 0
  <2>1. CASE b = 0
    BY <1>4, <1>6, <2>1, BalancesKept
  <2>2. CASE b # 0
    <3>1. Enter("annual_closing", n, lines)
      BY <1>6, <2>2
    <3>2. \A c \in Codes : Balance(c, n)' = IF n <= n THEN Balance(c, n) + lines[c] ELSE Balance(c, n)
      BY <1>8, <1>9, <1>10, <3>1, CodeNames, BalanceEntered
    <3>3. \A c \in Codes : Balance(c, n)' = Balance(c, n) + lines[c]
      BY <1>8, <3>2
    <3> QED
      BY <1>4, <1>9, <3>3, CodeNames
  <2> QED
    BY <2>1, <2>2
<1>12. Flat(n)'
  BY <1>11 DEF Flat
<1>13. December(y)' = n
  BY <1>3 DEF December
<1> QED
  BY <1>3, <1>4, <1>7, <1>11, <1>12

(* A year is closed with nothing left on profit and loss nor on Profit.    *)
THEOREM YearsCloseCompletely == Spec /\ [][Undisturbed]_vars => YearIsComplete
<1>1. StillInv /\ [Next]_vars =>
        [\A y \in NewlyClosedYears :
           /\ Flat(December(y))'
           /\ Balance("Profit", December(y))' = 0]_vars
  <2> SUFFICES ASSUME StillInv, [Next]_vars, NEW y \in NewlyClosedYears
               PROVE  Flat(December(y))' /\ Balance("Profit", December(y))' = 0
    OBVIOUS
  <2>1. PICK s \in Slots : CloseFiscalYearCommit(s)
    BY LedgerSteps DEF StillInv, IInv, AnnualsKept, NewlyClosedYears
  <2>2. PICK x : x = slot[s].year
    OBVIOUS
  <2>3. /\ NewlyClosedYears \subseteq {x}
        /\ Flat(December(x))' /\ Balance("Profit", December(x))' = 0
    BY <2>1, <2>2, YearFlat
  <2>4. x = y
    BY <2>3
  <2> QED
    BY <2>3, <2>4
<1> QED
  BY <1>1, StillInvariance, PTL DEF Spec, YearIsComplete

-----------------------------------------------------------------------------
(* What the closed years have carried over.                                *)

(* Entries, of any set of them.                                            *)
Over(l, X) == SumFunctionOnSet([e \in X |-> l[e[1]][e[2]][e[3]]], X)

LEMMA SplitEntries ==
  ASSUME NEW l \in Ledgers, NEW X \in SUBSET (Sources \X Codes \X Months),
         NEW Y \in SUBSET (Sources \X Codes \X Months), X \cap Y = {}
  PROVE  Over(l, X \cup Y) = Over(l, X) + Over(l, Y)
<1> DEFINE f == [e \in X |-> l[e[1]][e[2]][e[3]]]
           g == [e \in Y |-> l[e[1]][e[2]][e[3]]]
           h == [e \in X \cup Y |-> l[e[1]][e[2]][e[3]]]
<1>1. IsFiniteSet(Sources \X Codes \X Months)
  BY FiniteEntries
<1>2. IsFiniteSet(X) /\ IsFiniteSet(Y)
  BY <1>1, FS_Subset
<1>3. \A e \in X \cup Y : h[e] \in Int
  <2> TAKE e \in X \cup Y
  <2>1. e[1] \in Sources /\ e[2] \in Codes /\ e[3] \in Months
    OBVIOUS
  <2> QED
    BY <2>1 DEF Ledgers
<1>4. (\A e \in X : f[e] = h[e]) /\ (\A e \in Y : g[e] = h[e])
  OBVIOUS
<1> HIDE DEF f, g, h
<1>5. SumFunctionOnSet(h, X \cup Y) = SumFunctionOnSet(h, X) + SumFunctionOnSet(h, Y)
  BY <1>2, <1>3, SumDisjoint
<1>6. SumFunctionOnSet(h, X) = SumFunctionOnSet(f, X)
  BY <1>2, <1>3, <1>4, SumAgree
<1>7. SumFunctionOnSet(h, Y) = SumFunctionOnSet(g, Y)
  BY <1>2, <1>3, <1>4, SumAgree
<1> QED
  BY <1>5, <1>6, <1>7 DEF Over, f, g, h

LEMMA OverEntries ==
  ASSUME NEW l, NEW sources, NEW codes, NEW months
  PROVE  Entries(l, sources, codes, months) = Over(l, sources \X codes \X months)
BY Zenon DEF Entries, Over

(* Sums over one code, one source or one month after another.              *)
LEMMA SplitCodes ==
  ASSUME NEW l \in Ledgers, NEW sources \in SUBSET Sources, NEW months \in SUBSET Months,
         NEW codes \in SUBSET Codes, NEW more \in SUBSET Codes, codes \cap more = {}
  PROVE  Entries(l, sources, codes \cup more, months)
           = Entries(l, sources, codes, months) + Entries(l, sources, more, months)
<1> DEFINE X == sources \X codes \X months
           Y == sources \X more \X months
           Z == sources \X (codes \cup more) \X months
<1>1. /\ X \in SUBSET (Sources \X Codes \X Months) /\ Y \in SUBSET (Sources \X Codes \X Months)
      /\ X \cap Y = {} /\ Z = X \cup Y
  OBVIOUS
<1> HIDE DEF X, Y, Z
<1>2. Over(l, Z) = Over(l, X) + Over(l, Y)
  BY <1>1, SplitEntries
<1> QED
  BY <1>2, OverEntries DEF X, Y, Z

LEMMA SplitSources ==
  ASSUME NEW l \in Ledgers, NEW codes \in SUBSET Codes, NEW months \in SUBSET Months,
         NEW sources \in SUBSET Sources, NEW more \in SUBSET Sources, sources \cap more = {}
  PROVE  Entries(l, sources \cup more, codes, months)
           = Entries(l, sources, codes, months) + Entries(l, more, codes, months)
<1> DEFINE X == sources \X codes \X months
           Y == more \X codes \X months
           Z == (sources \cup more) \X codes \X months
<1>1. /\ X \in SUBSET (Sources \X Codes \X Months) /\ Y \in SUBSET (Sources \X Codes \X Months)
      /\ X \cap Y = {} /\ Z = X \cup Y
  OBVIOUS
<1> HIDE DEF X, Y, Z
<1>2. Over(l, Z) = Over(l, X) + Over(l, Y)
  BY <1>1, SplitEntries
<1> QED
  BY <1>2, OverEntries DEF X, Y, Z

LEMMA SplitMonths ==
  ASSUME NEW l \in Ledgers, NEW sources \in SUBSET Sources, NEW codes \in SUBSET Codes,
         NEW months \in SUBSET Months, NEW more \in SUBSET Months, months \cap more = {}
  PROVE  Entries(l, sources, codes, months \cup more)
           = Entries(l, sources, codes, months) + Entries(l, sources, codes, more)
<1> DEFINE X == sources \X codes \X months
           Y == sources \X codes \X more
           Z == sources \X codes \X (months \cup more)
<1>1. /\ X \in SUBSET (Sources \X Codes \X Months) /\ Y \in SUBSET (Sources \X Codes \X Months)
      /\ X \cap Y = {} /\ Z = X \cup Y
  OBVIOUS
<1> HIDE DEF X, Y, Z
<1>2. Over(l, Z) = Over(l, X) + Over(l, Y)
  BY <1>1, SplitEntries
<1> QED
  BY <1>2, OverEntries DEF X, Y, Z

(* Codes that each sum to zero sum to zero, and so do months.              *)
LEMMA CodesZero ==
  ASSUME NEW l \in Ledgers, NEW sources \in SUBSET Sources, NEW codes \in SUBSET Codes,
         NEW months \in SUBSET Months,
         \A c \in codes : Entries(l, sources, {c}, months) = 0
  PROVE  Entries(l, sources, codes, months) = 0
<1> DEFINE P == {k \in SUBSET codes : Entries(l, sources, k, months) = 0}
<1>1. IsFiniteSet(codes)
  BY FiniteCodes, FS_Subset
<1>2. {} \in P
  BY EntriesZero
<1>3. ASSUME NEW k \in SUBSET codes, NEW c \in codes, c \notin k, k \in P
      PROVE  k \cup {c} \in P
  <2> DEFINE C == {c}
  <2>1. C \in SUBSET Codes /\ k \in SUBSET Codes /\ k \cap C = {} /\ Entries(l, sources, C, months) = 0
        /\ Entries(l, sources, k, months) = 0
    BY <1>3
  <2> HIDE DEF C
  <2>2. Entries(l, sources, k \cup C, months) = 0 + 0
    BY <2>1, SplitCodes
  <2> QED
    BY <2>2 DEF C
<1> HIDE DEF P
<1>4. codes \in P
  BY <1>1, <1>2, <1>3, FiniteInduction
<1> QED
  BY <1>4 DEF P

LEMMA MonthsZero ==
  ASSUME NEW l \in Ledgers, NEW sources \in SUBSET Sources, NEW codes \in SUBSET Codes,
         NEW months \in SUBSET Months,
         \A m \in months : Entries(l, sources, codes, {m}) = 0
  PROVE  Entries(l, sources, codes, months) = 0
<1> DEFINE P == {k \in SUBSET months : Entries(l, sources, codes, k) = 0}
<1>1. IsFiniteSet(months)
  BY MonthNumbers, FS_Subset
<1>2. {} \in P
  BY EntriesZero
<1>3. ASSUME NEW k \in SUBSET months, NEW m \in months, m \notin k, k \in P
      PROVE  k \cup {m} \in P
  <2> DEFINE M == {m}
  <2>1. M \in SUBSET Months /\ k \in SUBSET Months /\ k \cap M = {} /\ Entries(l, sources, codes, M) = 0
        /\ Entries(l, sources, codes, k) = 0
    BY <1>3
  <2> HIDE DEF M
  <2>2. Entries(l, sources, codes, k \cup M) = 0 + 0
    BY <2>1, SplitMonths
  <2> QED
    BY <2>2 DEF M
<1> HIDE DEF P
<1>4. months \in P
  BY <1>1, <1>2, <1>3, FiniteInduction
<1> QED
  BY <1>4 DEF P

(* The closing of a month nets to zero over profit and loss and Profit.    *)
LEMMA ClosingNets ==
  ASSUME IInv, NEW months \in SUBSET Months
  PROVE  Entries(ledger, {"period_closing"}, Accounts \cup {"Profit"}, months) = 0
<1> DEFINE K == Accounts \cup {"Profit"}
           R == {"period_closing"}
           P == {"Profit"}
<1>a. /\ ledger \in Ledgers /\ R \in SUBSET Sources /\ P \in SUBSET Codes
      /\ Accounts \in SUBSET Codes /\ Accounts \cap P = {} /\ K = Accounts \cup P
  BY CodeNames DEF IInv, TypeOK, Ledgers
<1>1. ASSUME NEW m \in Months PROVE Entries(ledger, R, K, {m}) = 0
  <2> DEFINE M == {m}
             f == [a \in Accounts |-> ledger["period_closing"][a][m]]
             p == [a \in P |-> ledger["period_closing"][a][m]]
             h == [a \in K |-> <<"period_closing", a, m>>]
             gA == [e \in R \X Accounts \X M |-> ledger[e[1]][e[2]][e[3]]]
             gP == [e \in R \X P \X M |-> ledger[e[1]][e[2]][e[3]]]
  <2>1. SumFunctionOnSet(f, Accounts) + ledger["period_closing"]["Profit"][m] = 0
    BY DEF IInv, ClosingRows
  <2>2. {h[a] : a \in Accounts} = R \X Accounts \X M /\ {h[a] : a \in P} = R \X P \X M
    OBVIOUS
  <2>3. /\ \A a \in Accounts : f[a] \in Int /\ f[a] = gA[h[a]]
        /\ \A a \in P : p[a] \in Int /\ p[a] = gP[h[a]]
        /\ \A a, b \in K : h[a] = h[b] => a = b
    BY <1>a DEF Ledgers
  <2>4. p["Profit"] = ledger["period_closing"]["Profit"][m] /\ p["Profit"] \in Int
    BY <1>a DEF Ledgers
  <2>5. M \in SUBSET Months
    OBVIOUS
  <2>6. IsFiniteSet(Accounts) /\ IsFiniteSet(P)
    BY ClosingAssumption, FS_Singleton
  <2> HIDE DEF f, h, p, gA, gP, R, K, M
  <2>7. SumFunctionOnSet(f, Accounts) = SumFunctionOnSet(gA, {h[a] : a \in Accounts})
    BY <1>a, <2>3, <2>6, SumRenamed
  <2>8. SumFunctionOnSet(p, P) = SumFunctionOnSet(gP, {h[a] : a \in P})
    <3> HIDE DEF P
    <3> QED
      BY <1>a, <2>3, <2>6, SumRenamed
  <2>9. SumFunctionOnSet(p, P) = p["Profit"]
    BY <2>4, SumOne
  <2>10. Entries(ledger, R, K, M) = Entries(ledger, R, Accounts, M) + Entries(ledger, R, P, M)
    <3> HIDE DEF P
    <3> QED
      BY <1>a, <2>5, SplitCodes
  <2>11. /\ Entries(ledger, R, Accounts, M) = SumFunctionOnSet(f, Accounts)
         /\ Entries(ledger, R, P, M) = p["Profit"]
    BY <2>2, <2>7, <2>8, <2>9, Zenon DEF Entries, gA, gP
  <2>12. Entries(ledger, R, K, M) = 0
    BY <2>1, <2>4, <2>10, <2>11
  <2> QED
    BY <2>12 DEF M
<1>2. K \in SUBSET Codes
  BY <1>a
<1> HIDE DEF K, R
<1>3. Entries(ledger, R, K, months) = 0
  BY <1>a, <1>1, <1>2, MonthsZero
<1> QED
  BY <1>3 DEF K, R

(* The closings of years up to y take from Profit what is kept with them.  *)
LEMMA AnnualSum ==
  ASSUME IInv, NEW y \in Years
  PROVE  Entries(ledger, {"annual_closing"}, Accounts \cup {"Profit"}, 1..December(y))
           = SumFunctionOnSet(annual, ClosedYears \cap 1..y)
<1> DEFINE K == Accounts \cup {"Profit"}
           R == {"annual_closing"}
           P == {"Profit"}
           M == 1..December(y)
           Y == ClosedYears \cap 1..y
           g == [e \in R \X P \X M |-> ledger[e[1]][e[2]][e[3]]]
           h == [x \in Y |-> <<"annual_closing", "Profit", December(x)>>]
           T == {h[x] : x \in Y}
<1>a. /\ ledger \in Ledgers /\ R \in SUBSET Sources /\ P \in SUBSET Codes
      /\ Accounts \in SUBSET Codes /\ Accounts \cap P = {} /\ K = Accounts \cup P
  BY CodeNames DEF IInv, TypeOK, Ledgers
<1>b. M \in SUBSET Months /\ December(y) \in Months /\ December(y) \in Nat
  BY Decembers, MonthNumbers
<1>c. Y \subseteq Years /\ Y \subseteq ClosedYears /\ \A x \in ClosedYears : x \in Nat /\ (x \in Y <=> x <= y)
  BY ClosingAssumption DEF IInv, TypeOK, Years
<1>d. \A x \in Years : x \in Y \/ x \notin ClosedYears \/ (x > y)
  BY ClosingAssumption DEF Years
<1>1. \A x \in Y : December(x) \in M
  <2> TAKE x \in Y
  <2>1. x \in Years /\ x <= y
    BY <1>c
  <2>2. x < y \/ x = y
    BY <2>1, ClosingAssumption DEF Years
  <2>3. December(x) \in Nat \ {0}
    BY <2>1, Decembers, MonthNumbers
  <2>4. December(x) <= December(y)
    <3>1. CASE x = y
      BY <1>b, <3>1
    <3>2. CASE x < y
      BY <1>b, <2>1, <2>3, <3>2, Decembers
    <3> QED
      BY <2>2, <3>1, <3>2
  <2> QED
    BY <1>b, <2>3, <2>4
<1>2. \A m \in M : ledger["annual_closing"]["Profit"][m] # 0 => \E x \in Y : m = December(x)
  <2> SUFFICES ASSUME NEW m \in M, ledger["annual_closing"]["Profit"][m] # 0
               PROVE  \E x \in Y : m = December(x)
    OBVIOUS
  <2>1. PICK x \in ClosedYears : m = December(x)
    BY <1>b DEF IInv, AnnualRows
  <2>2. x \in Years /\ x \in Nat /\ y \in Nat /\ m <= December(y) /\ December(x) \in Nat
    BY <1>b, <1>c, <2>1, Decembers, MonthNumbers, ClosingAssumption DEF IInv, TypeOK, Years
  <2>3. ~(y < x)
    BY <1>b, <2>1, <2>2, Decembers
  <2> QED
    BY <1>c, <2>1, <2>2, <2>3
<1>3. \A x \in Y : annual[x] \in Int /\ annual[x] = ledger["annual_closing"]["Profit"][December(x)]
  BY <1>c DEF IInv, TypeOK, AnnualRows
<1>4. \A e \in R \X P \X M : /\ g[e] \in Int /\ g[e] = ledger["annual_closing"]["Profit"][e[3]]
                             /\ e = <<"annual_closing", "Profit", e[3]>> /\ e[3] \in M
  BY <1>a, <1>b DEF Ledgers
<1>5. T \in SUBSET (R \X P \X M) /\ \A x \in Y : h[x] \in R \X P \X M /\ h[x][3] = December(x)
  BY <1>1
<1>6. \A e \in (R \X P \X M) \ T : g[e] = 0
  <2> SUFFICES ASSUME NEW e \in R \X P \X M, g[e] # 0 PROVE e \in T
    OBVIOUS
  <2>1. PICK x \in Y : e[3] = December(x)
    BY <1>2, <1>4
  <2>2. e = h[x]
    BY <1>4, <2>1
  <2> QED
    BY <2>2
<1>7. \A x \in Y : annual[x] = g[h[x]]
  BY <1>3, <1>4, <1>5
<1>8. \A x, z \in Y : h[x] = h[z] => x = z
  BY <1>c, <1>5, DecemberOnce
<1>9. IsFiniteSet(Y) /\ IsFiniteSet(R \X P \X M)
  <2>1. IsFiniteSet(1..LastYear)
    BY ClosingAssumption, FS_Interval
  <2>2. IsFiniteSet(Years)
    BY <2>1 DEF Years
  <2>3. IsFiniteSet(Y)
    BY <1>c, <2>2, FS_Subset
  <2> HIDE DEF R, P, M
  <2> QED
    BY <1>a, <1>b, <2>3, FiniteEntries
<1>10. SumFunctionOnSet(annual, Y) = SumFunctionOnSet(g, T)
  <2> HIDE DEF Y, g, h
  <2> QED
    BY <1>3, <1>7, <1>8, <1>9, SumRenamed
<1>11. SumFunctionOnSet(g, R \X P \X M) = SumFunctionOnSet(g, T)
  <2>1. \A e \in R \X P \X M : g[e] \in Int
    BY <1>4
  <2> HIDE DEF g, T, R, P, M
  <2> QED
    BY <1>5, <1>6, <1>9, <2>1, SumSupport
<1>12. Entries(ledger, R, P, M) = SumFunctionOnSet(annual, Y)
  BY <1>10, <1>11, Zenon DEF Entries, g
<1>13. Entries(ledger, R, Accounts, M) = 0
  <2>1. \A r \in R, a \in Accounts, m \in M : ledger[r][a][m] = 0
    BY <1>b DEF IInv, AnnualRows
  <2> HIDE DEF R, M
  <2> QED
    BY <1>a, <1>b, <2>1, EntriesZero
<1>14. SumFunctionOnSet(annual, Y) \in Int
  <2> HIDE DEF Y
  <2> QED
    BY <1>3, <1>9, SumType
<1>15. Entries(ledger, R, K, M) = Entries(ledger, R, Accounts, M) + Entries(ledger, R, P, M)
  <2> HIDE DEF R, M, P
  <2> QED
    BY <1>a, <1>b, SplitCodes
<1>16. Entries(ledger, R, K, M) = SumFunctionOnSet(annual, Y)
  BY <1>12, <1>13, <1>14, <1>15
<1> QED
  BY <1>16

(* A year that leaves nothing behind has carried over all it earned.       *)
LEMMA EarningsCarried ==
  \A y \in Years : IInv /\ Flat(December(y)) /\ Balance("Profit", December(y)) = 0 =>
    SumFunctionOnSet(annual, ClosedYears \cap 1..y)
      = -Sum(Posted, Accounts \cup {"Profit"}, 1..December(y))
<1> SUFFICES ASSUME NEW y \in Years, IInv, Flat(December(y)), Balance("Profit", December(y)) = 0
             PROVE  SumFunctionOnSet(annual, ClosedYears \cap 1..y)
                      = -Sum(Posted, Accounts \cup {"Profit"}, 1..December(y))
  OBVIOUS
<1> DEFINE K == Accounts \cup {"Profit"}
           M == 1..December(y)
           E(sources) == Entries(ledger, sources, K, M)
<1>a. ledger \in Ledgers /\ K \in SUBSET Codes /\ M \in SUBSET Months
  BY CodeNames, Decembers, MonthNumbers DEF IInv, TypeOK, Ledgers
<1>1. E(Sources) = 0
  <2>1. \A c \in K : Entries(ledger, Sources, {c}, M) = 0
    <3> TAKE c \in K
    <3>1. Balance(c, December(y)) = 0
      BY DEF Flat
    <3> QED
      BY <3>1, SumOfLedger DEF Balance
  <2> HIDE DEF K, M
  <2> QED
    BY <1>a, <2>1, CodesZero
<1>2. E({"period_closing"}) = 0
  BY <1>a, ClosingNets
<1>3. E({"opening_balance"}) = 0
  <2>1. \A r \in {"opening_balance"}, c \in K, m \in M : ledger[r][c][m] = 0
    BY <1>a, CodeNames DEF IInv, OpeningRows
  <2>2. {"opening_balance"} \in SUBSET Sources
    BY CodeNames
  <2> HIDE DEF K, M
  <2> QED
    BY <1>a, <2>1, <2>2, EntriesZero
<1>4. E({"annual_closing"}) = SumFunctionOnSet(annual, ClosedYears \cap 1..y)
  BY AnnualSum
<1>5. E(Posted) \in Int /\ E({"annual_closing"}) \in Int
  <2> HIDE DEF K, M
  <2> QED
    BY <1>a, CodeNames, EntriesType
<1>6. E(Sources) = E(Posted) + (E({"period_closing"}) + (E({"annual_closing"}) + E({"opening_balance"})))
  <2> DEFINE A == {"annual_closing"}
             B == {"opening_balance"}
             C == {"period_closing"}
             D == A \cup B
             F == C \cup D
  <2>1. /\ A \in SUBSET Sources /\ B \in SUBSET Sources /\ C \in SUBSET Sources
        /\ D \in SUBSET Sources /\ F \in SUBSET Sources /\ Posted \in SUBSET Sources
    BY CodeNames
  <2>2. A \cap B = {} /\ C \cap D = {} /\ Posted \cap F = {} /\ Sources = Posted \cup F
    BY DEF Posted, Sources
  <2> HIDE DEF A, B, C, K, M
  <2>3. E(D) = E(A) + E(B)
    BY <1>a, <2>1, <2>2, SplitSources
  <2> HIDE DEF D
  <2>4. E(F) = E(C) + E(D)
    BY <1>a, <2>1, <2>2, SplitSources
  <2> HIDE DEF F
  <2>5. E(Sources) = E(Posted) + E(F)
    BY <1>a, <2>1, <2>2, SplitSources
  <2>6. E(Sources) = E(Posted) + (E(C) + (E(A) + E(B)))
    BY <2>3, <2>4, <2>5
  <2> QED
    BY <2>6 DEF A, B, C
<1>7. E(Posted) = Sum(Posted, K, M)
  BY SumOfLedger
<1> HIDE DEF E
<1>8. SumFunctionOnSet(annual, ClosedYears \cap 1..y) = -E(Posted)
  BY <1>1, <1>2, <1>3, <1>4, <1>5, <1>6
<1> QED
  BY <1>7, <1>8

(* No profit is carried over twice, and none is left behind.               *)
THEOREM ClosedYearsCarryEarnings == Spec /\ [][Undisturbed]_vars => YearsCarryEarnings
<1>1. (\A y \in Years : IInv /\ Flat(December(y)) /\ Balance("Profit", December(y)) = 0 =>
         SumFunctionOnSet(annual, ClosedYears \cap 1..y)
           = -Sum(Posted, Accounts \cup {"Profit"}, 1..December(y)))'
  BY EarningsCarried, PTL
<1>2. StillInv /\ [Next]_vars =>
        [\A y \in NewlyClosedYears :
           SumFunctionOnSet(annual', DOMAIN annual' \cap 1..y)
             = -Sum(Posted, Accounts \cup {"Profit"}, 1..December(y))']_vars
  <2> SUFFICES ASSUME StillInv, [Next]_vars, NEW y \in NewlyClosedYears
               PROVE  SumFunctionOnSet(annual', DOMAIN annual' \cap 1..y)
                        = -Sum(Posted, Accounts \cup {"Profit"}, 1..December(y))'
    OBVIOUS
  <2>1. PICK s \in Slots : CloseFiscalYearCommit(s)
    BY LedgerSteps DEF StillInv, IInv, AnnualsKept, NewlyClosedYears
  <2>2. PICK x : x = slot[s].year
    OBVIOUS
  <2>3. /\ NewlyClosedYears \subseteq {x} /\ x \in Years
        /\ Flat(December(x))' /\ Balance("Profit", December(x))' = 0
    BY <2>1, <2>2, YearFlat
  <2>4. x = y /\ y \in Years
    BY <2>3
  <2>5. IInv'
    BY Stepwise DEF StillInv
  <2> QED
    BY <1>1, <2>3, <2>4, <2>5 DEF ClosedYears
<1> QED
  BY <1>2, StillInvariance, PTL DEF Spec, YearsCarryEarnings
=============================================================================
