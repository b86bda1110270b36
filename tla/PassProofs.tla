----------------------------- MODULE PassProofs -----------------------------
(***************************************************************************)
(* Proofs about the two ends of a monitoring pass: which pages it takes    *)
(* and when (DueBatch), and the calls that fetch them (GuardedFetch).      *)
(*                                                                         *)
(* DueBatch, for any number of pages, workspaces and workers, any size of  *)
(* batch, and any cadence. WeeklyCeiling and BoundedWait are not inductive. *)
(* DatesSound adds that the days until a page is due and those since its   *)
(* check make up a week. WaitingSound is the argument of BoundedWait: of   *)
(* the pages ahead of a due page, those that are not being checked become  *)
(* fewer by a batch each time the page is left out, and nothing ever joins *)
(* them.                                                                   *)
(*                                                                         *)
(* GuardedFetch, for any addresses, answers, redirect limit, deadline, cap *)
(* and sizes. FetchInv ties the pieces of a call to its step: the one      *)
(* socket is that of the current hop and its timer that of the call; the   *)
(* addresses in hand are checked ones; nothing is decided before the end,  *)
(* and what is kept until then is below the cap.  CallGoesForward and      *)
(* WaitAlwaysTimed are the safety half of Ends.                            *)
(***************************************************************************)
EXTENDS DueBatch, GuardedFetch, FiniteSetTheorems, TLAPS

MaxWait == FiringsUntil(23 + 24 * Interval + JitterHours)

(* The due pages that are due for longer than c.                           *)
Ahead(c) == { d \in Competitors : <<d, c>> \in older }

DatesSound ==
    /\ \A c \in Competitors : wait[c] + quiet[c] >= Long
    /\ \A c \in InBatch \cap monitored : quiet[c] >= Long

WaitingSound ==
    \A c \in Competitors :
        /\ wait[c] # 0 => skipped[c] = 0
        /\ wait[c] = 0 =>
              BatchSize * skipped[c] + Cardinality(Ahead(c) \ InBatch)
                  <= Cardinality(Competitors) - 1

IInv == EachRowOnce /\ DatesSound /\ WaitingSound

----------------------------------------------------------------------------
(* Dates and counts.                                                       *)

(* A checked page is due again after a week at the earliest, and a date of *)
(* "now" at the next firing.                                               *)
LEMMA WaitsAreAWeek ==
  /\ \A n \in WaitsAfter(PassHours) \cup WaitsAfter(AnyHours) :
        n \in Nat /\ n >= Long /\ n <= MaxWait
  /\ DueNow = 1 /\ 1 <= MaxWait /\ MaxWait \in Nat /\ Long \in Nat
  <1>1. /\ Interval \in Nat \ {0} /\ JitterHours \in 0..23
    BY BatchAssumption
  <1>2. ASSUME NEW h \in 1..23, NEW j \in 0..JitterHours
        PROVE  LET n == FiringsUntil(h + 24 * Interval + j)
               IN  n \in Nat /\ n >= Long /\ n <= MaxWait
    BY <1>1 DEF FiringsUntil, Long, MaxWait
  <1>3. DueNow = 1 /\ 1 <= MaxWait /\ MaxWait \in Nat /\ Long \in Nat
    BY <1>1 DEF FiringsUntil, DueNow, MaxWait, Long
  <1>4. QED
    BY <1>2, <1>3 DEF WaitsAfter, PassHours, AnyHours

(* The numbers of the model are natural ones.                              *)
LEMMA Counts ==
  /\ BatchSize \in Nat \ {0}
  /\ Cardinality(Competitors) \in Nat
  /\ \A S \in SUBSET Competitors :
        /\ IsFiniteSet(S) /\ Cardinality(S) \in Nat
        /\ Cardinality(S) <= Cardinality(Competitors)
        /\ S = Competitors <=> Cardinality(S) = Cardinality(Competitors)
  <1>1. IsFiniteSet(Competitors)
    BY BatchAssumption
  <1>2. QED
    BY <1>1, FS_Subset, FS_CardinalityType, BatchAssumption

(* A sequence without repetitions has as many elements as places.          *)
LEMMA InjectiveCount ==
  ASSUME NEW q \in Seq(Competitors), IsInjective(q)
  PROVE  /\ IsFiniteSet(Range(q)) /\ Cardinality(Range(q)) = Len(q)
         /\ Range(q) \subseteq Competitors
  <1>1. q \in [1..Len(q) -> Range(q)] /\ Range(q) \subseteq Competitors
    BY DEF Range
  <1>2. q \in Bijection(1..Len(q), Range(q))
    BY <1>1 DEF Bijection, Injection, Surjection, IsInjective, Range
  <1>3. ExistsBijection(1..Len(q), Range(q))
    BY <1>2 DEF ExistsBijection
  <1>4. QED
    BY <1>1, <1>3, FS_CountingElements, Counts

(* What is left when the head of such a sequence is taken.                 *)
LEMMA HeadTaken ==
  ASSUME NEW q \in Seq(Competitors), IsInjective(q), q # <<>>
  PROVE  /\ Head(q) \in Competitors /\ Tail(q) \in Seq(Competitors)
         /\ IsInjective(Tail(q)) /\ Len(Tail(q)) = Len(q) - 1
         /\ Range(Tail(q)) = Range(q) \ {Head(q)} /\ Head(q) \in Range(q)
  <1>1. /\ Tail(q) \in Seq(Competitors) /\ Len(Tail(q)) = Len(q) - 1
        /\ \A i \in 1..Len(q) - 1 : Tail(q)[i] = q[i + 1]
        /\ Head(q) = q[1] /\ Len(q) > 0
    OBVIOUS
  <1>2. \A i \in 2..Len(q) : i - 1 \in 1..Len(q) - 1 /\ Tail(q)[i - 1] = q[i]
    BY <1>1
  <1>3. \A i, j \in 1..Len(q) : q[i] = q[j] => i = j
    BY DEF IsInjective
  <1>4. DOMAIN q = 1..Len(q) /\ DOMAIN Tail(q) = 1..Len(q) - 1
    BY <1>1
  <1>5. Range(Tail(q)) = Range(q) \ {Head(q)}
    <2>1. ASSUME NEW x \in Range(Tail(q)) PROVE x \in Range(q) \ {Head(q)}
      BY <1>1, <1>3, <1>4 DEF Range
    <2>2. ASSUME NEW x \in Range(q), x # Head(q) PROVE x \in Range(Tail(q))
      <3>1. PICK i \in 1..Len(q) : x = q[i]
        BY <1>4 DEF Range
      <3>2. i \in 2..Len(q)
        BY <3>1, <2>2, <1>1
      <3>3. QED
        BY <3>1, <3>2, <1>2, <1>4 DEF Range
    <2>3. QED
      BY <2>1, <2>2
  <1>6. IsInjective(Tail(q))
    <2>1. ASSUME NEW i \in 1..Len(q) - 1, NEW j \in 1..Len(q) - 1,
                 Tail(q)[i] = Tail(q)[j]
          PROVE  i = j
      <3>1. i + 1 \in 1..Len(q) /\ j + 1 \in 1..Len(q) /\ q[i + 1] = q[j + 1]
        BY <1>1, <2>1
      <3>2. QED
        BY <3>1, <1>3
    <2>2. QED
      BY <1>4, <2>1 DEF IsInjective
  <1>7. Head(q) \in Range(q)
    BY <1>1, <1>4 DEF Range
  <1>8. Head(q) \in Competitors
    BY <1>1
  <1>9. QED
    BY <1>1, <1>5, <1>6, <1>7, <1>8

(* What the pass selects: a batch of due pages, and if it leaves one out,  *)
(* a full batch of pages that are all ahead of it.                         *)
LEMMA Selected ==
  ASSUME TypeOK, NEW q \in Batches
  PROVE  /\ q \in Seq(Competitors) /\ IsInjective(q)
         /\ Len(q) <= BatchSize /\ Range(q) \subseteq Due
         /\ \A c \in Due \ Range(q) :
               Len(q) = BatchSize /\ Range(q) \subseteq Ahead(c)
  <1>. DEFINE taken == IF Cardinality(Due) < BatchSize THEN Cardinality(Due)
                       ELSE BatchSize
  <1>1. /\ Due \subseteq Competitors /\ IsFiniteSet(Due)
        /\ Cardinality(Due) \in Nat
    BY Counts DEF Due
  <1>2. taken \in Nat /\ taken <= BatchSize
    BY <1>1, Counts
  <1>3. /\ q \in [1..taken -> Due]
        /\ \A i, j \in 1..taken : i < j => <<q[i], q[j]>> \in older
        /\ \A c \in Due \ Range(q) : \A d \in Range(q) : <<d, c>> \in older
    BY DEF Batches
  <1>. HIDE DEF taken
  <1>4. q \in Seq(Competitors) /\ Len(q) = taken /\ DOMAIN q = 1..taken
    BY <1>1, <1>2, <1>3
  <1>5. \A i, j \in 1..taken : i < j => q[i] # q[j]
    BY <1>1, <1>3 DEF TypeOK
  <1>6. IsInjective(q)
    BY <1>2, <1>4, <1>5 DEF IsInjective
  <1>7. Range(q) \subseteq Due
    BY <1>3, <1>4 DEF Range
  <1>8. ASSUME NEW c \in Due \ Range(q)
        PROVE  Len(q) = BatchSize /\ Range(q) \subseteq Ahead(c)
    <2>1. Cardinality(Range(q)) # Cardinality(Due)
      BY <1>1, <1>7, FS_Subset
    <2>2. Len(q) # Cardinality(Due)
      BY <2>1, <1>4, <1>6, InjectiveCount
    <2>3. Len(q) = BatchSize
      BY <2>2, <1>4 DEF taken
    <2>4. Range(q) \subseteq Ahead(c)
      BY <1>1, <1>3, <1>7 DEF Ahead
    <2>5. QED
      BY <2>3, <2>4
  <1>9. QED
    BY <1>2, <1>4, <1>6, <1>7, <1>8

----------------------------------------------------------------------------
(* The types.                                                              *)

(* A page with a new date is no longer due, and the others stay in order.  *)
LEMMA NewDate ==
  ASSUME TypeOK, NEW c \in Competitors, NEW n \in 1..MaxWait,
         wait' = [wait EXCEPT ![c] = n], older' = OlderWithout(c)
  PROVE  /\ wait' \in [Competitors -> 0..MaxWait] /\ wait'[c] = n
         /\ \A d \in Competitors \ {c} : wait'[d] = wait[d]
         /\ older' \subseteq Competitors \X Competitors
         /\ \A p \in older' : wait'[p[1]] = 0 /\ wait'[p[2]] = 0
         /\ \A d, e \in Competitors :
               d # e /\ wait'[d] = 0 /\ wait'[e] = 0
                  => <<d, e>> \in older' \/ <<e, d>> \in older'
         /\ \A d, e \in Competitors : <<d, e>> \in older' => <<e, d>> \notin older'
         /\ \A d \in Competitors \ {c} : Ahead(d)' = Ahead(d) \ {c}
  <1>1. n \in Nat /\ n # 0 /\ n \in 0..MaxWait
    BY WaitsAreAWeek
  <1>2. wait \in [Competitors -> 0..MaxWait]
    BY DEF TypeOK, MaxWait
  <1>3. /\ wait' \in [Competitors -> 0..MaxWait] /\ wait'[c] = n
        /\ \A d \in Competitors \ {c} : wait'[d] = wait[d]
    BY <1>1, <1>2
  <1>4. /\ older' \subseteq older
        /\ \A d, e \in Competitors : <<d, e>> \in older' <=>
              <<d, e>> \in older /\ d # c /\ e # c
    BY DEF OlderWithout
  <1>5. \A p \in older' : /\ p[1] \in Competitors \ {c} /\ p[2] \in Competitors \ {c}
                          /\ wait[p[1]] = 0 /\ wait[p[2]] = 0
    BY DEF TypeOK, OlderWithout
  <1>6. \A d \in Competitors \ {c} : Ahead(d)' = Ahead(d) \ {c}
    BY <1>4 DEF Ahead
  <1>7. /\ \A d, e \in Competitors :
              d # e /\ wait[d] = 0 /\ wait[e] = 0
                 => <<d, e>> \in older \/ <<e, d>> \in older
        /\ \A d, e \in Competitors : <<d, e>> \in older => <<e, d>> \notin older
        /\ older \subseteq Competitors \X Competitors
    BY DEF TypeOK
  <1>8. \A d, e \in Competitors :
              d # e /\ wait'[d] = 0 /\ wait'[e] = 0
                 => <<d, e>> \in older' \/ <<e, d>> \in older'
    BY <1>1, <1>3, <1>4, <1>7
  <1>9. \A p \in older' : wait'[p[1]] = 0 /\ wait'[p[2]] = 0
    BY <1>3, <1>5
  <1>10. QED
    BY <1>3, <1>4, <1>6, <1>7, <1>8, <1>9

(* Every date SetDate gives lies ahead.                                    *)
LEMMA DateSet ==
  ASSUME TypeOK, NEW c \in Competitors, NEW waits,
         waits \subseteq 1..MaxWait, SetDate(c, waits)
  PROVE  \E n \in waits : n \in 1..MaxWait /\ wait' = [wait EXCEPT ![c] = n]
                          /\ older' = OlderWithout(c)
  BY DEF SetDate

LEMMA Waits ==
  /\ WaitsAfter(PassHours) \subseteq 1..MaxWait
  /\ WaitsAfter(AnyHours) \subseteq 1..MaxWait
  /\ {DueNow} \subseteq 1..MaxWait
  <1>1. Long \in Nat /\ Long >= 1
    BY BatchAssumption DEF Long
  <1>2. QED
    BY <1>1, WaitsAreAWeek

(* The pages that become due are ordered, and come after those that were.  *)
LEMMA DayOrder ==
  ASSUME TypeOK, NEW S \in SUBSET Competitors, NEW order \in Orders(S),
         \A c \in S : wait[c] # 0
  PROVE  LET before == { c \in Competitors : wait[c] = 0 }
             next == older \cup (before \X S) \cup order
         IN
         /\ next \subseteq (before \cup S) \X (before \cup S)
         /\ \A d, e \in before \cup S : d # e => <<d, e>> \in next \/ <<e, d>> \in next
         /\ \A d, e \in Competitors : <<d, e>> \in next => <<e, d>> \notin next
         /\ \A c \in before : \A d \in Competitors :
               <<d, c>> \in next <=> <<d, c>> \in older
  <1>. DEFINE before == { c \in Competitors : wait[c] = 0 }
              next == older \cup (before \X S) \cup order
  <1>1. PICK rank \in [S -> 1..Cardinality(S)] :
           IsInjective(rank) /\ order = { p \in S \X S : rank[p[1]] < rank[p[2]] }
    BY DEF Orders
  <1>2. \A c \in S : rank[c] \in Nat
    BY <1>1, Counts
  <1>3. \A d, e \in S : d # e => rank[d] # rank[e]
    BY <1>1 DEF IsInjective
  <1>4. \A d, e : <<d, e>> \in order <=> d \in S /\ e \in S /\ rank[d] < rank[e]
    BY <1>1
  <1>5. \A d, e \in S : d # e => <<d, e>> \in order \/ <<e, d>> \in order
    BY <1>2, <1>3, <1>4
  <1>6. \A d, e : <<d, e>> \in order => <<e, d>> \notin order
    BY <1>2, <1>4
  <1>7. /\ older \subseteq before \X before
        /\ \A d, e \in before : d # e => <<d, e>> \in older \/ <<e, d>> \in older
        /\ \A d, e \in before : <<d, e>> \in older => <<e, d>> \notin older
        /\ before \cap S = {}
    <2>1. \A p \in older : p \in Competitors \X Competitors /\ wait[p[1]] = 0 /\ wait[p[2]] = 0
      BY DEF TypeOK
    <2>2. older \subseteq before \X before
      BY <2>1
    <2>3. QED
      BY <2>2 DEF TypeOK
  <1>8. \A d, e : <<d, e>> \in next <=>
            \/ <<d, e>> \in older
            \/ d \in before /\ e \in S
            \/ <<d, e>> \in order
    OBVIOUS
  <1>9. next \subseteq (before \cup S) \X (before \cup S)
    BY <1>1, <1>7
  <1>10. \A d, e \in before \cup S : d # e => <<d, e>> \in next \/ <<e, d>> \in next
    BY <1>5, <1>7, <1>8
  <1>11. \A d, e : <<d, e>> \in older => d \in before /\ e \in before
    BY <1>7
  <1>12. \A d, e \in Competitors : <<d, e>> \in next => <<e, d>> \notin next
    BY <1>4, <1>6, <1>7, <1>8, <1>11
  <1>13. \A c \in before : \A d \in Competitors :
               <<d, c>> \in next <=> <<d, c>> \in older
    BY <1>4, <1>7, <1>8
  <1>14. QED
    BY <1>9, <1>10, <1>12, <1>13

(* Every step keeps the types.                                             *)
LEMMA TypesKept ==
  ASSUME TypeOK, [Next]_vars
  PROVE  TypeOK'
  <1>. USE WaitsAreAWeek, Waits
  <1>0. /\ Owner \in [Competitors -> Workspaces]
        /\ ActiveWindow \in Nat /\ Many \in Int /\ Long \in Nat
        /\ \A c \in Competitors : Many \in Nat
    <2>1. Cardinality(Competitors) - 1 \in Int /\ BatchSize \in Nat \ {0}
      BY Counts
    <2>2. Many \in Int
      BY <2>1 DEF Many
    <2>3. ASSUME NEW c \in Competitors PROVE Many \in Nat
      <3>1. Cardinality({c}) = 1 /\ {c} \in SUBSET Competitors
        BY FS_Singleton
      <3>2. Cardinality(Competitors) - 1 \in Nat
        BY <3>1, <2>1, Counts
      <3>3. QED
        BY <3>2, <2>1 DEF Many
    <2>4. QED
      BY <2>2, <2>3, BatchAssumption
  <1>1. CASE StartPass
    <2>1. queue' \in Seq(Competitors) /\ selected' \subseteq Competitors
      BY <1>1, Selected DEF StartPass, Due
    <2>2. skipped' \in [Competitors -> 0..Many]
      BY <1>0, <1>1 DEF StartPass, TypeOK
    <2>3. QED
      BY <1>1, <2>1, <2>2 DEF StartPass, TypeOK, dates
  <1>2. CASE MissPass
    BY <1>2 DEF MissPass, TypeOK, dates, history
  <1>3. ASSUME NEW v \in Workers, Take(v) PROVE TypeOK'
    <2>1. Head(queue) \in Competitors /\ Tail(queue) \in Seq(Competitors)
      BY <1>3 DEF Take, TypeOK
    <2>2. hand' \in [Workers -> Competitors \cup {Idle}]
      BY <1>3, <2>1 DEF Take, TypeOK
    <2>3. QED
      BY <1>3, <2>1, <2>2 DEF Take, TypeOK, dates, history
  <1>4. CASE EndPass
    BY <1>4 DEF EndPass, TypeOK, dates, history
  <1>5. CASE Kill
    <2>1. skipped' \in [Competitors -> 0..Many]
      BY <1>0, <1>5 DEF Kill
    <2>2. QED
      BY <1>5, <2>1 DEF Kill, TypeOK, dates
  <1>6. CASE NextDay
    <2>. DEFINE reached == { c \in monitored : wait[c] = 1 }
                before == { c \in Competitors : wait[c] = 0 }
    <2>1. PICK order \in Orders(reached) :
             older' = older \cup (before \X reached) \cup order
      BY <1>6 DEF NextDay
    <2>2. /\ reached \in SUBSET Competitors
          /\ \A c \in reached : wait[c] # 0
      BY DEF TypeOK
    <2>3. /\ older' \subseteq (before \cup reached) \X (before \cup reached)
          /\ \A d, e \in before \cup reached :
                d # e => <<d, e>> \in older' \/ <<e, d>> \in older'
          /\ \A d, e \in Competitors : <<d, e>> \in older' => <<e, d>> \notin older'
      BY <2>1, <2>2, DayOrder
    <2>4. /\ wait' \in [Competitors -> 0..MaxWait]
          /\ \A c \in Competitors : wait'[c] = 0 <=> c \in before \cup reached
      <3>1. wait' = [c \in Competitors |->
                       IF c \in monitored /\ wait[c] > 0 THEN wait[c] - 1 ELSE wait[c]]
        BY <1>6 DEF NextDay
      <3>2. /\ wait \in [Competitors -> 0..MaxWait] /\ monitored \subseteq Competitors
            /\ MaxWait \in Nat
        BY DEF TypeOK, MaxWait
      <3>3. \A c \in Competitors : wait'[c] \in 0..MaxWait
        BY <3>1, <3>2
      <3>4. \A c \in Competitors : wait'[c] = 0 <=> c \in before \cup reached
        BY <3>1, <3>2
      <3>5. QED
        BY <3>1, <3>3, <3>4
    <2>. HIDE DEF reached, before
    <2>5. /\ older' \subseteq Competitors \X Competitors
          /\ \A p \in older' : wait'[p[1]] = 0 /\ wait'[p[2]] = 0
          /\ \A d, e \in Competitors :
                d # e /\ wait'[d] = 0 /\ wait'[e] = 0
                   => <<d, e>> \in older' \/ <<e, d>> \in older'
      <3>1. before \subseteq Competitors /\ reached \subseteq Competitors
        BY <2>2 DEF before
      <3>2. \A p \in older' : p[1] \in before \cup reached /\ p[2] \in before \cup reached
        BY <2>3
      <3>3. QED
        BY <3>1, <3>2, <2>3, <2>4
    <2>6. unseen' \in [Workspaces -> 0..(ActiveWindow + 1)]
      BY <1>0, <1>6 DEF NextDay, TypeOK
    <2>7. quiet' \in [Competitors -> 0..Long]
      BY <1>0, <1>6 DEF NextDay, TypeOK
    <2>8. /\ UNCHANGED <<monitored, paused, queue, hand, selected, dealt, skipped>>
          /\ pass' = "waiting"
      BY <1>6 DEF NextDay
    <2>9. QED
      BY <2>3, <2>4, <2>5, <2>6, <2>7, <2>8 DEF TypeOK, MaxWait
  <1>7. ASSUME NEW c \in Competitors, NEW waits, waits \subseteq 1..MaxWait,
               SetDate(c, waits)
        PROVE  /\ wait' \in [Competitors -> 0..MaxWait]
               /\ older' \subseteq Competitors \X Competitors
               /\ \A p \in older' : wait'[p[1]] = 0 /\ wait'[p[2]] = 0
               /\ \A d, e \in Competitors :
                     d # e /\ wait'[d] = 0 /\ wait'[e] = 0
                        => <<d, e>> \in older' \/ <<e, d>> \in older'
               /\ \A d, e \in Competitors : <<d, e>> \in older' => <<e, d>> \notin older'
    BY <1>7, DateSet, NewDate
  <1>8. ASSUME NEW w \in Workspaces, Seen(w)
        PROVE  unseen' \in [Workspaces -> 0..(ActiveWindow + 1)]
    BY <1>0, <1>8 DEF Seen, TypeOK
  <1>counted. ASSUME NEW c \in Competitors, Count(c)
         PROVE  /\ hand' \in [Workers -> Competitors \cup {Idle}]
                /\ dealt' \subseteq Competitors /\ UNCHANGED <<pass, queue, selected>>
    BY <1>counted DEF Count, TypeOK
  <1>9. ASSUME NEW c \in Competitors, Persist(c) PROVE TypeOK'
    <2>1. SetDate(c, WaitsAfter(PassHours))
      BY <1>9 DEF Persist, WriteRow
    <2>2. /\ quiet' \in [Competitors -> 0..Long] /\ skipped' \in [Competitors -> 0..Many]
          /\ paused' \in [Competitors -> BOOLEAN]
      BY <1>0, <1>9 DEF Persist, WriteRow, TypeOK
    <2>3. QED
      BY <1>7, <1>9, <1>counted, <2>1, <2>2 DEF Persist, TypeOK, MaxWait
  <1>10. ASSUME NEW c \in Competitors, Throw(c) PROVE TypeOK'
    <2>1. skipped' \in [Competitors -> 0..Many]
      BY <1>0, <1>10 DEF Throw, TypeOK
    <2>2. QED
      BY <1>10, <1>counted, <2>1 DEF Throw, TypeOK, dates
  <1>11. ASSUME NEW c \in Competitors, AddPage(c) PROVE TypeOK'
    <2>1. unseen' \in [Workspaces -> 0..(ActiveWindow + 1)]
      BY <1>0, <1>8, <1>11 DEF AddPage
    <2>2. QED
      BY <1>11, <2>1 DEF AddPage, TypeOK, dates, batch, history
  <1>12. ASSUME NEW c \in Competitors, RemovePage(c) PROVE TypeOK'
    <2>1. /\ unseen' \in [Workspaces -> 0..(ActiveWindow + 1)]
          /\ SetDate(c, {DueNow})
      BY <1>0, <1>8, <1>12 DEF RemovePage
    <2>2. /\ quiet' \in [Competitors -> 0..Long] /\ skipped' \in [Competitors -> 0..Many]
          /\ paused' \in [Competitors -> BOOLEAN] /\ monitored' \subseteq Competitors
      BY <1>0, <1>12 DEF RemovePage, TypeOK
    <2>3. QED
      BY <1>7, <1>12, <2>1, <2>2 DEF RemovePage, TypeOK, batch, MaxWait
  <1>13. ASSUME NEW c \in Competitors, Resume(c) PROVE TypeOK'
    <2>1. /\ unseen' \in [Workspaces -> 0..(ActiveWindow + 1)]
          /\ SetDate(c, {DueNow})
      BY <1>0, <1>8, <1>13 DEF Resume
    <2>2. /\ quiet' \in [Competitors -> 0..Long] /\ skipped' \in [Competitors -> 0..Many]
          /\ paused' \in [Competitors -> BOOLEAN]
      BY <1>0, <1>13 DEF Resume, TypeOK
    <2>3. QED
      BY <1>7, <1>13, <2>1, <2>2 DEF Resume, TypeOK, batch, MaxWait
  <1>14. ASSUME NEW c \in Competitors, Retry(c) PROVE TypeOK'
    <2>1. /\ unseen' \in [Workspaces -> 0..(ActiveWindow + 1)]
          /\ SetDate(c, WaitsAfter(AnyHours))
      BY <1>0, <1>8, <1>14 DEF Retry, WriteRow
    <2>2. /\ quiet' \in [Competitors -> 0..Long] /\ skipped' \in [Competitors -> 0..Many]
          /\ paused' \in [Competitors -> BOOLEAN]
      BY <1>0, <1>14 DEF Retry, WriteRow, TypeOK
    <2>3. QED
      BY <1>7, <1>14, <2>1, <2>2 DEF Retry, TypeOK, batch, MaxWait
  <1>15. ASSUME NEW w \in Workspaces, Visit(w) PROVE TypeOK'
    BY <1>8, <1>15 DEF Visit, TypeOK, dates, batch, history
  <1>16. CASE UNCHANGED vars
    BY <1>16 DEF vars, dates, batch, history, TypeOK
  <1>17. QED
    BY <1>1, <1>2, <1>3, <1>4, <1>5, <1>6, <1>9, <1>10, <1>11, <1>12, <1>13,
       <1>14, <1>15, <1>16 DEF Next

----------------------------------------------------------------------------
(* The rows of a pass.                                                     *)

(* A free worker takes the head of the queue, and no other row changes     *)
(* hands.                                                                  *)
LEMMA RowTaken ==
  ASSUME EachRowOnce, NEW v \in Workers, Take(v)
  PROVE  /\ queue \in Seq(Competitors) /\ IsInjective(queue) /\ queue # <<>>
         /\ queue' = Tail(queue) /\ working' = working \cup {Head(queue)}
         /\ InBatch' = InBatch
  <1>1. /\ queue \in Seq(Competitors) /\ IsInjective(queue) /\ queue # <<>>
        /\ queue' = Tail(queue) /\ hand' = [hand EXCEPT ![v] = Head(queue)]
        /\ hand[v] = Idle /\ hand \in [Workers -> Competitors \cup {Idle}]
    BY DEF Take, EachRowOnce, TypeOK
  <1>2. /\ Head(queue) \in Competitors /\ Head(queue) \in Range(queue)
        /\ Range(queue') = Range(queue) \ {Head(queue)}
    BY <1>1, HeadTaken
  <1>3. Head(queue) # Idle
    BY <1>2, BatchAssumption
  <1>4. working' = working \cup {Head(queue)}
    BY <1>1, <1>3 DEF working
  <1>5. QED
    BY <1>1, <1>2, <1>4 DEF InBatch

(* A row that is counted leaves the batch: one worker had it in hand.      *)
LEMMA RowCounted ==
  ASSUME EachRowOnce, NEW c \in Competitors, Count(c)
  PROVE  /\ c \in working /\ working' = working \ {c} /\ queue' = queue
         /\ InBatch' = InBatch \ {c} /\ c \in InBatch
  <1>1. PICK v \in Workers : hand[v] = c /\ hand' = [hand EXCEPT ![v] = Idle]
    BY DEF Count
  <1>2. /\ hand \in [Workers -> Competitors \cup {Idle}] /\ c # Idle
        /\ \A w \in Workers : w # v => hand[w] # c
    BY <1>1, BatchAssumption DEF EachRowOnce, TypeOK
  <1>3. c \in working /\ working' = working \ {c}
    BY <1>1, <1>2 DEF working
  <1>4. queue' = queue /\ c \notin Range(queue)
    BY <1>3 DEF Count, EachRowOnce
  <1>5. QED
    BY <1>3, <1>4 DEF InBatch

(* Every step leaves each selected row in one place: a batch is selected   *)
(* when none is held, and a row goes from the queue to a worker and from   *)
(* there to the report.                                                    *)
LEMMA RowsKept ==
  ASSUME EachRowOnce, [Next]_vars
  PROVE  EachRowOnce'
  <1>. USE Counts
  <1>1. /\ TypeOK /\ TypeOK'
        /\ queue \in Seq(Competitors) /\ hand \in [Workers -> Competitors \cup {Idle}]
    BY TypesKept DEF EachRowOnce, TypeOK
  <1>2. /\ IsInjective(queue)
        /\ \A v, w \in Workers : v # w /\ hand[v] # Idle => hand[v] # hand[w]
        /\ Range(queue) \cap working = {} /\ InBatch \cap dealt = {}
        /\ selected = InBatch \cup dealt
        /\ Cardinality(selected) <= BatchSize
        /\ pass # "running" => selected = {}
    BY DEF EachRowOnce
  <1>3. CASE StartPass
    <2>1. /\ queue' \in Batches /\ hand' = hand /\ pass' = "running"
          /\ selected' = Range(queue') /\ dealt' = {} /\ InBatch = {}
      BY <1>2, <1>3 DEF StartPass
    <2>2. working = {} /\ working' = working
      BY <2>1 DEF InBatch, working
    <2>3. Len(queue') <= BatchSize /\ IsInjective(queue')
      BY <1>1, <2>1, Selected
    <2>4. queue' \in Seq(Competitors)
      BY <1>1 DEF TypeOK
    <2>5. Cardinality(selected') <= BatchSize
      BY <2>1, <2>3, <2>4, InjectiveCount
    <2>6. InBatch' = Range(queue')
      BY <2>2 DEF InBatch
    <2>7. \A v, w \in Workers : v # w /\ hand'[v] # Idle => hand'[v] # hand'[w]
      BY <1>2, <2>1
    <2>8. QED
      BY <1>1, <2>1, <2>2, <2>3, <2>5, <2>6, <2>7 DEF EachRowOnce
  <1>4. ASSUME NEW v \in Workers, Take(v) PROVE EachRowOnce'
    <2>1. /\ hand' = [hand EXCEPT ![v] = Head(queue)]
          /\ UNCHANGED <<pass, selected, dealt>>
      BY <1>4 DEF Take
    <2>2. /\ queue # <<>> /\ queue' = Tail(queue) /\ InBatch' = InBatch
          /\ working' = working \cup {Head(queue)}
      BY <1>4, RowTaken
    <2>3. /\ Head(queue) \in Competitors /\ Head(queue) \in Range(queue)
          /\ IsInjective(queue') /\ Range(queue') = Range(queue) \ {Head(queue)}
      BY <1>1, <1>2, <2>2, HeadTaken
    <2>4. \A w \in Workers : hand[w] # Head(queue)
      BY <1>2, <2>3, BatchAssumption DEF working
    <2>5. \A w, x \in Workers : w # x /\ hand'[w] # Idle => hand'[w] # hand'[x]
      BY <1>1, <1>2, <2>1, <2>4
    <2>6. Range(queue') \cap working' = {}
      BY <1>2, <2>2, <2>3
    <2>7. QED
      BY <1>1, <1>2, <2>1, <2>2, <2>3, <2>5, <2>6 DEF EachRowOnce
  <1>5. ASSUME NEW c \in Competitors, Count(c) PROVE EachRowOnce'
    <2>1. /\ c \in working /\ working' = working \ {c} /\ queue' = queue
          /\ InBatch' = InBatch \ {c} /\ c \in InBatch
      BY <1>5, RowCounted
    <2>2. /\ dealt' = dealt \cup {c} /\ UNCHANGED <<pass, selected>>
          /\ \E v \in Workers : hand' = [hand EXCEPT ![v] = Idle]
      BY <1>5 DEF Count
    <2>3. \A v, w \in Workers : v # w /\ hand'[v] # Idle => hand'[v] # hand'[w]
      BY <1>1, <1>2, <2>2
    <2>4. QED
      BY <1>1, <1>2, <2>1, <2>2, <2>3 DEF EachRowOnce
  <1>6. ASSUME queue' = <<>>, working' = {}, selected' = {}, dealt' = {},
               \A v \in Workers : hand'[v] = Idle
        PROVE  EachRowOnce'
    <2>1. Cardinality(selected') <= BatchSize
      BY <1>6, FS_EmptySet
    <2>2. InBatch' = {} /\ IsInjective(queue') /\ Range(queue') = {}
      BY <1>6 DEF InBatch, Range, IsInjective
    <2>3. QED
      BY <1>1, <1>6, <2>1, <2>2 DEF EachRowOnce
  <1>7. ASSUME UNCHANGED <<queue, hand, selected, dealt>>,
               pass' = pass \/ pass # "running"
        PROVE  EachRowOnce'
    <2>1. working' = working /\ InBatch' = InBatch
      BY <1>7 DEF working, InBatch
    <2>2. QED
      BY <1>1, <1>2, <1>7, <2>1 DEF EachRowOnce
  <1>8. CASE MissPass
    BY <1>7, <1>8 DEF MissPass
  <1>9. CASE EndPass
    BY <1>6, <1>9 DEF EndPass, working
  <1>10. CASE Kill
    <2>1. hand' = [v \in Workers |-> Idle]
      BY <1>10 DEF Kill
    <2>2. QED
      BY <1>6, <1>10, <2>1 DEF Kill, working
  <1>11. CASE NextDay
    BY <1>7, <1>11 DEF NextDay
  <1>12. ASSUME NEW c \in Competitors, Persist(c) \/ Throw(c) PROVE EachRowOnce'
    BY <1>5, <1>12 DEF Persist, Throw
  <1>13. ASSUME NEW c \in Competitors,
                AddPage(c) \/ RemovePage(c) \/ Resume(c) \/ Retry(c)
         PROVE  EachRowOnce'
    BY <1>7, <1>13 DEF AddPage, RemovePage, Resume, Retry, batch
  <1>14. ASSUME NEW w \in Workspaces, Visit(w) PROVE EachRowOnce'
    BY <1>7, <1>14 DEF Visit, batch
  <1>15. CASE UNCHANGED vars
    BY <1>7, <1>15 DEF vars, batch
  <1>16. QED
    BY <1>3, <1>4, <1>8, <1>9, <1>10, <1>11, <1>12, <1>13, <1>14, <1>15 DEF Next

----------------------------------------------------------------------------
(* The dates.                                                              *)

(* Every step keeps the week between two checks: a check gives a date a    *)
(* week ahead, each day moves both counts, and only a page that is due is  *)
(* selected.                                                               *)
LEMMA DatesKept ==
  ASSUME EachRowOnce, DatesSound, [Next]_vars
  PROVE  DatesSound'
  <1>. USE WaitsAreAWeek
  <1>1. /\ TypeOK /\ wait \in [Competitors -> Nat]
        /\ quiet \in [Competitors -> 0..Long] /\ InBatch \subseteq Competitors
        /\ monitored \subseteq Competitors
    BY DEF EachRowOnce, TypeOK, InBatch, working, Range
  <1>2. /\ \A c \in Competitors : wait[c] + quiet[c] >= Long
        /\ \A c \in InBatch \cap monitored : quiet[c] >= Long
    BY DEF DatesSound
  <1>3. CASE StartPass
    <2>1. /\ queue' \in Batches /\ InBatch = {} /\ working' = working
          /\ wait' = wait /\ quiet' = quiet /\ monitored' = monitored
      BY <1>3 DEF StartPass, EachRowOnce, dates, working
    <2>2. Range(queue') \subseteq Due
      BY <1>1, <2>1, Selected
    <2>3. InBatch' \subseteq Due
      BY <2>1, <2>2 DEF InBatch
    <2>4. \A c \in InBatch' : wait[c] = 0 /\ c \in Competitors
      BY <2>3 DEF Due
    <2>5. QED
      BY <1>1, <1>2, <2>1, <2>4 DEF DatesSound
  <1>4. ASSUME wait' = wait, quiet' = quiet,
               (InBatch \cap monitored)' \subseteq InBatch \cap monitored
        PROVE  DatesSound'
    BY <1>2, <1>4 DEF DatesSound
  <1>5. CASE NextDay
    <2>1. InBatch = {} /\ InBatch' = InBatch
      BY <1>5 DEF NextDay, EachRowOnce, InBatch, working
    <2>2. \A c \in Competitors : wait'[c] + quiet'[c] >= Long
      BY <1>1, <1>2, <1>5 DEF NextDay
    <2>3. QED
      BY <2>1, <2>2 DEF DatesSound
  <1>6. ASSUME NEW c \in Competitors, NEW n \in Nat,
               wait' = [wait EXCEPT ![c] = n],
               \/ quiet' = [quiet EXCEPT ![c] = Long]
               \/ n >= Long /\ quiet' = quiet
               \/ n >= Long /\ quiet' = [quiet EXCEPT ![c] = 0] /\ c \notin InBatch',
               (InBatch \cap monitored)' \subseteq InBatch \cap monitored
        PROVE  DatesSound'
    <2>1. \A d \in Competitors : wait'[d] + quiet'[d] >= Long
      BY <1>1, <1>2, <1>6
    <2>2. \A d \in (InBatch \cap monitored)' : quiet'[d] >= Long
      BY <1>1, <1>2, <1>6
    <2>3. QED
      BY <2>1, <2>2 DEF DatesSound
  <1>7. ASSUME NEW c \in Competitors, Persist(c) PROVE DatesSound'
    <2>1. /\ Count(c) /\ monitored' = monitored
          /\ quiet' = [quiet EXCEPT ![c] = 0]
          /\ \E n \in WaitsAfter(PassHours) : wait' = [wait EXCEPT ![c] = n]
      BY <1>7 DEF Persist, WriteRow, SetDate
    <2>2. c \notin InBatch' /\ (InBatch \cap monitored)' \subseteq InBatch \cap monitored
      BY <2>1, RowCounted
    <2>3. QED
      BY <1>6, <2>1, <2>2
  <1>8. ASSUME NEW c \in Competitors, Retry(c) PROVE DatesSound'
    <2>1. /\ quiet' = IF c \in InBatch THEN quiet ELSE [quiet EXCEPT ![c] = 0]
          /\ \E n \in WaitsAfter(AnyHours) : wait' = [wait EXCEPT ![c] = n]
          /\ InBatch' = InBatch /\ monitored' = monitored
      BY <1>8 DEF Retry, WriteRow, SetDate, batch, InBatch, working
    <2>2. QED
      BY <1>6, <2>1
  <1>9. ASSUME NEW c \in Competitors, RemovePage(c) \/ Resume(c) PROVE DatesSound'
    <2>1. /\ wait' = [wait EXCEPT ![c] = DueNow]
          /\ quiet' = [quiet EXCEPT ![c] = Long]
          /\ InBatch' = InBatch /\ monitored' \subseteq monitored
      BY <1>9 DEF RemovePage, Resume, SetDate, batch, InBatch, working
    <2>2. QED
      BY <1>6, <2>1
  <1>10. ASSUME NEW c \in Competitors, AddPage(c) PROVE DatesSound'
    <2>1. /\ c \notin InBatch /\ monitored' = monitored \cup {c}
          /\ wait' = wait /\ quiet' = quiet /\ InBatch' = InBatch
      BY <1>10 DEF AddPage, dates, batch, history, InBatch, working
    <2>2. QED
      BY <1>4, <2>1
  <1>11. ASSUME NEW c \in Competitors, Throw(c) PROVE DatesSound'
    <2>1. Count(c) /\ wait' = wait /\ quiet' = quiet /\ monitored' = monitored
      BY <1>11 DEF Throw, dates
    <2>2. QED
      BY <1>4, <2>1, RowCounted
  <1>12. ASSUME NEW v \in Workers, Take(v) PROVE DatesSound'
    <2>1. monitored' = monitored /\ wait' = wait /\ quiet' = quiet
      BY <1>12 DEF Take, dates, history
    <2>2. QED
      BY <1>4, <1>12, <2>1, RowTaken
  <1>13. CASE Kill
    <2>1. InBatch' = {}
      BY <1>13 DEF Kill, InBatch, working, Range
    <2>2. QED
      BY <1>4, <1>13, <2>1 DEF Kill, dates
  <1>14. CASE MissPass \/ EndPass
    BY <1>4, <1>14 DEF MissPass, EndPass, dates, history, InBatch, working
  <1>15. ASSUME NEW w \in Workspaces, Visit(w) PROVE DatesSound'
    BY <1>4, <1>15 DEF Visit, dates, batch, history, InBatch, working
  <1>16. CASE UNCHANGED vars
    BY <1>4, <1>16 DEF vars, dates, batch, history, InBatch, working
  <1>17. QED
    BY <1>3, <1>5, <1>7, <1>8, <1>9, <1>10, <1>11, <1>12, <1>13, <1>14, <1>15,
       <1>16 DEF Next

----------------------------------------------------------------------------
(* The waiting.                                                            *)

(* The pages ahead of a due page are other pages.                          *)
LEMMA OthersAhead ==
  ASSUME TypeOK, NEW c \in Competitors, NEW S
  PROVE  /\ Cardinality(Ahead(c) \ S) \in Nat
         /\ Cardinality(Ahead(c) \ S) <= Cardinality(Competitors) - 1
         /\ \A T : T \subseteq Ahead(c) \ S
               => Cardinality(T) <= Cardinality(Ahead(c) \ S)
  <1>1. c \notin Ahead(c)
    BY DEF Ahead, TypeOK
  <1>2. Ahead(c) \ S \in SUBSET Competitors /\ Ahead(c) \ S # Competitors
    BY <1>1 DEF Ahead
  <1>3. /\ IsFiniteSet(Ahead(c) \ S) /\ Cardinality(Ahead(c) \ S) \in Nat
        /\ Cardinality(Ahead(c) \ S) <= Cardinality(Competitors)
        /\ Cardinality(Ahead(c) \ S) # Cardinality(Competitors)
        /\ Cardinality(Competitors) \in Nat
    BY <1>2, Counts
  <1>4. ASSUME NEW T, T \subseteq Ahead(c) \ S
        PROVE  Cardinality(T) <= Cardinality(Ahead(c) \ S)
    BY <1>3, <1>4, FS_Subset
  <1>5. QED
    BY <1>3, <1>4

(* A full batch of the pages ahead of c leaves so many fewer.              *)
LEMMA BatchAhead ==
  ASSUME TypeOK, NEW c \in Competitors, NEW S, S \subseteq Ahead(c)
  PROVE  Cardinality(Ahead(c) \ S) = Cardinality(Ahead(c)) - Cardinality(S)
  <1>1. Ahead(c) \in SUBSET Competitors
    BY DEF Ahead
  <1>2. IsFiniteSet(Ahead(c)) /\ IsFiniteSet(S)
    BY <1>1, Counts
  <1>3. Ahead(c) \cap S = S
    OBVIOUS
  <1>4. QED
    BY <1>2, <1>3, FS_Difference

(* A page the pass leaves out has had a full batch of the pages ahead of   *)
(* it taken.                                                               *)
LEMMA LeftOutWaiting ==
  ASSUME EachRowOnce, WaitingSound, StartPass, NEW c \in Competitors,
         wait[c] = 0
  PROVE  BatchSize * skipped'[c] + Cardinality(Ahead(c) \ Range(queue'))
            <= Cardinality(Competitors) - 1
  <1>1. /\ TypeOK /\ queue' \in Batches /\ InBatch = {}
        /\ skipped' = [d \in Competitors |->
                         IF d \in Due \ Range(queue') /\ skipped[d] < Many
                         THEN skipped[d] + 1 ELSE skipped[d]]
    BY DEF StartPass, EachRowOnce
  <1>2. /\ BatchSize \in Nat /\ Cardinality(Competitors) \in Nat
        /\ skipped[c] \in Nat
    BY <1>1, Counts DEF TypeOK
  <1>3. BatchSize * skipped[c] + Cardinality(Ahead(c)) <= Cardinality(Competitors) - 1
    <2>1. Ahead(c) \ InBatch = Ahead(c)
      BY <1>1
    <2>2. QED
      BY <2>1 DEF WaitingSound
  <1>4. /\ Cardinality(Ahead(c)) \in Nat
        /\ Cardinality(Ahead(c) \ Range(queue')) \in Nat
        /\ Cardinality(Ahead(c) \ Range(queue')) <= Cardinality(Ahead(c))
    <2>1. Ahead(c) \ {} = Ahead(c) /\ Ahead(c) \ Range(queue') \subseteq Ahead(c)
      OBVIOUS
    <2>2. QED
      BY <1>1, <2>1, OthersAhead
  <1>5. CASE skipped'[c] = skipped[c]
    <2>1. BatchSize * skipped[c] \in Nat
      BY <1>2
    <2>2. QED
      BY <1>2, <1>3, <1>4, <1>5, <2>1
  <1>6. CASE skipped'[c] # skipped[c]
    <2>1. c \in Due \ Range(queue') /\ skipped'[c] = skipped[c] + 1
      BY <1>1, <1>6
    <2>2. /\ queue' \in Seq(Competitors) /\ IsInjective(queue')
          /\ Len(queue') = BatchSize /\ Range(queue') \subseteq Ahead(c)
      BY <1>1, <2>1, Selected
    <2>3. Cardinality(Ahead(c) \ Range(queue')) = Cardinality(Ahead(c)) - BatchSize
      BY <1>1, <2>2, BatchAhead, InjectiveCount
    <2>4. BatchSize * (skipped[c] + 1) = BatchSize * skipped[c] + BatchSize
      BY <1>2
    <2>5. BatchSize * skipped[c] \in Nat
      BY <1>2
    <2>6. QED
      BY <1>2, <1>3, <1>4, <2>1, <2>3, <2>4, <2>5
  <1>7. QED
    BY <1>5, <1>6

(* A step in which a page leaves the due ones, and the others keep their   *)
(* place: what is left ahead of them does not grow.                        *)
LEMMA OneLeaves ==
  ASSUME EachRowOnce, WaitingSound, NEW c \in Competitors, NEW n \in 1..MaxWait,
         wait' = [wait EXCEPT ![c] = n], older' = OlderWithout(c),
         skipped' = [skipped EXCEPT ![c] = 0],
         InBatch \ {c} \subseteq InBatch'
  PROVE  WaitingSound'
  <1>1. TypeOK /\ skipped \in [Competitors -> Nat] /\ n # 0
    BY WaitsAreAWeek DEF EachRowOnce, TypeOK
  <1>2. /\ wait'[c] = n
        /\ \A d \in Competitors \ {c} : wait'[d] = wait[d] /\ Ahead(d)' = Ahead(d) \ {c}
    BY <1>1, NewDate
  <1>3. ASSUME NEW d \in Competitors, wait'[d] = 0
        PROVE  BatchSize * skipped'[d] + Cardinality(Ahead(d)' \ InBatch')
                  <= Cardinality(Competitors) - 1
    <2>1. d # c /\ wait[d] = 0 /\ Ahead(d)' = Ahead(d) \ {c} /\ skipped'[d] = skipped[d]
      BY <1>1, <1>2, <1>3
    <2>2. Ahead(d)' \ InBatch' \subseteq Ahead(d) \ InBatch
      BY <2>1
    <2>3. /\ Cardinality(Ahead(d)' \ InBatch') <= Cardinality(Ahead(d) \ InBatch)
          /\ Cardinality(Ahead(d) \ InBatch) \in Nat
      BY <1>1, <2>2, OthersAhead
    <2>4. Cardinality(Ahead(d)' \ InBatch') \in Nat
      <3>1. Ahead(d)' \ InBatch' \in SUBSET Competitors
        BY <2>1 DEF Ahead
      <3>2. QED
        BY <3>1, Counts
    <2>5. BatchSize * skipped[d] \in Nat /\ Cardinality(Competitors) \in Nat
      BY <1>1, Counts
    <2>6. BatchSize * skipped[d] + Cardinality(Ahead(d) \ InBatch)
             <= Cardinality(Competitors) - 1
      BY <2>1 DEF WaitingSound
    <2>7. QED
      BY <2>1, <2>3, <2>4, <2>5, <2>6
  <1>4. ASSUME NEW d \in Competitors, wait'[d] # 0 PROVE skipped'[d] = 0
    BY <1>1, <1>2, <1>4 DEF WaitingSound
  <1>5. QED
    BY <1>3, <1>4 DEF WaitingSound

(* Every step keeps the account of the pages ahead.                        *)
LEMMA WaitingKept ==
  ASSUME EachRowOnce, WaitingSound, [Next]_vars
  PROVE  WaitingSound'
  <1>1. TypeOK /\ TypeOK'
    BY TypesKept DEF EachRowOnce
  <1>2. /\ BatchSize \in Nat /\ BatchSize * 0 = 0
        /\ Cardinality(Competitors) \in Nat
    BY Counts
  <1>3. ASSUME wait' = wait, older' = older, skipped' = skipped, InBatch' = InBatch
        PROVE  WaitingSound'
    BY <1>3 DEF WaitingSound, Ahead
  <1>4. ASSUME \A c \in Competitors : skipped'[c] = 0
        PROVE  WaitingSound'
    <2>1. ASSUME NEW c \in Competitors
          PROVE  Cardinality(Ahead(c)' \ InBatch') <= Cardinality(Competitors) - 1
                 /\ Cardinality(Ahead(c)' \ InBatch') \in Nat
      <3>1. c \notin Ahead(c)' /\ Ahead(c)' \subseteq Competitors
        BY <1>1 DEF Ahead, TypeOK
      <3>2. Ahead(c)' \ InBatch' \in SUBSET Competitors /\ Ahead(c)' \ InBatch' # Competitors
        BY <3>1
      <3>3. QED
        BY <1>2, <3>2, Counts
    <2>2. QED
      BY <1>2, <1>4, <2>1 DEF WaitingSound
  <1>5. CASE StartPass
    <2>1. /\ wait' = wait /\ Range(queue') \subseteq InBatch'
          /\ \A c \in Competitors : Ahead(c)' = Ahead(c)
      BY <1>5 DEF StartPass, dates, InBatch, Ahead
    <2>2. ASSUME NEW c \in Competitors, wait[c] = 0
          PROVE  BatchSize * skipped'[c] + Cardinality(Ahead(c)' \ InBatch')
                    <= Cardinality(Competitors) - 1
      <3>1. BatchSize * skipped'[c] + Cardinality(Ahead(c) \ Range(queue'))
               <= Cardinality(Competitors) - 1
        BY <1>5, <2>2, LeftOutWaiting
      <3>2. Ahead(c)' \ InBatch' \subseteq Ahead(c) \ Range(queue')
        BY <2>1
      <3>3. /\ Cardinality(Ahead(c)' \ InBatch') <= Cardinality(Ahead(c) \ Range(queue'))
            /\ Cardinality(Ahead(c) \ Range(queue')) \in Nat
        BY <1>1, <3>2, OthersAhead
      <3>4. Cardinality(Ahead(c)' \ InBatch') \in Nat
        <4>1. Ahead(c)' \ InBatch' \in SUBSET Competitors
          BY <2>1 DEF Ahead
        <4>2. QED
          BY <4>1, Counts
      <3>5. BatchSize * skipped'[c] \in Nat
        BY <1>1, <1>2 DEF TypeOK
      <3>6. QED
        BY <1>2, <3>1, <3>3, <3>4, <3>5
    <2>3. ASSUME NEW c \in Competitors, wait[c] # 0 PROVE skipped'[c] = 0
      BY <1>5, <2>3 DEF StartPass, WaitingSound, Due
    <2>4. QED
      BY <2>1, <2>2, <2>3 DEF WaitingSound
  <1>6. CASE NextDay
    <2>. DEFINE reached == { c \in monitored : wait[c] = 1 }
                before == { c \in Competitors : wait[c] = 0 }
    <2>1. PICK order \in Orders(reached) :
             older' = older \cup (before \X reached) \cup order
      BY <1>6 DEF NextDay
    <2>2. reached \in SUBSET Competitors /\ \A c \in reached : wait[c] # 0
      BY <1>1 DEF TypeOK
    <2>3. \A c \in before : \A d \in Competitors :
             <<d, c>> \in older' <=> <<d, c>> \in older
      BY <1>1, <2>1, <2>2, DayOrder
    <2>4. ASSUME NEW c \in Competitors, wait[c] = 0
          PROVE  Ahead(c)' \ InBatch' = Ahead(c) \ InBatch /\ skipped'[c] = skipped[c]
      BY <1>6, <2>3, <2>4 DEF NextDay, Ahead, InBatch, working
    <2>5. ASSUME NEW c \in Competitors, wait[c] # 0
          PROVE  skipped'[c] = 0 /\ Cardinality(Ahead(c)' \ InBatch') \in Nat
                 /\ Cardinality(Ahead(c)' \ InBatch') <= Cardinality(Competitors) - 1
      <3>1. skipped'[c] = 0
        BY <1>6, <2>5 DEF NextDay, WaitingSound
      <3>2. c \notin Ahead(c)' /\ Ahead(c)' \subseteq Competitors
        BY <1>1 DEF Ahead, TypeOK
      <3>3. Ahead(c)' \ InBatch' \in SUBSET Competitors /\ Ahead(c)' \ InBatch' # Competitors
        BY <3>2
      <3>4. QED
        BY <1>2, <3>1, <3>3, Counts
    <2>6. \A c \in Competitors : wait[c] = 0 => wait'[c] = 0
      BY <1>6 DEF NextDay
    <2>7. ASSUME NEW c \in Competitors
          PROVE  /\ wait'[c] # 0 => skipped'[c] = 0
                 /\ wait'[c] = 0 =>
                       BatchSize * skipped'[c] + Cardinality(Ahead(c)' \ InBatch')
                          <= Cardinality(Competitors) - 1
      <3>1. CASE wait[c] = 0
        BY <2>4, <2>6, <3>1 DEF WaitingSound
      <3>2. CASE wait[c] # 0
        BY <1>2, <2>5, <3>2
      <3>3. QED
        BY <3>1, <3>2
    <2>8. QED
      BY <2>7 DEF WaitingSound
  <1>7. ASSUME NEW c \in Competitors, NEW waits, waits \subseteq 1..MaxWait,
               SetDate(c, waits), skipped' = [skipped EXCEPT ![c] = 0],
               InBatch \ {c} \subseteq InBatch'
        PROVE  WaitingSound'
    BY <1>1, <1>7, DateSet, OneLeaves
  <1>8. ASSUME NEW c \in Competitors, Persist(c) PROVE WaitingSound'
    <2>1. /\ SetDate(c, WaitsAfter(PassHours))
          /\ skipped' = [skipped EXCEPT ![c] = 0]
          /\ InBatch \ {c} \subseteq InBatch'
      BY <1>8, RowCounted DEF Persist, WriteRow
    <2>2. QED
      BY <1>7, <2>1, Waits
  <1>9. ASSUME NEW c \in Competitors, Retry(c) PROVE WaitingSound'
    <2>1. /\ SetDate(c, WaitsAfter(AnyHours))
          /\ skipped' = [skipped EXCEPT ![c] = 0] /\ InBatch' = InBatch
      BY <1>9 DEF Retry, WriteRow, InBatch, batch, working
    <2>2. QED
      BY <1>7, <2>1, Waits
  <1>10. ASSUME NEW c \in Competitors, RemovePage(c) \/ Resume(c) PROVE WaitingSound'
    <2>1. /\ SetDate(c, {DueNow})
          /\ skipped' = [skipped EXCEPT ![c] = 0] /\ InBatch' = InBatch
      BY <1>10 DEF RemovePage, Resume, InBatch, batch, working
    <2>2. QED
      BY <1>7, <2>1, Waits
  <1>11. ASSUME NEW c \in Competitors, AddPage(c) PROVE WaitingSound'
    BY <1>3, <1>11 DEF AddPage, dates, history, batch, InBatch, working
  <1>12. ASSUME NEW c \in Competitors, Throw(c) PROVE WaitingSound'
    BY <1>4, <1>12 DEF Throw
  <1>13. CASE Kill
    BY <1>4, <1>13 DEF Kill
  <1>14. ASSUME NEW v \in Workers, Take(v) PROVE WaitingSound'
    <2>1. wait' = wait /\ older' = older /\ skipped' = skipped
      BY <1>14 DEF Take, dates, history
    <2>2. QED
      BY <1>3, <1>14, <2>1, RowTaken
  <1>15. CASE MissPass \/ EndPass
    BY <1>3, <1>15 DEF MissPass, EndPass, dates, history, InBatch, working
  <1>16. ASSUME NEW w \in Workspaces, Visit(w) PROVE WaitingSound'
    BY <1>3, <1>16 DEF Visit, dates, batch, history, InBatch, working
  <1>17. CASE UNCHANGED vars
    BY <1>3, <1>17 DEF vars, dates, batch, history, InBatch, working
  <1>counted. QED
    BY <1>5, <1>6, <1>8, <1>9, <1>10, <1>11, <1>12, <1>13, <1>14, <1>15, <1>16,
       <1>17 DEF Next

----------------------------------------------------------------------------
(* The theorems.                                                           *)

LEMMA InvHolds == Spec => []IInv
  <1>. USE WaitsAreAWeek
  <1>1. Init => IInv
    <2>. SUFFICES ASSUME Init PROVE IInv
      OBVIOUS
    <2>1. TypeOK
      <3>1. ASSUME NEW c \in Competitors PROVE Many \in Nat
        <4>1. Cardinality({c}) = 1 /\ {c} \in SUBSET Competitors
          BY FS_Singleton
        <4>2. Cardinality(Competitors) - 1 \in Nat /\ BatchSize \in Nat \ {0}
          BY <4>1, Counts
        <4>3. QED
          BY <4>2 DEF Many
      <3>2. /\ wait \in [Competitors -> 0..MaxWait] /\ quiet \in [Competitors -> 0..Long]
            /\ skipped \in [Competitors -> 0..Many]
            /\ unseen \in [Workspaces -> 0..(ActiveWindow + 1)]
            /\ \A c \in Competitors : wait[c] = 1
        BY <3>1, BatchAssumption DEF Init
      <3>3. QED
        BY <3>2 DEF Init, TypeOK, MaxWait
    <2>2. /\ InBatch = {} /\ IsInjective(queue) /\ Range(queue) \cap working = {}
          /\ selected = {} /\ dealt = {} /\ Cardinality(selected) = 0
          /\ \A v \in Workers : hand[v] = Idle
      BY FS_EmptySet DEF Init, InBatch, working, Range, IsInjective
    <2>3. EachRowOnce
      BY <2>1, <2>2, Counts DEF EachRowOnce
    <2>4. DatesSound /\ WaitingSound
      BY <2>2 DEF Init, DatesSound, WaitingSound
    <2>5. QED
      BY <2>3, <2>4 DEF IInv
  <1>2. IInv /\ [Next]_vars => IInv'
    BY RowsKept, DatesKept, WaitingKept DEF IInv
  <1>3. QED
    BY <1>1, <1>2, PTL DEF Spec

(* Whatever the number of workers and the size of the batch, each row of a *)
(* pass is in the queue, with one worker or counted, in one place only.    *)
THEOREM EachRowAlwaysOnce == Spec => []EachRowOnce
  BY InvHolds, PTL DEF IInv

(* However pages come and go, undisturbed passes leave a due page out at   *)
(* most as often as the other pages fill a batch.                          *)
THEOREM WaitAlwaysBounded == Spec => []BoundedWait
  <1>1. IInv => BoundedWait
    <2>. SUFFICES ASSUME IInv, NEW c \in Competitors
                  PROVE  skipped[c] <= (Cardinality(Competitors) - 1) \div BatchSize
      BY DEF BoundedWait
    <2>1. TypeOK /\ skipped[c] \in Nat
      BY DEF IInv, EachRowOnce, TypeOK
    <2>2. /\ BatchSize \in Nat \ {0} /\ Cardinality(Competitors) \in Nat
          /\ Cardinality(Ahead(c) \ InBatch) \in Nat
          /\ Cardinality(Ahead(c) \ InBatch) <= Cardinality(Competitors) - 1
      BY <2>1, Counts, OthersAhead
    <2>3. BatchSize * skipped[c] <= Cardinality(Competitors) - 1
      <3>1. CASE wait[c] = 0
        <4>1. BatchSize * skipped[c] + Cardinality(Ahead(c) \ InBatch)
                 <= Cardinality(Competitors) - 1
          BY <3>1 DEF IInv, WaitingSound
        <4>2. BatchSize * skipped[c] \in Nat
          BY <2>1, <2>2
        <4>3. QED
          BY <2>2, <4>1, <4>2
      <3>2. CASE wait[c] # 0
        <4>1. skipped[c] = 0 /\ BatchSize * 0 = 0
          BY <2>2, <3>2 DEF IInv, WaitingSound
        <4>2. QED
          BY <2>2, <4>1
      <3>3. QED
        BY <3>1, <3>2
    <2>4. QED
      BY <2>1, <2>2, <2>3
  <1>2. QED
    BY <1>1, InvHolds, PTL

(* Scheduled checks run at most weekly: a page of the batch has had no     *)
(* persisted check for a week, unless its user resumed it.                 *)
THEOREM WeeklyAlways == Spec => []WeeklyCeiling
  <1>1. IInv => WeeklyCeiling
    <2>. SUFFICES ASSUME IInv, NEW c \in InBatch \cap monitored
                  PROVE  quiet[c] > Interval
      BY DEF WeeklyCeiling
    <2>1. c \in Competitors /\ quiet[c] \in Nat /\ quiet[c] >= Interval + 1
      BY DEF IInv, EachRowOnce, TypeOK, DatesSound, Long
    <2>2. QED
      BY <2>1, BatchAssumption
  <1>2. QED
    BY <1>1, InvHolds, PTL

----------------------------------------------------------------------------
(* A call of guardedFetch.                                                 *)

(* The socket of a hop, with the timer it is due to have.                  *)
Socket(h) == [hop |-> h, until |-> Timeout]

SocketSound ==
    sockets = IF pc \in {"await", "read"} THEN {Socket(hop)} ELSE {}

AddressSound == contacted \cap Private = {} /\ pinned \cap Private = {}

ClockSound == now > Timeout => pc \in {"resolve", "connect", "done"}

BodySound ==
    /\ pc # "done" => kept < MaxBytes /\ ~cut /\ out = "none"
    /\ CapHolds

FetchInv == FetchTypeOK /\ SocketSound /\ AddressSound /\ ClockSound /\ BodySound

----------------------------------------------------------------------------
(* The end of a call, from any step, with the body as it was.              *)
LEMMA FinishSound ==
  ASSUME FetchInv, NEW kind \in Outcomes \ {"success"}, pc # "done", Finish(kind),
         UNCHANGED <<now, mode, hop, url, pinned, body, contacted>>
  PROVE  FetchInv'
  <1>1. sockets' = {}
    BY DEF FetchInv, SocketSound, Socket, Finish, OthersOpen
  <1>2. FetchTypeOK'
    BY <1>1 DEF FetchInv, FetchTypeOK, Finish, CallSteps, body
  <1>3. SocketSound' /\ AddressSound' /\ ClockSound'
    BY <1>1 DEF FetchInv, SocketSound, AddressSound, ClockSound, Finish
  <1>4. BodySound'
    BY DEF FetchInv, BodySound, CapHolds, Finish, body
  <1>5. QED
    BY <1>2, <1>3, <1>4 DEF FetchInv

(* Initially nothing is open, kept or decided.                             *)
LEMMA FetchInitSound == FetchInit => FetchInv
  <1> SUFFICES ASSUME FetchInit PROVE FetchInv
    OBVIOUS
  <1>1. FetchTypeOK
    <2>1. 0 \in 0..MaxRedirects
      BY FetchAssumption
    <2>2. QED
      BY <2>1 DEF FetchInit, FetchTypeOK, CallSteps
  <1>2. SocketSound /\ AddressSound
    BY DEF FetchInit, SocketSound, AddressSound
  <1>3. ClockSound /\ BodySound
    BY FetchAssumption DEF FetchInit, ClockSound, BodySound, CapHolds
  <1>4. QED
    BY <1>1, <1>2, <1>3 DEF FetchInv

(* An address past its check has a literal that is not private.            *)
LEMMA CheckUrlSound == ASSUME FetchInv, CheckUrl PROVE FetchInv'
  <1>1. CASE Finish("refused") /\ UNCHANGED pinned
    BY <1>1, FinishSound DEF CheckUrl, Outcomes
  <1>2. CASE /\ Refusal(url) = "ok" /\ Literal[url] # NoAddress
             /\ pinned' = {Literal[url]} /\ pc' = "connect"
             /\ UNCHANGED <<sockets, out>>
    <2>1. Literal[url] \in Addresses \ Private
      BY <1>2, FetchAssumption DEF Refusal, FetchInv, FetchTypeOK
    <2>2. FetchTypeOK'
      BY <1>2, <2>1 DEF CheckUrl, FetchInv, FetchTypeOK, CallSteps, body
    <2>3. SocketSound' /\ AddressSound' /\ ClockSound' /\ BodySound'
      BY <1>2, <2>1 DEF CheckUrl, FetchInv, SocketSound, AddressSound,
         ClockSound, BodySound, CapHolds, body
    <2>4. QED
      BY <2>2, <2>3 DEF FetchInv
  <1>3. CASE pc' = "resolve" /\ UNCHANGED <<pinned, sockets, out>>
    <2>1. FetchTypeOK'
      BY <1>3 DEF CheckUrl, FetchInv, FetchTypeOK, CallSteps, body
    <2>2. SocketSound' /\ AddressSound' /\ ClockSound' /\ BodySound'
      BY <1>3 DEF CheckUrl, FetchInv, SocketSound, AddressSound, ClockSound,
         BodySound, CapHolds, body
    <2>3. QED
      BY <2>1, <2>2 DEF FetchInv
  <1>4. QED
    BY <1>1, <1>2, <1>3 DEF CheckUrl

(* Answers are in hand only if none of them is private.                    *)
LEMMA ResolveSound ==
  ASSUME FetchInv, NEW answers \in SUBSET Addresses, Resolve(answers)
  PROVE  FetchInv'
  <1>1. CASE Finish("dns_error") /\ UNCHANGED pinned
    BY <1>1, FinishSound DEF Resolve, Outcomes
  <1>2. CASE Finish("ssrf_blocked") /\ UNCHANGED pinned
    BY <1>2, FinishSound DEF Resolve, Outcomes
  <1>3. CASE /\ answers \cap Private = {} /\ pinned' = answers
             /\ pc' = "connect" /\ UNCHANGED <<sockets, out>>
    <2>1. FetchTypeOK'
      BY <1>3 DEF Resolve, FetchInv, FetchTypeOK, CallSteps, body
    <2>2. SocketSound' /\ AddressSound' /\ ClockSound' /\ BodySound'
      BY <1>3 DEF Resolve, FetchInv, SocketSound, AddressSound, ClockSound,
         BodySound, CapHolds, body
    <2>3. QED
      BY <2>1, <2>2 DEF FetchInv
  <1>4. QED
    BY <1>1, <1>2, <1>3 DEF Resolve

(* A socket is opened before the deadline, to an address in hand.          *)
LEMMA ConnectSound == ASSUME FetchInv, Connect PROVE FetchInv'
  <1>1. CASE Finish("timeout") /\ UNCHANGED contacted
    BY <1>1, FinishSound DEF Connect, Outcomes
  <1>2. CASE /\ now < Timeout
             /\ sockets' = sockets \cup {[hop |-> hop, until |-> Timeout]}
             /\ \E a \in pinned : contacted' = contacted \cup {a}
             /\ pc' = "await" /\ UNCHANGED out
    <2>1. sockets' = {Socket(hop)}
      BY <1>2 DEF Connect, FetchInv, SocketSound, Socket
    <2>2. Socket(hop) \in [hop : 0..MaxRedirects, until : Nat]
      BY FetchAssumption DEF Socket, FetchInv, FetchTypeOK
    <2>3. FetchTypeOK'
      BY <1>2, <2>1, <2>2 DEF Connect, FetchInv, FetchTypeOK, CallSteps, body
    <2>4. SocketSound' /\ AddressSound'
      BY <1>2, <2>1 DEF Connect, FetchInv, SocketSound, AddressSound, Socket
    <2>5. ClockSound' /\ BodySound'
      BY <1>2, FetchAssumption DEF Connect, FetchInv, FetchTypeOK, ClockSound,
         BodySound, CapHolds, body
    <2>6. QED
      BY <2>3, <2>4, <2>5 DEF FetchInv
  <1>3. QED
    BY <1>1, <1>2 DEF Connect

(* The next hop starts without a socket, and not past the deadline.        *)
LEMMA RedirectSound ==
  ASSUME FetchInv, NEW location \in Urls \cup {NoLocation, BadLocation},
         Redirect(location)
  PROVE  FetchInv'
  <1>1. CASE Finish("redirect_loop") /\ UNCHANGED <<hop, url>>
    BY <1>1, FinishSound DEF Redirect, Outcomes
  <1>2. CASE Finish("refused") /\ UNCHANGED <<hop, url>>
    BY <1>2, FinishSound DEF Redirect, Outcomes
  <1>3. CASE /\ location \in Urls /\ hop # MaxRedirects
             /\ hop' = hop + 1 /\ url' = location
             /\ sockets' = OthersOpen /\ pc' = "check" /\ UNCHANGED out
    <2>1. sockets' = {}
      BY <1>3 DEF Redirect, FetchInv, SocketSound, Socket, OthersOpen
    <2>2. hop' \in 0..MaxRedirects
      BY <1>3, FetchAssumption DEF FetchInv, FetchTypeOK
    <2>3. FetchTypeOK'
      BY <1>3, <2>1, <2>2 DEF Redirect, FetchInv, FetchTypeOK, CallSteps, body
    <2>4. SocketSound' /\ AddressSound' /\ ClockSound' /\ BodySound'
      BY <1>3, <2>1 DEF Redirect, FetchInv, SocketSound, AddressSound,
         ClockSound, BodySound, CapHolds, body
    <2>5. QED
      BY <2>3, <2>4 DEF FetchInv
  <1>4. QED
    BY <1>1, <1>2, <1>3 DEF Redirect

(* A body is read under the timer of its hop.                              *)
LEMMA StartBodySound ==
  ASSUME FetchInv, NEW declared \in Lengths, StartBody(declared)
  PROVE  FetchInv'
  <1>1. size' \in Nat
    BY FetchAssumption DEF StartBody
  <1>2. FetchTypeOK'
    BY <1>1 DEF StartBody, FetchInv, FetchTypeOK, CallSteps
  <1>3. SocketSound' /\ AddressSound' /\ ClockSound' /\ BodySound'
    BY DEF StartBody, FetchInv, SocketSound, AddressSound, ClockSound,
       BodySound, CapHolds
  <1>4. QED
    BY <1>2, <1>3 DEF FetchInv

(* A chunk that is kept leaves the body below the cap, or ends it.         *)
LEMMA ChunkSound ==
  ASSUME FetchInv, NEW n \in 1..MaxChunk, Chunk(n)
  PROVE  FetchInv'
  <1>0. /\ kept \in Nat /\ n \in Nat /\ n <= MaxChunk /\ kept < MaxBytes
        /\ MaxBytes \in Nat /\ MaxChunk \in Nat
    BY FetchAssumption DEF Chunk, FetchInv, FetchTypeOK, BodySound
  <1>1. CASE Finish("too_large") /\ UNCHANGED <<kept, cut>>
    BY <1>1, FinishSound DEF Chunk, Outcomes, body
  <1>2. CASE /\ ~ (kept + n > MaxBytes /\ mode = "abort")
             /\ kept' = kept + n /\ cut' = TRUE /\ Finish("success")
    <2>1. sockets' = {}
      BY <1>2 DEF FetchInv, SocketSound, Socket, Finish, OthersOpen
    <2>2. FetchTypeOK'
      BY <1>0, <1>2, <2>1
      DEF Chunk, FetchInv, FetchTypeOK, Finish, CallSteps, Outcomes
    <2>3. SocketSound' /\ AddressSound' /\ ClockSound'
      BY <1>2, <2>1
      DEF Chunk, FetchInv, SocketSound, AddressSound, ClockSound, Finish
    <2>4. BodySound'
      BY <1>0, <1>2 DEF Chunk, BodySound, CapHolds, Finish
    <2>5. QED
      BY <2>2, <2>3, <2>4 DEF FetchInv
  <1>3. CASE /\ kept + n < MaxBytes /\ kept' = kept + n
             /\ UNCHANGED <<pc, sockets, out, cut>>
    <2>1. FetchTypeOK'
      BY <1>0, <1>3 DEF Chunk, FetchInv, FetchTypeOK
    <2>2. SocketSound' /\ AddressSound' /\ ClockSound'
      BY <1>3 DEF Chunk, FetchInv, SocketSound, AddressSound, ClockSound
    <2>3. BodySound'
      BY <1>0, <1>3 DEF Chunk, FetchInv, BodySound, CapHolds
    <2>4. QED
      BY <2>1, <2>2, <2>3 DEF FetchInv
  <1>4. QED
    BY <1>1, <1>2, <1>3 DEF Chunk

(* A body that ends by itself is whole.                                    *)
LEMMA EndBodySound == ASSUME FetchInv, EndBody PROVE FetchInv'
  <1>1. sockets' = {}
    BY DEF EndBody, FetchInv, SocketSound, Socket, Finish, OthersOpen
  <1>2. FetchTypeOK'
    BY <1>1 DEF EndBody, FetchInv, FetchTypeOK, Finish, CallSteps, Outcomes, body
  <1>3. SocketSound' /\ AddressSound' /\ ClockSound'
    BY <1>1 DEF EndBody, FetchInv, SocketSound, AddressSound, ClockSound, Finish
  <1>4. BodySound'
    BY DEF EndBody, FetchInv, BodySound, CapHolds, Finish, body
  <1>5. QED
    BY <1>2, <1>3, <1>4 DEF FetchInv

(* The clock does not pass the deadline while a socket is open.            *)
LEMMA TickSound == ASSUME FetchInv, Tick PROVE FetchInv'
  <1>1. FetchTypeOK'
    BY DEF Tick, FetchInv, FetchTypeOK, body
  <1>2. SocketSound' /\ AddressSound' /\ BodySound'
    BY DEF Tick, FetchInv, SocketSound, AddressSound, BodySound, CapHolds, body
  <1>3. ClockSound'
    <2>1. CASE pc \in {"await", "read"}
      <3>1. now < Timeout
        BY <2>1 DEF Tick, FetchInv, SocketSound, Socket
      <3>2. QED
        BY <3>1, FetchAssumption DEF Tick, FetchInv, FetchTypeOK, ClockSound
    <2>2. CASE pc \notin {"await", "read"}
      BY <2>2 DEF Tick, ClockSound
    <2>3. QED
      BY <2>1, <2>2
  <1>4. QED
    BY <1>1, <1>2, <1>3 DEF FetchInv

(* The pieces of a call agree with its step, in every reachable state.     *)
THEOREM FetchInvHolds == FetchSpec => []FetchInv
  <1>1. FetchInit => FetchInv
    BY FetchInitSound
  <1>2. FetchInv /\ [FetchNext]_fetchVars => FetchInv'
    <2> SUFFICES ASSUME FetchInv, [FetchNext]_fetchVars PROVE FetchInv'
      OBVIOUS
    <2>1. CASE CheckUrl
      BY <2>1, CheckUrlSound
    <2>2. ASSUME NEW answers \in SUBSET Addresses, Resolve(answers)
          PROVE  FetchInv'
      BY <2>2, ResolveSound
    <2>3. CASE Connect
      BY <2>3, ConnectSound
    <2>4. CASE SocketFails
      BY <2>4, FinishSound DEF SocketFails, Failure, Outcomes
    <2>5. CASE Expire
      BY <2>5, FinishSound DEF Expire, Failure, Outcomes
    <2>6. CASE Response
      <3>1. ASSUME NEW location \in Urls \cup {NoLocation, BadLocation},
                   Redirect(location)
            PROVE  FetchInv'
        BY <3>1, RedirectSound
      <3>2. ASSUME NEW ok \in BOOLEAN, NEW identity \in BOOLEAN,
                   NEW html \in BOOLEAN, NEW declared \in Lengths,
                   Headers(ok, identity, html, declared)
            PROVE  FetchInv'
        BY <3>2, FinishSound DEF Headers, Outcomes
      <3>3. ASSUME NEW declared \in Lengths, StartBody(declared)
            PROVE  FetchInv'
        BY <3>3, StartBodySound
      <3>4. ASSUME NEW n \in 1..MaxChunk, Chunk(n) PROVE FetchInv'
        BY <3>4, ChunkSound
      <3>5. CASE EndBody
        BY <3>5, EndBodySound
      <3>6. QED
        BY <2>6, <3>1, <3>2, <3>3, <3>4, <3>5 DEF Response
    <2>7. CASE Tick
      BY <2>7, TickSound
    <2>8. CASE UNCHANGED fetchVars
      BY <2>8 DEF fetchVars, FetchInv, FetchTypeOK, SocketSound, AddressSound, ClockSound,
         BodySound, CapHolds
    <2>9. QED
      BY <2>1, <2>2, <2>3, <2>4, <2>5, <2>6, <2>7, <2>8 DEF FetchNext
  <1>3. QED
    BY <1>1, <1>2, PTL DEF FetchSpec

(* The values keep their types and the redirect limit holds.               *)
THEOREM FetchTypeCorrect == FetchSpec => []FetchTypeOK
  <1>1. FetchInv => FetchTypeOK
    BY DEF FetchInv
  <1>2. QED
    BY <1>1, FetchInvHolds, PTL

(* No call ever connects to a private address, whatever the resolver       *)
(* answers and wherever servers redirect to.                               *)
THEOREM OnlyCheckedContacted == FetchSpec => []OnlyCheckedAddresses
  <1>1. FetchInv => OnlyCheckedAddresses
    BY DEF FetchInv, AddressSound, OnlyCheckedAddresses
  <1>2. QED
    BY <1>1, FetchInvHolds, PTL

(* No call has two sockets or leaves one behind.                           *)
THEOREM SocketsAlwaysClosed == FetchSpec => []SocketsClosed
  <1>1. FetchInv => SocketsClosed
    <2>1. Cardinality({Socket(hop)}) = 1 /\ Cardinality({}) = 0
      BY FS_Singleton, FS_EmptySet
    <2>2. QED
      BY <2>1 DEF FetchInv, SocketSound, SocketsClosed
  <1>2. QED
    BY <1>1, FetchInvHolds, PTL

(* No server holds a call past its deadline.                               *)
THEOREM DeadlineAlwaysHolds == FetchSpec => []DeadlineHolds
  <1>1. FetchInv => DeadlineHolds
    BY DEF FetchInv, ClockSound, DeadlineHolds
  <1>2. QED
    BY <1>1, FetchInvHolds, PTL

(* The cap on what is kept holds for any sizes of bodies and chunks.       *)
THEOREM CapAlwaysHolds == FetchSpec => []CapHolds
  <1>1. FetchInv => CapHolds
    BY DEF FetchInv, BodySound
  <1>2. QED
    BY <1>1, FetchInvHolds, PTL

----------------------------------------------------------------------------
(* The safety half of Ends.                                                *)

(* How far a hop has come.                                                 *)
Stage == [check |-> 0, resolve |-> 1, connect |-> 2, await |-> 3, read |-> 4,
          done |-> 5]

(* A later hop, a later step of the hop, or more of a body that is limited.*)
Forward ==
    \/ pc' = "check" /\ pc # "done" /\ hop' = hop + 1 /\ hop' <= MaxRedirects
    \/ Stage[pc'] > Stage[pc] /\ hop' = hop
    \/ /\ pc = "read" /\ pc' = "read" /\ UNCHANGED <<hop, size>>
       /\ kept' > kept /\ kept' <= size

Later == now' = now + 1 /\ UNCHANGED <<pc, hop, size, kept, out, cut>>

(* What ends the wait for a server is set: the timer of this hop, which    *)
(* has not run out unseen.                                                 *)
WaitIsTimed ==
    pc \in {"await", "read"} =>
        \E s \in sockets : s.hop = hop /\ s.until = Timeout /\ now <= s.until

LEMMA FinishGoesForward ==
  ASSUME FetchInv, NEW kind, pc # "done", Finish(kind), UNCHANGED hop
  PROVE  Forward
  BY DEF Finish, Forward, Stage, FetchInv, FetchTypeOK, CallSteps

(* A redirect uses up one of a limited number of hops, or ends the call.   *)
LEMMA RedirectGoesForward ==
  ASSUME FetchInv, NEW location \in Urls \cup {NoLocation, BadLocation},
         Redirect(location)
  PROVE  Forward
  <1>1. CASE UNCHANGED hop /\ \E kind \in {"redirect_loop", "refused"} : Finish(kind)
    BY <1>1, FinishGoesForward DEF Redirect
  <1>2. CASE hop # MaxRedirects /\ hop' = hop + 1 /\ pc' = "check"
    BY <1>2, FetchAssumption DEF Redirect, Forward, FetchInv, FetchTypeOK
  <1>3. QED
    BY <1>1, <1>2 DEF Redirect

LEMMA ResponseGoesForward == ASSUME FetchInv, Response PROVE Forward
  <1>1. ASSUME NEW location \in Urls \cup {NoLocation, BadLocation},
               Redirect(location)
        PROVE  Forward
    BY <1>1, RedirectGoesForward
  <1>2. ASSUME NEW ok \in BOOLEAN, NEW identity \in BOOLEAN,
               NEW html \in BOOLEAN, NEW declared \in Lengths,
               Headers(ok, identity, html, declared)
        PROVE  Forward
    BY <1>2, FinishGoesForward DEF Headers
  <1>3. ASSUME NEW declared \in Lengths, StartBody(declared) PROVE Forward
    BY <1>3 DEF StartBody, Forward, Stage
  <1>4. ASSUME NEW n \in 1..MaxChunk, Chunk(n) PROVE Forward
    <2>1. CASE \E kind \in {"too_large", "success"} : Finish(kind)
      BY <1>4, <2>1, FinishGoesForward DEF Chunk
    <2>2. CASE kept' = kept + n /\ UNCHANGED pc
      <3>1. kept \in Nat /\ n \in Nat /\ n > 0
        BY FetchAssumption DEF FetchInv, FetchTypeOK
      <3>2. QED
        BY <1>4, <2>2, <3>1 DEF Chunk, Forward
    <2>3. QED
      BY <1>4, <2>1, <2>2 DEF Chunk
  <1>5. CASE EndBody
    BY <1>5, FinishGoesForward DEF EndBody
  <1>6. QED
    BY <1>1, <1>2, <1>3, <1>4, <1>5 DEF Response

(* Every step a call takes, whatever the servers do, brings it nearer to   *)
(* its end: hops are limited, the steps of a hop are, and so is a body.    *)
(* So it is only by time going by that a call can go on for ever.          *)
THEOREM CallGoesForward == FetchSpec => [][Forward \/ Later]_fetchVars
  <1>1. FetchInv /\ [FetchNext]_fetchVars => [Forward \/ Later]_fetchVars
    <2> SUFFICES ASSUME FetchInv, FetchNext PROVE Forward \/ Later
      OBVIOUS
    <2>1. CASE CheckUrl
      BY <2>1, FinishGoesForward DEF CheckUrl, Forward, Stage
    <2>2. ASSUME NEW answers \in SUBSET Addresses, Resolve(answers)
          PROVE  Forward
      BY <2>2, FinishGoesForward DEF Resolve, Forward, Stage
    <2>3. CASE Connect
      BY <2>3, FinishGoesForward DEF Connect, Forward, Stage
    <2>4. CASE SocketFails \/ Expire
      BY <2>4, FinishGoesForward DEF SocketFails, Expire
    <2>5. CASE Response
      BY <2>5, ResponseGoesForward
    <2>6. CASE Tick
      BY <2>6 DEF Tick, Later, body
    <2>7. QED
      BY <2>1, <2>2, <2>3, <2>4, <2>5, <2>6 DEF FetchNext
  <1>2. QED
    BY <1>1, FetchInvHolds, PTL DEF FetchSpec

(* And no server makes time go by for ever: a call that waits for one has  *)
(* the timer that will end the wait, at the one deadline of all its hops   *)
(* (the timer of the transport, guardedFetch.ts).                          *)
THEOREM WaitAlwaysTimed == FetchSpec => []WaitIsTimed
  <1>1. FetchInv => WaitIsTimed
    <2> SUFFICES ASSUME FetchInv, pc \in {"await", "read"}
                 PROVE  \E s \in sockets :
                            s.hop = hop /\ s.until = Timeout /\ now <= s.until
      BY DEF WaitIsTimed
    <2>1. Socket(hop) \in sockets
      BY DEF FetchInv, SocketSound
    <2>2. now <= Timeout
      BY FetchAssumption DEF FetchInv, FetchTypeOK, ClockSound
    <2>3. QED
      BY <2>1, <2>2 DEF Socket
  <1>2. QED
    BY <1>1, FetchInvHolds, PTL

=============================================================================
