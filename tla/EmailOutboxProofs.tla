-------------------------- MODULE EmailOutboxProofs --------------------------
(***************************************************************************)
(* What the outbox promises for any number of rounds and rows: the outcome *)
(* of a row was earned, copies are counted, and a failure is never written *)
(* over a recorded delivery.                                               *)
(***************************************************************************)
EXTENDS EmailOutbox, FiniteSetTheorems, SequenceTheorems, TLAPS

Busy == {"sending", "accepted", "failed"}

RowsTyped ==
    /\ outbox \in [Emails -> Row]
    /\ accepted \in [Emails -> Nat]
    /\ unrecorded \subseteq Emails
    /\ crashes \in 0 .. MaxCrashes

(* A round that is not idle has a row in hand. *)
RoundsTyped ==
    /\ rounds \in [Rounds -> [todo : Seq(Listed), step : Steps]]
    /\ \A r \in Rounds : ~At(r, "idle") => rounds[r].todo # << >>

(* What a round has listed exists, and had no more attempts then than now. *)
Listing ==
    \A r \in Rounds : \A i \in DOMAIN rounds[r].todo :
        LET x == rounds[r].todo[i] IN
        outbox[x.email].status # "NONE" /\ x.attempts <= outbox[x.email].attempts

(* A round past its claim has counted its attempt since it listed the row. *)
Counted ==
    \A r \in Rounds :
        rounds[r].step \in Busy => Head(rounds[r].todo).attempts < outbox[InHand(r)].attempts

Untouched == \A e \in Emails : outbox[e].status = "NONE" => accepted[e] = 0

Sending(e) == {r \in Rounds : At(r, "sending") /\ InHand(r) = e}

(* Copies that left and copies about to leave are counted attempts. *)
Copies == \A e \in Emails : accepted[e] + Cardinality(Sending(e)) <= outbox[e].attempts

(* A round that has a receipt was given it. *)
Receipts == \A r \in Rounds : At(r, "accepted") => accepted[InHand(r)] > 0

(* An acceptance is recorded, about to be, or known to be lost. *)
Acceptances ==
    \A e \in Emails :
        accepted[e] > 0 => e \in unrecorded \/ Recording(e) # {} \/ outbox[e].status = "SENT"

Books == Listing /\ Counted /\ Untouched /\ Copies /\ Receipts /\ Acceptances /\ OutcomeIsEarned

IInv == RowsTyped /\ RoundsTyped /\ Books

-----------------------------------------------------------------------------
(* The two things that happen to a round *)

Others(r) == \A q \in Rounds \ {r} : rounds'[q] = rounds[q]

(* The row in hand is dropped: what is left was listed before. *)
Drops(r) ==
    /\ Others(r)
    /\ rounds'[r].step \in {"idle", "next"}
    /\ \A i \in DOMAIN rounds'[r].todo :
          \E k \in DOMAIN rounds[r].todo : rounds'[r].todo[i] = rounds[r].todo[k]

(* The row stays in hand. *)
Keeps(r, step) ==
    /\ Others(r)
    /\ rounds'[r].step = step
    /\ rounds'[r].todo = rounds[r].todo

(* A round that is not idle has a listed row in hand. *)
LEMMA HandIn ==
  ASSUME RoundsTyped, NEW r \in Rounds, ~At(r, "idle")
  PROVE  /\ rounds[r].todo \in Seq(Listed)
         /\ rounds[r].todo # << >>
         /\ Head(rounds[r].todo) \in Listed
         /\ 1 \in DOMAIN rounds[r].todo
         /\ Head(rounds[r].todo) = rounds[r].todo[1]
         /\ InHand(r) \in Emails
<1>1. rounds[r].todo \in Seq(Listed) /\ rounds[r].todo # << >>
  BY DEF RoundsTyped
<1>2. Head(rounds[r].todo) \in Listed
  BY <1>1, HeadTailProperties
<1>3. 1 \in DOMAIN rounds[r].todo /\ Head(rounds[r].todo) = rounds[r].todo[1]
  BY <1>1, EmptySeq
<1> QED BY <1>1, <1>2, <1>3 DEF InHand, Listed

(* Giving up the round drops its row. *)
LEMMA Abandoned ==
  ASSUME RoundsTyped, NEW r \in Rounds, Abandon(r)
  PROVE  Drops(r) /\ RoundsTyped'
<1>1. NoRound \in [todo : Seq(Listed), step : Steps] /\ NoRound.step = "idle"
         /\ NoRound.todo = << >>
  BY DEF NoRound, Round, Steps
<1>2. rounds' = [rounds EXCEPT ![r] = NoRound]
  BY DEF Abandon
<1>3. rounds'[r] = NoRound /\ \A q \in Rounds \ {r} : rounds'[q] = rounds[q]
  BY <1>2 DEF RoundsTyped
<1>4. DOMAIN rounds'[r].todo = {}
  BY <1>1, <1>3
<1> QED BY <1>1, <1>2, <1>3, <1>4 DEF Drops, Others, RoundsTyped, At

(* Going on to the next row drops the one in hand. *)
LEMMA Advanced ==
  ASSUME RoundsTyped, NEW r \in Rounds, ~At(r, "idle"), Advance(r)
  PROVE  Drops(r) /\ RoundsTyped'
<1> DEFINE rest == Tail(rounds[r].todo)
<1>1. rest \in Seq(Listed) /\ Len(rest) = Len(rounds[r].todo) - 1
         /\ \A i \in 1 .. Len(rest) : rest[i] = rounds[r].todo[i + 1]
  BY HandIn, HeadTailProperties
<1>2. CASE rest = << >>
  BY <1>2, Abandoned DEF Advance, Abandon
<1>3. CASE rest # << >>
  <2>1. rounds' = [rounds EXCEPT ![r] = Round(rest, "next")]
    BY <1>3 DEF Advance
  <2>2. Round(rest, "next") \in [todo : Seq(Listed), step : Steps]
    BY <1>1 DEF Round, Steps
  <2>3. rounds'[r].todo = rest /\ rounds'[r].step = "next"
           /\ \A q \in Rounds \ {r} : rounds'[q] = rounds[q]
    BY <2>1 DEF RoundsTyped, Round
  <2>4. rounds' \in [Rounds -> [todo : Seq(Listed), step : Steps]]
    BY <2>1, <2>2 DEF RoundsTyped
  <2>5. \A i \in DOMAIN rest : \E k \in DOMAIN rounds[r].todo : rest[i] = rounds[r].todo[k]
    <3>1. DOMAIN rest = 1 .. Len(rest) /\ DOMAIN rounds[r].todo = 1 .. Len(rounds[r].todo)
             /\ Len(rest) \in Nat /\ Len(rounds[r].todo) \in Nat
      BY <1>1, HandIn, LenProperties
    <3> SUFFICES ASSUME NEW i \in DOMAIN rest
                 PROVE  i + 1 \in DOMAIN rounds[r].todo /\ rest[i] = rounds[r].todo[i + 1]
      OBVIOUS
    <3> HIDE DEF rest
    <3> QED BY <1>1, <3>1
  <2> HIDE DEF rest
  <2> QED BY <1>3, <2>3, <2>4, <2>5 DEF Drops, Others, RoundsTyped, At
<1> QED BY <1>2, <1>3

(* A round that only changes its step keeps its list. *)
LEMMA Kept ==
  ASSUME RoundsTyped, NEW r \in Rounds, ~At(r, "idle"), NEW step \in Busy, Goes(r, step)
  PROVE  Keeps(r, step) /\ RoundsTyped'
<1>1. rounds' = [rounds EXCEPT ![r].step = step]
  BY DEF Goes
<1>2. rounds[r] \in [todo : Seq(Listed), step : Steps] /\ step \in Steps
  BY DEF RoundsTyped, Busy, Steps
<1>3. rounds'[r].step = step /\ rounds'[r].todo = rounds[r].todo
         /\ \A q \in Rounds \ {r} : rounds'[q] = rounds[q]
  BY <1>1, <1>2 DEF RoundsTyped
<1>4. rounds' \in [Rounds -> [todo : Seq(Listed), step : Steps]]
  BY <1>1, <1>2 DEF RoundsTyped
<1> QED BY <1>3, <1>4 DEF Keeps, Others, RoundsTyped, At
-----------------------------------------------------------------------------
(* What the conjuncts of the invariant rest on *)

(* An inserted row stays, and its attempts only grow. *)
Grows ==
    \A e \in Emails :
        outbox[e].status # "NONE" =>
            outbox'[e].status # "NONE" /\ outbox[e].attempts <= outbox'[e].attempts

(* Lists lose rows and gain none. *)
Shrinks ==
    \A q \in Rounds : \A i \in DOMAIN rounds'[q].todo :
        \E k \in DOMAIN rounds[q].todo : rounds'[q].todo[i] = rounds[q].todo[k]

(* Whatever stands in a round's list is a Listed row. *)
LEMMA InList ==
  ASSUME RoundsTyped, NEW q \in Rounds, NEW k \in DOMAIN rounds[q].todo
  PROVE  /\ rounds[q].todo[k].email \in Emails
         /\ rounds[q].todo[k].attempts \in Nat
<1>1. rounds[q].todo \in Seq(Listed)
  BY DEF RoundsTyped
<1>2. rounds[q].todo[k] \in Listed
  BY <1>1, ElementOfSeq, LenProperties
<1> QED BY <1>2 DEF Listed

(* Rows that only grow and lists that only shrink leave Listing true. *)
LEMMA ListingKept ==
  ASSUME RowsTyped, RowsTyped', RoundsTyped, Listing, Grows, Shrinks
  PROVE  Listing'
<1> SUFFICES ASSUME NEW q \in Rounds, NEW i \in DOMAIN rounds'[q].todo
             PROVE  LET x == rounds'[q].todo[i] IN
                    outbox'[x.email].status # "NONE" /\ x.attempts <= outbox'[x.email].attempts
  BY DEF Listing
<1>1. PICK k \in DOMAIN rounds[q].todo : rounds'[q].todo[i] = rounds[q].todo[k]
  BY DEF Shrinks
<1> DEFINE x == rounds[q].todo[k]
<1>2. outbox[x.email].status # "NONE" /\ x.attempts <= outbox[x.email].attempts
  BY DEF Listing
<1>3. x.email \in Emails /\ x.attempts \in Nat
  BY InList
<1>4. outbox[x.email].attempts \in Nat /\ outbox'[x.email].attempts \in Nat
  BY <1>3 DEF RowsTyped, Row
<1>5. outbox'[x.email].status # "NONE" /\ outbox[x.email].attempts <= outbox'[x.email].attempts
  BY <1>2, <1>3 DEF Grows
<1> HIDE DEF x
<1>6. x.attempts <= outbox'[x.email].attempts
  BY <1>2, <1>3, <1>4, <1>5
<1> QED BY <1>1, <1>5, <1>6 DEF x

(* A row in hand has been inserted. *)
LEMMA HandInserted ==
  ASSUME RoundsTyped, Listing, NEW r \in Rounds, ~At(r, "idle")
  PROVE  /\ InHand(r) \in Emails
         /\ outbox[InHand(r)].status # "NONE"
         /\ Head(rounds[r].todo).attempts \in Nat
         /\ Head(rounds[r].todo).attempts <= outbox[InHand(r)].attempts
<1>1. 1 \in DOMAIN rounds[r].todo /\ Head(rounds[r].todo) = rounds[r].todo[1]
         /\ Head(rounds[r].todo) \in Listed /\ InHand(r) \in Emails
  BY HandIn
<1>2. outbox[Head(rounds[r].todo).email].status # "NONE"
         /\ Head(rounds[r].todo).attempts <= outbox[Head(rounds[r].todo).email].attempts
  BY <1>1 DEF Listing
<1> QED BY <1>1, <1>2 DEF InHand, Listed

(* A round that keeps its row and its step keeps what Counted says of it. *)
LEMMA CountedKept ==
  ASSUME RowsTyped, RowsTyped', RoundsTyped, Listing, Counted, Grows,
         NEW q \in Rounds, rounds[q].step \in Busy, rounds'[q].todo = rounds[q].todo
  PROVE  Head(rounds'[q].todo).attempts < outbox'[InHand(q)'].attempts
<1> DEFINE h == InHand(q)
<1>1. ~At(q, "idle")
  BY DEF At, Busy
<1>2. h \in Emails /\ outbox[h].status # "NONE" /\ Head(rounds[q].todo).attempts \in Nat
  BY <1>1, HandInserted
<1>3. Head(rounds[q].todo).attempts < outbox[h].attempts
  BY DEF Counted
<1>4. outbox[h].attempts \in Nat /\ outbox'[h].attempts \in Nat
  BY <1>2 DEF RowsTyped, Row
<1>5. outbox[h].attempts <= outbox'[h].attempts
  BY <1>2 DEF Grows
<1>6. InHand(q)' = h
  BY DEF InHand
<1> HIDE DEF h
<1> QED BY <1>2, <1>3, <1>4, <1>5, <1>6

(* Only finitely many rounds send at once. *)
LEMMA SendingFinite ==
  ASSUME NEW e
  PROVE  IsFiniteSet(Sending(e)) /\ Cardinality(Sending(e)) \in Nat
<1>1. Sending(e) \subseteq Rounds
  BY DEF Sending
<1> QED BY <1>1, OutboxAssumption, FS_Subset, FS_CardinalityType

(* While no round begins to send, Copies stays true. *)
LEMMA CopiesKept ==
  ASSUME RowsTyped, RowsTyped', Copies, accepted' = accepted,
         NEW e \in Emails, Sending(e)' \subseteq Sending(e),
         outbox[e].attempts <= outbox'[e].attempts
  PROVE  accepted'[e] + Cardinality(Sending(e)') <= outbox'[e].attempts
<1>1. IsFiniteSet(Sending(e)) /\ Cardinality(Sending(e)) \in Nat
  BY SendingFinite
<1>2. Cardinality(Sending(e)') \in Nat /\ Cardinality(Sending(e)') <= Cardinality(Sending(e))
  BY <1>1, FS_Subset, FS_CardinalityType
<1>3. accepted[e] \in Nat /\ outbox[e].attempts \in Nat /\ outbox'[e].attempts \in Nat
  BY DEF RowsTyped, Row
<1>4. accepted[e] + Cardinality(Sending(e)) <= outbox[e].attempts
  BY DEF Copies
<1> QED BY <1>1, <1>2, <1>3, <1>4

-----------------------------------------------------------------------------
(* What each kind of step does to the books *)

(* The outcome of a row outlasts a step that drops r's row: what was SENT  *)
(* stays SENT, and a receipt r had is recorded or known to be lost.        *)
Accounted(r) ==
    /\ \A e \in Emails : outbox[e].status = "SENT" => outbox'[e].status = "SENT"
    /\ unrecorded \subseteq unrecorded'
    /\ At(r, "accepted") =>
          InHand(r) \in unrecorded' \/ outbox'[InHand(r)].status = "SENT"

(* A step that drops a round's row, accounts for it and earns its outcome  *)
(* keeps the books.                                                        *)
LEMMA DropKeepsBooks ==
  ASSUME IInv, RowsTyped', RoundsTyped', NEW r \in Rounds, Drops(r), Grows,
         accepted' = accepted, Accounted(r), OutcomeIsEarned'
  PROVE  Books'
<1>1. RowsTyped /\ RoundsTyped /\ Listing /\ Counted /\ Untouched /\ Copies /\ Receipts
         /\ Acceptances
  BY DEF IInv, Books
<1>2. /\ rounds'[r].step \notin Busy
      /\ \A q \in Rounds \ {r} : rounds'[q] = rounds[q]
  BY DEF Drops, Others, Busy
<1>3. Shrinks
  BY <1>2 DEF Shrinks, Drops
<1>4. Listing'
  BY <1>1, <1>3, ListingKept
<1>5. Counted'
  <2> SUFFICES ASSUME NEW q \in Rounds, rounds'[q].step \in Busy
               PROVE  Head(rounds'[q].todo).attempts < outbox'[InHand(q)'].attempts
    BY DEF Counted
  <2>1. rounds'[q] = rounds[q]
    BY <1>2
  <2> QED BY <1>1, <2>1, CountedKept
<1>6. Untouched'
  BY <1>1 DEF Untouched, Grows
<1>7. Copies'
  <2> SUFFICES ASSUME NEW e \in Emails
               PROVE  accepted'[e] + Cardinality(Sending(e)') <= outbox'[e].attempts
    BY DEF Copies
  <2>1. Sending(e)' \subseteq Sending(e)
    BY <1>2 DEF Sending, At, InHand, Busy
  <2>2. CASE outbox[e].status # "NONE"
    BY <1>1, <2>1, <2>2, CopiesKept DEF Grows
  <2>3. CASE outbox[e].status = "NONE"
    <3>1. Sending(e) = {}
      BY <1>1, <2>3, HandInserted DEF Sending, At
    <3>2. Cardinality(Sending(e)') = 0
      BY <2>1, <3>1, FS_EmptySet
    <3>3. accepted'[e] = 0 /\ outbox'[e].attempts \in Nat
      BY <1>1, <2>3 DEF Untouched, RowsTyped, Row
    <3> QED BY <3>2, <3>3
  <2> QED BY <2>2, <2>3
<1>8. Receipts'
  BY <1>1, <1>2 DEF Receipts, At, InHand, Busy
<1>9. Acceptances'
  <2> SUFFICES ASSUME NEW e \in Emails, accepted'[e] > 0, e \notin unrecorded',
                      outbox'[e].status # "SENT"
               PROVE  Recording(e)' # {}
    BY DEF Acceptances
  <2>1. e \notin unrecorded /\ outbox[e].status # "SENT"
    BY DEF Accounted
  <2>2. PICK q \in Rounds : At(q, "accepted") /\ InHand(q) = e
    BY <1>1, <2>1 DEF Acceptances, Recording
  <2>3. q # r
    BY <2>2 DEF Accounted
  <2>4. rounds'[q] = rounds[q]
    BY <1>2, <2>3
  <2> QED BY <2>2, <2>4 DEF Recording, At, InHand
<1> QED BY <1>4, <1>5, <1>6, <1>7, <1>8, <1>9 DEF Books

(* A step that keeps the row in hand and leaves the outbox alone keeps the *)
(* books' view of the lists.                                               *)
LEMMA KeepKeepsLists ==
  ASSUME IInv, RowsTyped', NEW r \in Rounds, rounds[r].step \in Busy,
         NEW step \in Busy, Keeps(r, step), outbox' = outbox
  PROVE  Listing' /\ Counted'
<1>1. RowsTyped /\ RoundsTyped /\ Listing /\ Counted
  BY DEF IInv, Books
<1>2. \A q \in Rounds : rounds'[q].todo = rounds[q].todo
  BY DEF Keeps, Others
<1>3. Shrinks /\ Grows
  <2>1. Shrinks
    BY <1>2 DEF Shrinks
  <2>2. \A e \in Emails : outbox[e].attempts <= outbox'[e].attempts
    BY <1>1 DEF RowsTyped, Row
  <2> QED BY <2>1, <2>2 DEF Grows
<1>4. Listing'
  BY <1>1, <1>3, ListingKept
<1>5. Counted'
  <2> SUFFICES ASSUME NEW q \in Rounds, rounds'[q].step \in Busy
               PROVE  Head(rounds'[q].todo).attempts < outbox'[InHand(q)'].attempts
    BY DEF Counted
  <2>1. rounds[q].step \in Busy
    BY DEF Keeps, Others
  <2> QED BY <1>1, <1>2, <1>3, <2>1, CountedKept
<1> QED BY <1>4, <1>5

-----------------------------------------------------------------------------
(* Every action keeps the invariant *)

(* A row given a new status, other than NONE, is still a row. *)
LEMMA Restated ==
  ASSUME RowsTyped, NEW h \in Emails, NEW status \in {"PENDING", "SENT", "FAILED"},
         outbox' = [outbox EXCEPT ![h].status = status]
  PROVE  /\ outbox' \in [Emails -> Row]
         /\ outbox'[h].status = status
         /\ outbox'[h].attempts = outbox[h].attempts
         /\ outbox'[h].known = outbox[h].known
         /\ \A e \in Emails \ {h} : outbox'[e] = outbox[e]
         /\ Grows
<1>1. outbox[h] \in Row /\ \A e \in Emails : outbox[e].attempts \in Nat
  BY DEF RowsTyped, Row
<1>2. outbox' \in [Emails -> Row]
  BY <1>1 DEF RowsTyped, Row
<1>3. /\ outbox'[h].status = status
      /\ outbox'[h].attempts = outbox[h].attempts
      /\ outbox'[h].known = outbox[h].known
      /\ \A e \in Emails \ {h} : outbox'[e] = outbox[e]
  BY <1>1 DEF RowsTyped, Row
<1>4. Grows
  BY <1>1, <1>3 DEF Grows
<1> QED BY <1>2, <1>3, <1>4

(* markAttemptFailed by a round without a receipt, when a known template is *)
(* given up only after MaxAttempts.                                         *)
LEMMA FailureKeeps ==
  ASSUME IInv, NEW r \in Rounds, ~At(r, "idle"), ~At(r, "accepted"),
         NEW n \in Nat, MarkAttemptFailed(r, n),
         outbox[InHand(r)].known /\ FailedStatus(n) = "FAILED"
            => outbox[InHand(r)].attempts >= MaxAttempts,
         UNCHANGED <<accepted, unrecorded, crashes>>
  PROVE  IInv'
<1> DEFINE h == InHand(r)
<1>1. RowsTyped /\ RoundsTyped /\ Listing /\ OutcomeIsEarned /\ h \in Emails
  BY HandIn DEF IInv, Books
<1>2. CASE outbox[h].status = "SENT"
  <2>1. Abandon(r) /\ outbox' = outbox
    BY <1>2 DEF MarkAttemptFailed, Refuses
  <2>2. Drops(r) /\ RoundsTyped' /\ RowsTyped'
    BY <1>1, <2>1, Abandoned DEF RowsTyped
  <2>3. Grows
    BY <1>1, <2>1 DEF Grows, RowsTyped, Row
  <2>4. Accounted(r) /\ OutcomeIsEarned'
    BY <1>1, <2>1 DEF Accounted, OutcomeIsEarned
  <2> QED BY <2>2, <2>3, <2>4, DropKeepsBooks DEF IInv
<1>3. CASE outbox[h].status # "SENT"
  <2>1. Advance(r) /\ outbox' = [outbox EXCEPT ![h].status = FailedStatus(n)]
    BY <1>3 DEF MarkAttemptFailed, Refuses
  <2>2. FailedStatus(n) \in {"PENDING", "FAILED"}
    BY DEF FailedStatus
  <2> HIDE DEF h
  <2>3. /\ outbox' \in [Emails -> Row] /\ Grows
        /\ outbox'[h].status = FailedStatus(n)
        /\ outbox'[h].attempts = outbox[h].attempts
        /\ outbox'[h].known = outbox[h].known
        /\ \A e \in Emails \ {h} : outbox'[e] = outbox[e]
    BY <1>1, <2>1, <2>2, Restated
  <2>4. Drops(r) /\ RoundsTyped' /\ RowsTyped'
    BY <1>1, <2>1, <2>3, Advanced DEF RowsTyped
  <2>5. Accounted(r)
    BY <1>3, <2>3 DEF Accounted
  <2>6. OutcomeIsEarned'
    BY <1>1, <2>2, <2>3 DEF OutcomeIsEarned, h
  <2> QED BY <2>3, <2>4, <2>5, <2>6, DropKeepsBooks DEF IInv
<1> QED BY <1>2, <1>3

(* A producer's new row has no copies and no round. *)
LEMMA EnqueueKeeps ==
  ASSUME IInv, NEW n \in Emails, NEW known \in BOOLEAN, Enqueue(n, known)
  PROVE  IInv'
<1>1. RowsTyped /\ RoundsTyped /\ Listing /\ Counted /\ Untouched /\ Copies /\ Receipts
         /\ Acceptances /\ OutcomeIsEarned
  BY DEF IInv, Books
<1>2. /\ outbox[n].status = "NONE"
      /\ outbox' = [outbox EXCEPT ![n] = [Inserted EXCEPT !.known = known]]
      /\ rounds' = rounds /\ accepted' = accepted /\ unrecorded' = unrecorded
      /\ crashes' = crashes
  BY DEF Enqueue
<1>3. /\ outbox'[n] = [status |-> "PENDING", attempts |-> 0, known |-> known]
      /\ \A e \in Emails \ {n} : outbox'[e] = outbox[e]
      /\ outbox' \in [Emails -> Row]
  BY <1>1, <1>2 DEF RowsTyped, Row, Inserted
<1>4. RowsTyped' /\ RoundsTyped'
  BY <1>1, <1>2, <1>3 DEF RowsTyped, RoundsTyped, At
<1>5. Grows /\ Shrinks
  BY <1>1, <1>2, <1>3 DEF Grows, Shrinks, RowsTyped, Row
<1>6. Listing'
  BY <1>1, <1>4, <1>5, ListingKept
<1>7. Counted'
  <2> SUFFICES ASSUME NEW q \in Rounds, rounds'[q].step \in Busy
               PROVE  Head(rounds'[q].todo).attempts < outbox'[InHand(q)'].attempts
    BY DEF Counted
  <2> QED BY <1>1, <1>2, <1>4, <1>5, CountedKept
<1>8. Untouched' /\ OutcomeIsEarned'
  BY <1>1, <1>2, <1>3 DEF Untouched, OutcomeIsEarned
<1>9. Copies'
  <2> SUFFICES ASSUME NEW e \in Emails
               PROVE  accepted'[e] + Cardinality(Sending(e)') <= outbox'[e].attempts
    BY DEF Copies
  <2>1. Sending(e)' = Sending(e)
    BY <1>2 DEF Sending, At, InHand
  <2>2. CASE e # n
    BY <1>1, <1>2, <1>3, <2>1, <2>2 DEF Copies
  <2>3. CASE e = n
    <3>1. Sending(e) = {}
      BY <1>1, <1>2, <2>3, HandInserted DEF Sending, At
    <3>2. Cardinality(Sending(e)') = 0
      BY <2>1, <3>1, FS_EmptySet
    <3>3. accepted'[e] = 0 /\ outbox'[e].attempts = 0
      BY <1>1, <1>2, <1>3, <2>3 DEF Untouched
    <3> QED BY <3>2, <3>3
  <2> QED BY <2>2, <2>3
<1>10. Receipts'
  BY <1>1, <1>2 DEF Receipts, At, InHand
<1>11. Acceptances'
  <2> SUFFICES ASSUME NEW e \in Emails, accepted'[e] > 0
               PROVE  e \in unrecorded' \/ Recording(e)' # {} \/ outbox'[e].status = "SENT"
    BY DEF Acceptances
  <2>1. Recording(e)' = Recording(e)
    BY <1>2 DEF Recording, At, InHand
  <2>2. e # n
    BY <1>1, <1>2 DEF Untouched
  <2> QED BY <1>1, <1>2, <1>3, <2>1, <2>2 DEF Acceptances
<1> QED BY <1>4, <1>6, <1>7, <1>8, <1>9, <1>10, <1>11 DEF IInv, Books

(* An unknown template fails for good, whatever its attempts. *)
LEMMA DiscardKeeps ==
  ASSUME IInv, NEW r \in Rounds, Discard(r)
  PROVE  IInv'
<1>1. /\ ~At(r, "idle") /\ ~At(r, "accepted")
      /\ ~outbox[InHand(r)].known /\ MarkAttemptFailed(r, MaxAttempts)
      /\ UNCHANGED <<accepted, unrecorded, crashes>>
  BY DEF Discard, At
<1> QED BY <1>1, FailureKeeps, OutboxAssumption

(* A round that failed has counted the attempt it reports. *)
LEMMA RecordFailureKeeps ==
  ASSUME IInv, NEW r \in Rounds, RecordFailure(r)
  PROVE  IInv'
<1> DEFINE n == Head(rounds[r].todo).attempts
<1>1. /\ ~At(r, "idle") /\ ~At(r, "accepted") /\ rounds[r].step \in Busy
      /\ MarkAttemptFailed(r, n + 1)
      /\ UNCHANGED <<accepted, unrecorded, crashes>>
  BY DEF RecordFailure, At, Busy
<1>2. n \in Nat /\ n < outbox[InHand(r)].attempts /\ outbox[InHand(r)].attempts \in Nat
  BY <1>1, HandInserted DEF IInv, Books, Counted, RowsTyped, Row
<1>3. FailedStatus(n + 1) = "FAILED" => n + 1 >= MaxAttempts
  BY DEF FailedStatus
<1> HIDE DEF n
<1>4. FailedStatus(n + 1) = "FAILED" => outbox[InHand(r)].attempts >= MaxAttempts
  BY <1>2, <1>3, OutboxAssumption
<1>5. n + 1 \in Nat
  BY <1>2
<1> QED BY <1>1, <1>4, <1>5, FailureKeeps

(* The receipt a round records is the acceptance its row needs. *)
LEMMA MarkSentKeeps ==
  ASSUME IInv, NEW r \in Rounds, MarkSent(r)
  PROVE  IInv'
<1> DEFINE h == InHand(r)
<1>1. /\ At(r, "accepted") /\ ~At(r, "idle") /\ Advance(r)
      /\ outbox' = [outbox EXCEPT ![h].status = "SENT"]
      /\ accepted' = accepted /\ unrecorded' = unrecorded /\ crashes' = crashes
  BY DEF MarkSent, At
<1>2. RowsTyped /\ RoundsTyped /\ OutcomeIsEarned /\ h \in Emails /\ accepted[h] > 0
  BY <1>1, HandIn DEF IInv, Books, Receipts
<1> HIDE DEF h
<1>3. /\ outbox' \in [Emails -> Row] /\ Grows
      /\ outbox'[h].status = "SENT"
      /\ \A e \in Emails \ {h} : outbox'[e] = outbox[e]
  BY <1>1, <1>2, Restated
<1>4. Drops(r) /\ RoundsTyped' /\ RowsTyped'
  BY <1>1, <1>2, <1>3, Advanced DEF RowsTyped
<1>5. Accounted(r)
  BY <1>1, <1>3 DEF Accounted, h
<1>6. OutcomeIsEarned'
  BY <1>1, <1>2, <1>3 DEF OutcomeIsEarned
<1> QED BY <1>1, <1>3, <1>4, <1>5, <1>6, DropKeepsBooks DEF IInv

(* A round cut short loses the receipt it may have had, and no more. *)
LEMMA CrashKeeps ==
  ASSUME IInv, NEW r \in Rounds, Crash(r)
  PROVE  IInv'
<1>1. /\ ~At(r, "idle") /\ crashes < MaxCrashes /\ crashes' = crashes + 1 /\ Abandon(r)
      /\ unrecorded' = unrecorded \union Loses(r)
      /\ outbox' = outbox /\ accepted' = accepted
  BY DEF Crash
<1>2. RowsTyped /\ RoundsTyped /\ OutcomeIsEarned /\ InHand(r) \in Emails
  BY <1>1, HandIn DEF IInv, Books
<1>3. Drops(r) /\ RoundsTyped'
  BY <1>1, <1>2, Abandoned
<1>4. Loses(r) \subseteq Emails /\ crashes' \in 0 .. MaxCrashes
  BY <1>1, <1>2, OutboxAssumption DEF Loses, RowsTyped
<1>5. RowsTyped'
  BY <1>1, <1>2, <1>4 DEF RowsTyped
<1>6. Grows /\ Accounted(r) /\ OutcomeIsEarned'
  <2>1. Grows
    BY <1>1, <1>2 DEF Grows, RowsTyped, Row
  <2>2. Accounted(r)
    BY <1>1 DEF Accounted, Loses
  <2> QED BY <1>1, <1>2, <2>1, <2>2 DEF OutcomeIsEarned
<1> QED BY <1>1, <1>3, <1>5, <1>6, DropKeepsBooks DEF IInv

(* A claim that is won counts the attempt before the message can leave; one *)
(* that is lost drops the row.                                              *)
LEMMA ClaimKeeps ==
  ASSUME IInv, NEW r \in Rounds, Claim(r)
  PROVE  IInv'
<1> DEFINE h == InHand(r)
<1>1. /\ At(r, "next") /\ ~At(r, "idle")
      /\ accepted' = accepted /\ unrecorded' = unrecorded /\ crashes' = crashes
  BY DEF Claim, At
<1>2. RowsTyped /\ RoundsTyped /\ Listing /\ Counted /\ Untouched /\ Copies /\ Receipts
         /\ Acceptances /\ OutcomeIsEarned
  BY DEF IInv, Books
<1>3. h \in Emails /\ Head(rounds[r].todo).attempts \in Nat
         /\ Head(rounds[r].todo).attempts <= outbox[h].attempts
  BY <1>1, <1>2, HandInserted
<1>4. CASE outbox[h].status # "PENDING"
  <2>1. Advance(r) /\ outbox' = outbox
    BY <1>4 DEF Claim
  <2>2. Drops(r) /\ RoundsTyped' /\ RowsTyped'
    BY <1>1, <1>2, <2>1, Advanced DEF RowsTyped
  <2>3. Grows
    BY <1>2, <2>1 DEF Grows, RowsTyped, Row
  <2>4. Accounted(r) /\ OutcomeIsEarned'
    BY <1>1, <1>2, <2>1 DEF Accounted, OutcomeIsEarned, At
  <2> QED BY <1>1, <2>2, <2>3, <2>4, DropKeepsBooks DEF IInv
<1>5. CASE outbox[h].status = "PENDING"
  <2>1. Goes(r, "sending") /\ outbox' = [outbox EXCEPT ![h] = Claimed(@)]
    BY <1>5 DEF Claim
  <2> HIDE DEF h
  <2>2. Keeps(r, "sending") /\ RoundsTyped'
    BY <1>1, <1>2, <2>1, Kept DEF Busy
  <2>3. /\ outbox'[h].status = "PENDING"
        /\ outbox'[h].attempts = outbox[h].attempts + 1
        /\ \A e \in Emails \ {h} : outbox'[e] = outbox[e]
        /\ outbox' \in [Emails -> Row]
    BY <1>2, <1>3, <1>5, <2>1 DEF RowsTyped, Row, Claimed
  <2>4. RowsTyped'
    BY <1>1, <1>2, <2>3 DEF RowsTyped
  <2>5. \A e \in Emails : outbox[e].attempts \in Nat
    BY <1>2 DEF RowsTyped, Row
  <2>6. Grows
    BY <1>3, <2>3, <2>5 DEF Grows
  <2>7. \A q \in Rounds : rounds'[q].todo = rounds[q].todo
    BY <2>2 DEF Keeps, Others
  <2>8. \A q \in Rounds \ {r} : rounds'[q] = rounds[q]
    BY <2>2 DEF Keeps, Others
  <2>9. Listing'
    <3>1. Shrinks
      BY <2>7 DEF Shrinks
    <3> QED BY <1>2, <2>4, <2>6, <3>1, ListingKept
  <2>10. Counted'
    <3> SUFFICES ASSUME NEW q \in Rounds, rounds'[q].step \in Busy
                 PROVE  Head(rounds'[q].todo).attempts < outbox'[InHand(q)'].attempts
      BY DEF Counted
    <3>1. CASE q # r
      BY <1>2, <2>4, <2>6, <2>8, <3>1, CountedKept
    <3>2. CASE q = r
      <4>1. InHand(q)' = h /\ rounds'[q].todo = rounds[r].todo
        BY <2>7, <3>2 DEF InHand, h
      <4>2. outbox[h].attempts \in Nat
        BY <1>3, <2>5
      <4> QED BY <1>3, <2>3, <4>1, <4>2
    <3> QED BY <3>1, <3>2
  <2>11. Untouched' /\ OutcomeIsEarned'
    BY <1>1, <1>2, <1>5, <2>3 DEF Untouched, OutcomeIsEarned
  <2>12. Copies'
    <3> SUFFICES ASSUME NEW e \in Emails
                 PROVE  accepted'[e] + Cardinality(Sending(e)') <= outbox'[e].attempts
      BY DEF Copies
    <3>1. CASE e # h
      <4>1. Sending(e)' \subseteq Sending(e)
        BY <2>7, <2>8, <3>1 DEF Sending, At, InHand, h
      <4>2. outbox[e].attempts <= outbox'[e].attempts
        BY <2>3, <2>5, <3>1
      <4> QED BY <1>1, <1>2, <2>4, <4>1, <4>2, CopiesKept
    <3>2. CASE e = h
      <4>1. r \notin Sending(e)
        BY <1>1 DEF Sending, At
      <4>2. Sending(e)' = Sending(e) \union {r}
        BY <2>2, <2>7, <2>8, <3>2 DEF Sending, At, InHand, h, Keeps
      <4>3. IsFiniteSet(Sending(e)) /\ Cardinality(Sending(e)) \in Nat
        BY SendingFinite
      <4>4. Cardinality(Sending(e)') = Cardinality(Sending(e)) + 1
        BY <4>1, <4>2, <4>3, FS_AddElement
      <4>5. accepted[e] + Cardinality(Sending(e)) <= outbox[e].attempts
        BY <1>2 DEF Copies
      <4>6. accepted[e] \in Nat /\ outbox[e].attempts \in Nat
        BY <1>2, <2>5 DEF RowsTyped
      <4> QED BY <1>1, <2>3, <3>2, <4>3, <4>4, <4>5, <4>6
    <3> QED BY <3>1, <3>2
  <2>13. Receipts'
    BY <1>1, <1>2, <2>2, <2>7, <2>8 DEF Receipts, At, InHand, Keeps
  <2>14. Acceptances'
    <3> SUFFICES ASSUME NEW e \in Emails, accepted'[e] > 0
                 PROVE  e \in unrecorded' \/ Recording(e)' # {} \/ outbox'[e].status = "SENT"
      BY DEF Acceptances
    <3>1. e \in unrecorded \/ Recording(e) # {} \/ outbox[e].status = "SENT"
      BY <1>1, <1>2 DEF Acceptances
    <3>2. Recording(e) \subseteq Recording(e)'
      BY <1>1, <2>7, <2>8 DEF Recording, At, InHand
    <3>3. outbox[e].status = "SENT" => outbox'[e].status = "SENT"
      BY <1>5, <2>3
    <3> QED BY <1>1, <3>1, <3>2, <3>3
  <2> QED BY <2>2, <2>4, <2>9, <2>10, <2>11, <2>12, <2>13, <2>14 DEF IInv, Books
<1> QED BY <1>4, <1>5

(* A round that has sent, and missed the answer or not, gives its place     *)
(* among the senders to the copy it may have left.                          *)
LEMMA SendKeeps ==
  ASSUME IInv, NEW r \in Rounds, Send(r)
  PROVE  IInv'
<1> DEFINE h == InHand(r)
<1>1. At(r, "sending") /\ ~At(r, "idle") /\ rounds[r].step \in Busy
         /\ outbox' = outbox /\ crashes' = crashes
  BY DEF Send, At, Busy
<1>2. RowsTyped /\ RoundsTyped /\ Listing /\ Counted /\ Untouched /\ Copies /\ Receipts
         /\ Acceptances /\ OutcomeIsEarned
  BY DEF IInv, Books
<1>3. h \in Emails /\ outbox[h].status # "NONE"
  BY <1>1, <1>2, HandInserted
<1>4. PICK step \in {"accepted", "failed"} : Goes(r, step)
         /\ \/ step = "failed" /\ accepted' = accepted /\ unrecorded' = unrecorded
            \/ /\ accepted' = [accepted EXCEPT ![h] = @ + 1]
               /\ \/ step = "accepted" /\ unrecorded' = unrecorded
                  \/ step = "failed" /\ unrecorded' = unrecorded \union {h}
  <2> HIDE DEF h
  <2>1. CASE Goes(r, "failed") /\ accepted' = accepted /\ unrecorded' = unrecorded
    <3> WITNESS "failed" \in {"accepted", "failed"}
    <3> QED BY <2>1
  <2>2. CASE /\ accepted' = [accepted EXCEPT ![h] = @ + 1]
             /\ Goes(r, "accepted") /\ unrecorded' = unrecorded
    <3> WITNESS "accepted" \in {"accepted", "failed"}
    <3> QED BY <2>2
  <2>3. CASE /\ accepted' = [accepted EXCEPT ![h] = @ + 1]
             /\ Goes(r, "failed") /\ unrecorded' = unrecorded \union {h}
    <3> WITNESS "failed" \in {"accepted", "failed"}
    <3> QED BY <2>3
  <2> QED BY <2>1, <2>2, <2>3 DEF Send, h
<1> HIDE DEF h
<1>5. Keeps(r, step) /\ RoundsTyped'
  BY <1>1, <1>2, <1>4, Kept DEF Busy
<1>6. \A e \in Emails : accepted[e] \in Nat /\ outbox[e].attempts \in Nat
  BY <1>2 DEF RowsTyped, Row
<1>7. /\ accepted' \in [Emails -> Nat]
      /\ \A e \in Emails \ {h} : accepted'[e] = accepted[e]
      /\ accepted'[h] \in {accepted[h], accepted[h] + 1}
      /\ step = "accepted" => accepted'[h] = accepted[h] + 1
  BY <1>2, <1>3, <1>4, <1>6 DEF RowsTyped
<1>8. unrecorded \subseteq unrecorded' /\ unrecorded' \subseteq Emails
  BY <1>2, <1>3, <1>4 DEF RowsTyped
<1>9. RowsTyped'
  BY <1>1, <1>2, <1>7, <1>8 DEF RowsTyped
<1>10. /\ \A q \in Rounds : rounds'[q].todo = rounds[q].todo
       /\ \A q \in Rounds \ {r} : rounds'[q] = rounds[q]
       /\ rounds'[r].step = step
  BY <1>5 DEF Keeps, Others
<1>11. Listing' /\ Counted'
  BY <1>1, <1>5, <1>9, KeepKeepsLists DEF Busy
<1>12. Untouched'
  BY <1>1, <1>2, <1>3, <1>7 DEF Untouched
<1>13. OutcomeIsEarned'
  BY <1>1, <1>2, <1>3, <1>6, <1>7 DEF OutcomeIsEarned
<1>14. Copies'
  <2> SUFFICES ASSUME NEW e \in Emails
               PROVE  accepted'[e] + Cardinality(Sending(e)') <= outbox'[e].attempts
    BY DEF Copies
  <2>1. IsFiniteSet(Sending(e)) /\ Cardinality(Sending(e)) \in Nat
    BY SendingFinite
  <2>2. accepted[e] + Cardinality(Sending(e)) <= outbox[e].attempts
    BY <1>2 DEF Copies
  <2>3. Sending(e)' = Sending(e) \ {r}
    BY <1>4, <1>10 DEF Sending, At, InHand
  <2>4. CASE e # h
    <3>1. r \notin Sending(e)
      BY <2>4 DEF Sending, h
    <3>2. Sending(e)' = Sending(e)
      BY <2>3, <3>1
    <3> QED BY <1>1, <1>7, <2>2, <2>4, <3>2
  <2>5. CASE e = h
    <3>1. r \in Sending(e)
      BY <1>1, <2>5 DEF Sending, h
    <3>2. Cardinality(Sending(e)') = Cardinality(Sending(e)) - 1
      BY <2>1, <2>3, <3>1, FS_RemoveElement
    <3> QED BY <1>1, <1>3, <1>6, <1>7, <2>1, <2>2, <2>5, <3>2
  <2> QED BY <2>4, <2>5
<1>15. Receipts'
  <2> SUFFICES ASSUME NEW q \in Rounds, At(q, "accepted")'
               PROVE  accepted'[InHand(q)'] > 0
    BY DEF Receipts
  <2>1. InHand(q)' = InHand(q)
    BY <1>10 DEF InHand
  <2>2. CASE q = r
    <3>1. accepted'[h] = accepted[h] + 1
      BY <1>7, <1>10, <2>2 DEF At
    <3> QED BY <1>3, <1>6, <2>1, <2>2, <3>1 DEF h
  <2>3. CASE q # r
    <3>1. At(q, "accepted") /\ ~At(q, "idle")
      BY <1>10, <2>3 DEF At
    <3>2. InHand(q) \in Emails /\ accepted[InHand(q)] > 0
      BY <1>2, <3>1, HandInserted DEF Receipts
    <3> QED BY <1>3, <1>6, <1>7, <2>1, <3>2
  <2> QED BY <2>2, <2>3
<1>16. Acceptances'
  <2> SUFFICES ASSUME NEW e \in Emails, accepted'[e] > 0
               PROVE  e \in unrecorded' \/ Recording(e)' # {} \/ outbox'[e].status = "SENT"
    BY DEF Acceptances
  <2>1. Recording(e) \subseteq Recording(e)'
    BY <1>1, <1>10 DEF Recording, At, InHand
  <2>2. CASE accepted[e] > 0
    BY <1>1, <1>2, <1>8, <2>1, <2>2 DEF Acceptances
  <2>3. CASE ~(accepted[e] > 0)
    <3>1. e = h /\ accepted' # accepted
      BY <1>7, <2>3
    <3>2. CASE step = "failed"
      BY <1>4, <3>1, <3>2
    <3>3. CASE step = "accepted"
      <4>1. r \in Recording(e)'
        BY <1>10, <3>1, <3>3 DEF Recording, At, InHand, h
      <4> QED BY <4>1
    <3> QED BY <3>2, <3>3
  <2> QED BY <2>2, <2>3
<1> QED BY <1>5, <1>9, <1>11, <1>12, <1>13, <1>14, <1>15, <1>16 DEF IInv, Books

(* A receipt that could not be recorded is known to be lost. *)
LEMMA MissSentKeeps ==
  ASSUME IInv, NEW r \in Rounds, MissSent(r)
  PROVE  IInv'
<1>1. /\ At(r, "accepted") /\ ~At(r, "idle") /\ rounds[r].step \in Busy
      /\ crashes < MaxCrashes /\ crashes' = crashes + 1 /\ Goes(r, "failed")
      /\ unrecorded' = unrecorded \union {InHand(r)}
      /\ outbox' = outbox /\ accepted' = accepted
  BY DEF MissSent, At, Busy, Loses
<1>2. RowsTyped /\ RoundsTyped /\ Listing /\ Untouched /\ Copies /\ Receipts
         /\ Acceptances /\ OutcomeIsEarned /\ InHand(r) \in Emails
  BY <1>1, HandIn DEF IInv, Books
<1>3. Keeps(r, "failed") /\ RoundsTyped'
  BY <1>1, <1>2, Kept DEF Busy
<1>4. crashes' \in 0 .. MaxCrashes
  BY <1>1, <1>2, OutboxAssumption DEF RowsTyped
<1>5. RowsTyped'
  BY <1>1, <1>2, <1>4 DEF RowsTyped
<1>6. Listing' /\ Counted'
  BY <1>1, <1>3, <1>5, KeepKeepsLists DEF Busy
<1>7. /\ \A q \in Rounds : rounds'[q].todo = rounds[q].todo
      /\ \A q \in Rounds \ {r} : rounds'[q] = rounds[q]
      /\ rounds'[r].step = "failed"
  BY <1>3 DEF Keeps, Others
<1>8. Untouched' /\ OutcomeIsEarned'
  BY <1>1, <1>2 DEF Untouched, OutcomeIsEarned
<1>9. Copies'
  <2> SUFFICES ASSUME NEW e \in Emails
               PROVE  accepted'[e] + Cardinality(Sending(e)') <= outbox'[e].attempts
    BY DEF Copies
  <2>1. Sending(e)' \subseteq Sending(e)
    BY <1>7 DEF Sending, At, InHand
  <2>2. outbox[e].attempts <= outbox'[e].attempts
    BY <1>1, <1>2 DEF RowsTyped, Row
  <2> QED BY <1>1, <1>2, <1>5, <2>1, <2>2, CopiesKept
<1>10. Receipts'
  BY <1>1, <1>2, <1>7 DEF Receipts, At, InHand
<1>11. Acceptances'
  <2> SUFFICES ASSUME NEW e \in Emails, accepted'[e] > 0, e \notin unrecorded',
                      outbox'[e].status # "SENT"
               PROVE  Recording(e)' # {}
    BY DEF Acceptances
  <2>1. PICK q \in Rounds : At(q, "accepted") /\ InHand(q) = e
    BY <1>1, <1>2 DEF Acceptances, Recording
  <2>2. rounds'[q] = rounds[q]
    BY <1>1, <1>7, <2>1
  <2> QED BY <2>1, <2>2 DEF Recording, At, InHand
<1> QED BY <1>3, <1>5, <1>6, <1>8, <1>9, <1>10, <1>11 DEF IInv, Books

(* The rows of a listing are finitely many. *)
LEMMA OldestFinite == IsFiniteSet(Oldest) /\ Cardinality(Oldest) \in Nat
<1>1. IsFiniteSet(Emails)
  BY OutboxAssumption, FS_Interval DEF Emails
<1>2. Oldest \subseteq Emails
  BY DEF Oldest, Pending
<1> QED BY <1>1, <1>2, FS_Subset, FS_CardinalityType

(* What a round lists are rows as they are now. *)
LEMMA ListKeeps ==
  ASSUME IInv, NEW r \in Rounds, List(r)
  PROVE  IInv'
<1>1. At(r, "idle") /\ outbox' = outbox /\ accepted' = accepted
         /\ unrecorded' = unrecorded /\ crashes' = crashes
  BY DEF List, At
<1>2. RowsTyped /\ RoundsTyped /\ Listing /\ Counted /\ Untouched /\ Copies /\ Receipts
         /\ Acceptances /\ OutcomeIsEarned
  BY DEF IInv, Books
<1>3. RowsTyped'
  BY <1>1, <1>2 DEF RowsTyped
<1> DEFINE n == Cardinality(Oldest)
           fresh == rounds'[r]
<1>4. PICK order \in [1 .. n -> Oldest] :
        rounds' = [rounds EXCEPT ![r] =
            IF Oldest = {} THEN NoRound
            ELSE Round([i \in DOMAIN order |->
                          [email |-> order[i], attempts |-> outbox[order[i]].attempts]], "next")]
  BY DEF List
<1> DEFINE todo == [i \in DOMAIN order |->
                      [email |-> order[i], attempts |-> outbox[order[i]].attempts]]
<1>5. fresh = (IF Oldest = {} THEN NoRound ELSE Round(todo, "next"))
         /\ \A q \in Rounds \ {r} : rounds'[q] = rounds[q]
  BY <1>2, <1>4 DEF RoundsTyped
<1>6. /\ fresh \in [todo : Seq(Listed), step : Steps]
      /\ fresh.step \in {"idle", "next"}
      /\ fresh.step # "idle" => fresh.todo # << >>
      /\ \A i \in DOMAIN fresh.todo :
            /\ fresh.todo[i].email \in Oldest
            /\ fresh.todo[i].attempts = outbox[fresh.todo[i].email].attempts
  <2>1. CASE Oldest = {}
    BY <1>5, <2>1 DEF NoRound, Round, Steps
  <2>2. CASE Oldest # {}
    <3>1. fresh = [todo |-> todo, step |-> "next"]
      BY <1>5, <2>2 DEF Round
    <3>2. n \in Nat /\ n # 0
      BY <2>2, OldestFinite, FS_EmptySet
    <3>3. DOMAIN order = 1 .. n /\ \A i \in 1 .. n : order[i] \in Oldest
      OBVIOUS
    <3>4. \A i \in 1 .. n : order[i] \in Emails /\ outbox[order[i]].attempts \in Nat
      BY <1>2, <3>3 DEF Oldest, Pending, RowsTyped, Row
    <3> HIDE DEF n, fresh
    <3>5. todo \in [1 .. n -> Listed]
      BY <3>3, <3>4 DEF Listed
    <3>6. todo \in Seq(Listed) /\ todo # << >>
      BY <3>2, <3>5, SeqDef, EmptySeq
    <3>7. \A i \in DOMAIN todo :
             todo[i].email \in Oldest /\ todo[i].attempts = outbox[todo[i].email].attempts
      BY <3>3
    <3> HIDE DEF todo
    <3> QED BY <3>1, <3>6, <3>7 DEF Steps
  <2> QED BY <2>1, <2>2
<1>7. RoundsTyped'
  <2>1. rounds' \in [Rounds -> [todo : Seq(Listed), step : Steps]]
    BY <1>2, <1>4, <1>5, <1>6 DEF RoundsTyped
  <2> QED BY <1>2, <1>5, <1>6, <2>1 DEF RoundsTyped, At
<1> HIDE DEF fresh
<1>8. Listing'
  <2> SUFFICES ASSUME NEW q \in Rounds, NEW i \in DOMAIN rounds'[q].todo
               PROVE  LET x == rounds'[q].todo[i] IN
                      outbox'[x.email].status # "NONE" /\ x.attempts <= outbox'[x.email].attempts
    BY DEF Listing
  <2>1. CASE q # r
    BY <1>1, <1>2, <1>5, <2>1 DEF Listing
  <2>2. CASE q = r
    <3> DEFINE x == fresh.todo[i]
    <3>1. rounds'[q].todo[i] = x /\ x.email \in Oldest
             /\ x.attempts = outbox[x.email].attempts
      BY <1>6, <2>2 DEF fresh
    <3>2. x.email \in Emails /\ outbox[x.email].status = "PENDING"
      BY <3>1 DEF Oldest, Pending
    <3>3. outbox[x.email].attempts \in Nat
      BY <1>2, <3>2 DEF RowsTyped, Row
    <3> HIDE DEF x
    <3> QED BY <1>1, <3>1, <3>2, <3>3
  <2> QED BY <2>1, <2>2
<1>9. Counted'
  BY <1>1, <1>2, <1>5, <1>6 DEF Counted, InHand, Busy, fresh
<1>10. Untouched' /\ OutcomeIsEarned'
  BY <1>1, <1>2 DEF Untouched, OutcomeIsEarned
<1>11. \A e \in Emails : Sending(e)' = Sending(e) /\ Recording(e)' = Recording(e)
  <2> SUFFICES ASSUME NEW e \in Emails PROVE Sending(e)' = Sending(e) /\ Recording(e)' = Recording(e)
    OBVIOUS
  <2>1. \A q \in Rounds : /\ At(q, "sending")' <=> At(q, "sending")
                          /\ At(q, "accepted")' <=> At(q, "accepted")
    <3>1. rounds'[r].step \in {"idle", "next"} /\ rounds[r].step = "idle"
      BY <1>1, <1>6 DEF At, fresh
    <3> QED
      BY <1>5, <3>1 DEF At
  <2>2. \A q \in Rounds : At(q, "sending") \/ At(q, "accepted") => InHand(q)' = InHand(q)
    BY <1>1, <1>5 DEF At, InHand
  <2> QED
    BY <2>1, <2>2 DEF Sending, Recording
<1>12. Copies'
  BY <1>1, <1>2, <1>11 DEF Copies
<1>13. Receipts'
  BY <1>1, <1>2, <1>5, <1>6 DEF Receipts, At, InHand, fresh
<1>14. Acceptances'
  BY <1>1, <1>2, <1>11 DEF Acceptances
<1> QED BY <1>3, <1>7, <1>8, <1>9, <1>10, <1>12, <1>13, <1>14 DEF IInv, Books

-----------------------------------------------------------------------------
(* The theorems *)

(* Before anything is inserted the books are empty. *)
LEMMA InitBooks ==
  ASSUME Init
  PROVE  IInv
<1>1. /\ outbox = [e \in Emails |-> NoRow] /\ rounds = [r \in Rounds |-> NoRound]
      /\ accepted = [e \in Emails |-> 0] /\ unrecorded = {} /\ crashes = 0
  BY DEF Init
<1>2. RowsTyped
  BY <1>1, OutboxAssumption DEF RowsTyped, Row, NoRow
<1>3. NoRound \in [todo : Seq(Listed), step : Steps] /\ NoRound.step = "idle"
         /\ NoRound.todo = << >>
  BY DEF NoRound, Round, Steps
<1>4. \A r \in Rounds : At(r, "idle") /\ rounds[r].todo = << >>
  BY <1>1, <1>3 DEF At
<1>5. RoundsTyped
  BY <1>1, <1>3, <1>4 DEF RoundsTyped
<1>6. Listing /\ Counted /\ Receipts
  BY <1>4 DEF Listing, Counted, Receipts, At, Busy
<1>7. Untouched /\ Acceptances /\ OutcomeIsEarned
  BY <1>1 DEF Untouched, Acceptances, OutcomeIsEarned, NoRow
<1>8. Copies
  <2> SUFFICES ASSUME NEW e \in Emails
               PROVE  accepted[e] + Cardinality(Sending(e)) <= outbox[e].attempts
    BY DEF Copies
  <2>1. Sending(e) = {}
    BY <1>4 DEF Sending, At
  <2>2. Cardinality(Sending(e)) = 0
    BY <2>1, FS_EmptySet
  <2> QED BY <1>1, <2>2 DEF NoRow
<1> QED BY <1>2, <1>5, <1>6, <1>7, <1>8 DEF IInv, Books

(* The books balance after every step, or none at all. *)
LEMMA NextKeepsBooks ==
  ASSUME IInv, [Next]_vars
  PROVE  IInv'
<1>1. CASE UNCHANGED vars
  BY <1>1 DEF vars, IInv, RowsTyped, RoundsTyped, Books, Listing, Counted, Untouched, Copies,
              Receipts, Acceptances, OutcomeIsEarned, Sending, Recording, At, InHand
<1>2. ASSUME NEW e \in Emails, NEW known \in BOOLEAN, Enqueue(e, known)
      PROVE  IInv'
  BY <1>2, EnqueueKeeps
<1>3. ASSUME NEW r \in Rounds, Step(r) \/ MissSent(r) \/ Crash(r)
      PROVE  IInv'
  BY <1>3, ListKeeps, DiscardKeeps, ClaimKeeps, SendKeeps, MarkSentKeeps,
     RecordFailureKeeps, MissSentKeeps, CrashKeeps DEF Step
<1> QED BY <1>1, <1>2, <1>3 DEF Next

(* In every reachable state of the outbox the books balance. *)
THEOREM BooksBalance == Spec => []IInv
<1>1. Init => IInv
  BY InitBooks
<1>2. IInv /\ [Next]_vars => IInv'
  BY NextKeepsBooks
<1> QED BY <1>1, <1>2, PTL DEF Spec

(* What each variable holds, for any number of rows and rounds. *)
THEOREM OutboxTyped == Spec => []TypeOK
<1>1. IInv => TypeOK
  BY DEF IInv, RowsTyped, RoundsTyped, TypeOK
<1> QED BY <1>1, BooksBalance, PTL

(* SENT was accepted by the server, and a known template is given up only  *)
(* when its attempts are spent, however the rounds overlap.                *)
THEOREM OutcomesAreEarned == Spec => []OutcomeIsEarned
<1>1. IInv => OutcomeIsEarned
  BY DEF IInv, Books
<1> QED BY <1>1, BooksBalance, PTL

(* Every copy of a message was counted as an attempt before it left. *)
THEOREM EveryCopyIsCounted == Spec => []CopiesAreCounted
<1>1. ASSUME IInv
      PROVE  CopiesAreCounted
  <2> SUFFICES ASSUME NEW e \in Emails
               PROVE  accepted[e] <= outbox[e].attempts
    BY DEF CopiesAreCounted
  <2>1. Cardinality(Sending(e)) \in Nat
    BY SendingFinite
  <2>2. accepted[e] + Cardinality(Sending(e)) <= outbox[e].attempts
    BY <1>1 DEF IInv, Books, Copies
  <2>3. accepted[e] \in Nat /\ outbox[e].attempts \in Nat
    BY <1>1 DEF IInv, RowsTyped, Row
  <2> QED BY <2>1, <2>2, <2>3
<1> QED BY <1>1, BooksBalance, PTL

(* A FAILED row is never one whose delivery a round got to record. *)
THEOREM FailuresAreGenuine == Spec => []FailureIsGenuine
<1>1. IInv => FailureIsGenuine
  BY DEF IInv, Books, Acceptances, FailureIsGenuine
<1> QED BY <1>1, BooksBalance, PTL

(* No step, not even the late failure of an overlapping round, takes a row  *)
(* from SENT: the database refuses it, and a claim wants a PENDING row.     *)
LEMMA SentStays ==
  ASSUME IInv, [Next]_vars, NEW e \in Emails, outbox[e].status = "SENT"
  PROVE  outbox'[e].status = "SENT"
<1>1. outbox \in [Emails -> Row]
  BY DEF IInv, RowsTyped
<1>2. CASE UNCHANGED vars
  BY <1>2 DEF vars
<1>3. ASSUME NEW d \in Emails, NEW known \in BOOLEAN, Enqueue(d, known)
      PROVE  outbox'[e].status = "SENT"
  BY <1>1, <1>3 DEF Enqueue
<1>4. ASSUME NEW r \in Rounds, NEW n \in Nat, MarkAttemptFailed(r, n)
      PROVE  outbox'[e].status = "SENT"
  BY <1>1, <1>4 DEF MarkAttemptFailed, Refuses
<1>5. ASSUME NEW r \in Rounds, Discard(r)
      PROVE  outbox'[e].status = "SENT"
  BY <1>4, <1>5, OutboxAssumption DEF Discard
<1>6. ASSUME NEW r \in Rounds, RecordFailure(r)
      PROVE  outbox'[e].status = "SENT"
  <2>1. Head(rounds[r].todo).attempts + 1 \in Nat
    BY <1>6, HandInserted DEF IInv, Books, RecordFailure, At
  <2> QED BY <1>4, <1>6, <2>1 DEF RecordFailure
<1>7. ASSUME NEW r \in Rounds, Claim(r)
      PROVE  outbox'[e].status = "SENT"
  BY <1>1, <1>7 DEF Claim
<1>8. ASSUME NEW r \in Rounds, MarkSent(r)
      PROVE  outbox'[e].status = "SENT"
  BY <1>1, <1>8 DEF MarkSent
<1>9. ASSUME NEW r \in Rounds, List(r) \/ Send(r) \/ MissSent(r) \/ Crash(r)
      PROVE  outbox'[e].status = "SENT"
  BY <1>9 DEF List, Send, MissSent, Crash
<1> QED BY <1>2, <1>3, <1>5, <1>6, <1>7, <1>8, <1>9 DEF Next, Step

(* No late failure of an overlapping round brings a SENT row back. *)
THEOREM SentRowsAreFinal == Spec => SentIsFinal
<1>1. IInv /\ [Next]_vars =>
        [\A e \in Emails : outbox[e].status = "SENT" => outbox'[e].status = "SENT"]_vars
  BY SentStays
<1> QED BY <1>1, BooksBalance, PTL DEF Spec, SentIsFinal
=============================================================================
