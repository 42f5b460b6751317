----------------------------- MODULE BackendProofs -----------------------------
(***************************************************************************)
(* The safety of the back end, proved part by part as the composition runs *)
(* them, each from an inductive invariant of its own: the keyed refund     *)
(* (RefundIInv), course firing (CourseIInv), voice orders (VoiceIInv), the *)
(* mirror of Stripe (StripeIInv) and the marketplace import (MarketIInv).  *)
(***************************************************************************)
EXTENDS BackendMC, Sequences, TLAPS

\* Nobody won a reservation that another held, and no record has expired.
RefundOrderly(k) == rk_spoiled[k] \cap {"raced", "expired"} = {}

\* Only the managed store has two steps between which a rival can slip in, and only
\* a key that was so won, or expired, can lose its record.
RefundBlame ==
    /\ \A r \in Requests : rk_stage[r] = "claim" => rk_store = "managed"
    /\ \A k \in Keys : "raced" \in rk_spoiled[k] => rk_store = "managed"
    /\ \A k \in Keys : "erased" \in rk_spoiled[k] => ~RefundOrderly(k)

\* An orderly key has one holder, whose reservation stands.
RefundHeld ==
    \A k \in Keys : RefundOrderly(k) =>
        /\ \A r, q \in Requests : Refunds!Holds(r, k) /\ Refunds!Holds(q, k) => r = q
        /\ \A r \in Requests : Refunds!Holds(r, k) => rk_slot[k] = "inflight"

\* An orderly key, no answer of which was lost, has made its refund only if its
\* reservation or its record is still there, and no holder is about to make another.
RefundCounted ==
    \A k \in Keys : RefundOrderly(k) /\ "unrecorded" \notin rk_spoiled[k] =>
        /\ rk_refunds[k] <= 1
        /\ rk_slot[k] = "empty" => rk_refunds[k] = 0
        /\ \A r \in Requests : rk_key[r] = k /\ rk_stage[r] \in {"fn", "drop"}
                => rk_refunds[k] = 0

\* Whoever answers with success, or is about to, speaks of a refund.
RefundReal ==
    /\ \A r \in Requests : rk_stage[r] \in {"complete", "ok"} => rk_refunds[rk_key[r]] >= 1
    /\ \A k \in Keys : rk_slot[k] = "completed" => rk_refunds[k] >= 1

RefundIInv == Refunds!TypeOK /\ RefundBlame /\ RefundHeld /\ RefundCounted /\ RefundReal
   /\ Refunds!ReservationIsHeld

\* A step of request r.
RefundStep(r) ==
    \/ Refunds!Send(r) \/ Refunds!Replay(r) \/ Refunds!Begin(r) \/ Refunds!BeginRead(r)
            \/ Refunds!BeginWrite(r)
    \/ Refunds!Refund(r) \/ Refunds!Refused(r) \/ Refunds!Complete(r) \/ Refunds!Drop(r)
    \/ Refunds!CacheFails(r) \/ Refunds!Die(r)
--------------------------------------------------------------------------------
LEMMA RefundInitIInv == Refunds!Init => RefundIInv
<1>1. SUFFICES ASSUME Refunds!Init PROVE RefundIInv
  OBVIOUS
<1>2. Refunds!TypeOK /\ RefundBlame /\ RefundHeld
  BY <1>1 DEF Refunds!Init, Refunds!TypeOK, RefundBlame, RefundHeld, Refunds!Holds,
     RefundOrderly
<1>3. RefundCounted /\ RefundReal /\ Refunds!ReservationIsHeld
  BY <1>1 DEF Refunds!Init, RefundCounted, RefundReal, Refunds!ReservationIsHeld
<1> QED
  BY <1>2, <1>3 DEF RefundIInv

LEMMA RefundTypeStep ==
    ASSUME Refunds!TypeOK, NEW r \in Requests, RefundStep(r)
    PROVE  Refunds!TypeOK'
<1> USE DEF Refunds!TypeOK, Refunds!Working, Refunds!Ended, Refunds!Goto, Refunds!Put,
   Refunds!Spoil
<1>1. CASE Refunds!Send(r) \/ Refunds!Replay(r)
  BY <1>1 DEF Refunds!Send, Refunds!Replay
<1>2. CASE Refunds!Begin(r) \/ Refunds!BeginRead(r)
  BY <1>2 DEF Refunds!Begin, Refunds!BeginRead
<1>3. CASE Refunds!BeginWrite(r)
  BY <1>3 DEF Refunds!BeginWrite
<1>4. CASE Refunds!Refund(r) \/ Refunds!Refused(r)
  BY <1>4 DEF Refunds!Refund, Refunds!Refused
<1>5. CASE Refunds!Complete(r)
  BY <1>5 DEF Refunds!Complete
<1>6. CASE Refunds!Drop(r)
  BY <1>6 DEF Refunds!Drop
<1>7. CASE Refunds!CacheFails(r)
  BY <1>7 DEF Refunds!CacheFails
<1>8. CASE Refunds!Die(r)
  BY <1>8 DEF Refunds!Die
<1> QED
  BY <1>1, <1>2, <1>3, <1>4, <1>5, <1>6, <1>7, <1>8 DEF RefundStep

LEMMA RefundBlameStep ==
    ASSUME Refunds!TypeOK, RefundBlame, RefundHeld, NEW r \in Requests, RefundStep(r)
    PROVE  RefundBlame'
<1> USE DEF Refunds!TypeOK, RefundBlame, RefundOrderly, Refunds!Working, Refunds!Ended,
   Refunds!Goto, Refunds!Put, Refunds!Spoil
<1>1. CASE Refunds!Send(r) \/ Refunds!Replay(r)
  BY <1>1 DEF Refunds!Send, Refunds!Replay
<1>2. CASE Refunds!Begin(r) \/ Refunds!BeginRead(r)
  BY <1>2 DEF Refunds!Begin, Refunds!BeginRead
<1>3. CASE Refunds!BeginWrite(r)
  BY <1>3 DEF Refunds!BeginWrite
<1>4. CASE Refunds!Refund(r) \/ Refunds!Refused(r)
  BY <1>4 DEF Refunds!Refund, Refunds!Refused
<1>5. CASE Refunds!Complete(r)
  BY <1>5 DEF Refunds!Complete
<1>6. CASE Refunds!Drop(r)
  BY <1>6 DEF Refunds!Drop, RefundHeld, Refunds!Holds
<1>7. CASE Refunds!CacheFails(r)
  BY <1>7 DEF Refunds!CacheFails
<1>8. CASE Refunds!Die(r)
  BY <1>8 DEF Refunds!Die
<1> QED
  BY <1>1, <1>2, <1>3, <1>4, <1>5, <1>6, <1>7, <1>8 DEF RefundStep

LEMMA RefundHeldStep ==
    ASSUME Refunds!TypeOK, RefundHeld, NEW r \in Requests, RefundStep(r)
    PROVE  RefundHeld'
<1> USE DEF Refunds!TypeOK, RefundHeld, Refunds!Holds, RefundOrderly, Refunds!Working,
   Refunds!Ended, Refunds!Goto, Refunds!Put, Refunds!Spoil
<1>1. CASE Refunds!Send(r) \/ Refunds!Replay(r)
  BY <1>1 DEF Refunds!Send, Refunds!Replay
<1>2. CASE Refunds!Begin(r) \/ Refunds!BeginRead(r)
  BY <1>2 DEF Refunds!Begin, Refunds!BeginRead
<1>3. CASE Refunds!BeginWrite(r)
  BY SMTT(60), <1>3 DEF Refunds!BeginWrite
<1>4. CASE Refunds!Refund(r) \/ Refunds!Refused(r)
  BY <1>4 DEF Refunds!Refund, Refunds!Refused
<1>5. CASE Refunds!Complete(r)
  BY <1>5 DEF Refunds!Complete
<1>6. CASE Refunds!Drop(r)
  BY <1>6 DEF Refunds!Drop
<1>7. CASE Refunds!CacheFails(r)
  BY <1>7 DEF Refunds!CacheFails
<1>8. CASE Refunds!Die(r)
  BY <1>8 DEF Refunds!Die
<1> QED
  BY <1>1, <1>2, <1>3, <1>4, <1>5, <1>6, <1>7, <1>8 DEF RefundStep

LEMMA RefundCountedStep ==
    ASSUME Refunds!TypeOK, RefundHeld, RefundCounted, NEW r \in Requests, RefundStep(r)
    PROVE  RefundCounted'
<1> USE DEF Refunds!TypeOK, RefundCounted, RefundOrderly, Refunds!Working, Refunds!Ended,
   Refunds!Goto, Refunds!Put, Refunds!Spoil
<1>1. CASE Refunds!Send(r) \/ Refunds!Replay(r)
  BY <1>1 DEF Refunds!Send, Refunds!Replay
<1>2. CASE Refunds!Begin(r) \/ Refunds!BeginRead(r)
  BY <1>2 DEF Refunds!Begin, Refunds!BeginRead
<1>3. CASE Refunds!BeginWrite(r)
  BY <1>3 DEF Refunds!BeginWrite
<1>4. CASE Refunds!Refund(r) \/ Refunds!Refused(r)
  BY <1>4 DEF Refunds!Refund, Refunds!Refused, RefundHeld, Refunds!Holds
<1>5. CASE Refunds!Complete(r)
  BY <1>5 DEF Refunds!Complete
<1>6. CASE Refunds!Drop(r)
  BY <1>6 DEF Refunds!Drop
<1>7. CASE Refunds!CacheFails(r)
  BY <1>7 DEF Refunds!CacheFails
<1>8. CASE Refunds!Die(r)
  BY <1>8 DEF Refunds!Die
<1> QED
  BY <1>1, <1>2, <1>3, <1>4, <1>5, <1>6, <1>7, <1>8 DEF RefundStep

LEMMA RefundRealStep ==
    ASSUME Refunds!TypeOK, RefundReal, NEW r \in Requests, RefundStep(r)
    PROVE  RefundReal'
<1> USE DEF Refunds!TypeOK, RefundReal, Refunds!Working, Refunds!Ended, Refunds!Goto,
   Refunds!Put, Refunds!Spoil
<1>1. CASE Refunds!Send(r) \/ Refunds!Replay(r)
  BY <1>1 DEF Refunds!Send, Refunds!Replay
<1>2. CASE Refunds!Begin(r) \/ Refunds!BeginRead(r)
  BY <1>2 DEF Refunds!Begin, Refunds!BeginRead
<1>3. CASE Refunds!BeginWrite(r)
  BY <1>3 DEF Refunds!BeginWrite
<1>4. CASE Refunds!Refund(r) \/ Refunds!Refused(r)
  BY <1>4 DEF Refunds!Refund, Refunds!Refused
<1>5. CASE Refunds!Complete(r)
  BY <1>5 DEF Refunds!Complete
<1>6. CASE Refunds!Drop(r)
  BY <1>6 DEF Refunds!Drop
<1>7. CASE Refunds!CacheFails(r)
  BY <1>7 DEF Refunds!CacheFails
<1>8. CASE Refunds!Die(r)
  BY <1>8 DEF Refunds!Die
<1> QED
  BY <1>1, <1>2, <1>3, <1>4, <1>5, <1>6, <1>7, <1>8 DEF RefundStep

LEMMA RefundReservationStep ==
    ASSUME Refunds!TypeOK, Refunds!ReservationIsHeld, NEW r \in Requests, RefundStep(r)
    PROVE  Refunds!ReservationIsHeld'
<1> USE DEF Refunds!TypeOK, Refunds!ReservationIsHeld, Refunds!Holds, Refunds!Working,
   Refunds!Ended, Refunds!Goto, Refunds!Put, Refunds!Spoil
<1>1. CASE Refunds!Send(r) \/ Refunds!Replay(r)
  BY <1>1 DEF Refunds!Send, Refunds!Replay
<1>2. CASE Refunds!Begin(r) \/ Refunds!BeginRead(r)
  BY <1>2 DEF Refunds!Begin, Refunds!BeginRead
<1>3. CASE Refunds!BeginWrite(r)
  BY <1>3 DEF Refunds!BeginWrite
<1>4. CASE Refunds!Refund(r) \/ Refunds!Refused(r)
  BY <1>4 DEF Refunds!Refund, Refunds!Refused
<1>5. CASE Refunds!Complete(r)
  BY <1>5 DEF Refunds!Complete
<1>6. CASE Refunds!Drop(r)
  BY <1>6 DEF Refunds!Drop
<1>7. CASE Refunds!CacheFails(r)
  BY <1>7 DEF Refunds!CacheFails
<1>8. CASE Refunds!Die(r)
  BY <1>8 DEF Refunds!Die
<1> QED
  BY <1>1, <1>2, <1>3, <1>4, <1>5, <1>6, <1>7, <1>8 DEF RefundStep

LEMMA RefundExpireStep ==
    ASSUME RefundIInv, NEW k \in Keys, Refunds!Expire(k)
    PROVE  RefundIInv'
<1> USE DEF RefundIInv, Refunds!TypeOK, Refunds!Expire, Refunds!Spoil
<1>1. Refunds!TypeOK'
  OBVIOUS
<1>2. RefundBlame' /\ RefundHeld'
  BY DEF RefundBlame, RefundHeld, Refunds!Holds, RefundOrderly
<1>3. RefundCounted' /\ RefundReal'
  BY DEF RefundCounted, RefundReal, RefundOrderly
<1>4. Refunds!ReservationIsHeld'
  BY DEF Refunds!ReservationIsHeld, Refunds!Holds
<1> QED
  BY <1>1, <1>2, <1>3, <1>4

LEMMA RefundNextIInv ==
    ASSUME RefundIInv, [Refunds!Next]_(Refunds!vars)
    PROVE  RefundIInv'
<1>1. ASSUME NEW r \in Requests, RefundStep(r) PROVE RefundIInv'
  BY <1>1, RefundTypeStep, RefundBlameStep, RefundHeldStep, RefundCountedStep,
     RefundRealStep, RefundReservationStep DEF RefundIInv
<1>2. ASSUME NEW k \in Keys, Refunds!Expire(k) PROVE RefundIInv'
  BY <1>2, RefundExpireStep
<1>3. CASE UNCHANGED Refunds!vars
  BY <1>3 DEF Refunds!vars, RefundIInv, Refunds!TypeOK, RefundBlame, RefundHeld,
     RefundCounted, RefundReal, Refunds!ReservationIsHeld, Refunds!Holds, RefundOrderly
<1> QED
  BY <1>1, <1>2, <1>3 DEF Refunds!Next, RefundStep

LEMMA RefundIInvHonours == RefundIInv => Refunds!KeyIsHonoured
<1>1. RefundIInv => Refunds!RefundedOnce
  BY DEF RefundIInv, RefundCounted, RefundOrderly, Refunds!RefundedOnce, Refunds!TypeOK
<1>2. RefundIInv => Refunds!OneHolder
  BY DEF RefundIInv, RefundBlame, RefundHeld, RefundOrderly, Refunds!OneHolder,
     Refunds!TypeOK
<1>3. RefundIInv => Refunds!SuccessIsReal
  BY DEF RefundIInv, RefundReal, Refunds!SuccessIsReal
<1> QED
  BY <1>1, <1>2, <1>3 DEF Refunds!KeyIsHonoured, RefundIInv
--------------------------------------------------------------------------------
\* Every column of the cache, the requests and the histories keeps its type.
THEOREM RefundTypeOK == Refunds!Spec => []Refunds!TypeOK
<1>1. RefundIInv => Refunds!TypeOK
  BY DEF RefundIInv
<1> QED
  BY <1>1, RefundInitIInv, RefundNextIInv, PTL DEF Refunds!Spec

\* withIdempotency, for any number of transmissions under any number of keys and
\* whatever fails: the money goes back once, a key has one holder under SET NX, an
\* answer of success is true, and no reservation is left without a holder; with the
\* exceptions that the four properties name, and no others.
THEOREM RefundKeyIsHonoured == Refunds!Spec => []Refunds!KeyIsHonoured
  BY RefundInitIInv, RefundNextIInv, RefundIInvHonours, PTL DEF Refunds!Spec
--------------------------------------------------------------------------------
\* The composition starts as the keyed refund does, and each of its steps is one of the keyed
\* refund's or leaves it alone.
LEMMA RefundStarts == Init => Refunds!Init
  BY DEF Init

LEMMA RefundSteps == [Next]_vars => [Refunds!Next]_(Refunds!vars)
  BY DEF Next, VoiceNext, MarketNext, StripeNext, RefundsNext, CoursesNext,
     vars, RefundsVars, Refunds!vars

\* withIdempotency among the other parts of the back end: what RefundKeyIsHonoured
\* says, of every behaviour of the composition.
THEOREM KeyIsHonouredAll == Spec => []KeyIsHonoured
<1>1. Init => RefundIInv
  BY RefundStarts, RefundInitIInv
<1>2. RefundIInv /\ [Next]_vars => RefundIInv'
  BY RefundSteps, RefundNextIInv
<1>3. RefundIInv => KeyIsHonoured
  BY RefundIInvHonours DEF KeyIsHonoured
<1> QED
  BY <1>1, <1>2, <1>3, PTL DEF Spec
--------------------------------------------------------------------------------
\* Course firing.  A handler is pending on a course from the commit of its stamp to
\* the queueing of its ticket.
CourseOps == {"create", "fire"}
CoursePending(h, c) ==
    /\ Courses!At(h, CourseOps, "stamped") \/ Courses!At(h, CourseOps, "read")
    /\ cf_req[h].course = c

\* Before the order exists nothing is under way.
CourseBlank ==
    cf_status = "none" =>
        /\ \A h \in Handlers : cf_req[h] = Courses!Idle
        /\ \A l \in Items : cf_item[l] = Courses!NoLine
        /\ cf_stamped = {}

\* The advisory lock has one holder; it works on an unpaid order, with a tap nobody
\* has claimed yet.
CourseLock ==
    /\ \A h, g \in Handlers :
         Courses!At(h, {"fire"}, "locked") /\ Courses!At(g, {"fire"}, "locked") => h = g
    /\ \A h \in Handlers : Courses!At(h, {"fire"}, "locked") =>
         cf_req[h].tap \notin cf_claims /\ cf_status \in {"open", "shut"}

\* A tap that has its ticket is claimed, and a pending tap is claimed, without a
\* ticket, and in the hands of one handler.
CourseTaps ==
    /\ \A t \in Taps : cf_tickets[t] = 0 \/ (cf_tickets[t] = 1 /\ t \in cf_claims)
    /\ \A h \in Handlers : CoursePending(h, cf_req[h].course) /\ cf_req[h].tap # None =>
         /\ cf_req[h].tap \in cf_claims /\ cf_tickets[cf_req[h].tap] = 0
         /\ \A g \in Handlers : CoursePending(g, cf_req[g].course)
                 /\ cf_req[g].tap = cf_req[h].tap => g = h

\* Only a line that exists is printed, and the lines a handler read are still those
\* of its course unless they have been deleted.
CourseLines ==
    /\ \A l \in Items : cf_item[l] = Courses!NoLine => cf_printed[l] = 0
    /\ \A h \in Handlers : Courses!At(h, CourseOps, "read") =>
         \A l \in cf_req[h].seen :
            cf_item[l] = Courses!Gone \/ l \in Courses!InCourse(cf_req[h].course)

\* The heart of the argument.  A course never stamped has no ticket and no pending
\* handler.  A stamped course to which nothing was added has no unfired line, so
\* nobody stamps it again: it has been printed, or one handler is about to.
CourseOnce ==
    \A c \in Servings :
        /\ c \notin cf_stamped =>
            /\ \A l \in Courses!InCourse(c) : cf_printed[l] = 0
            /\ \A h \in Handlers : ~CoursePending(h, c)
        /\ c \in cf_stamped \ cf_reopened =>
            /\ Courses!Unfired(c) = {}
            /\ \A l \in Courses!InCourse(c) : cf_printed[l] <= 1
            /\ \A h \in Handlers : CoursePending(h, c) =>
                 /\ \A l \in Courses!InCourse(c) : cf_printed[l] = 0
                 /\ \A g \in Handlers : CoursePending(g, c) => g = h

\* The inductive invariant.
CourseIInv ==
    /\ Courses!TypeOK /\ CourseBlank /\ CourseLock /\ CourseTaps /\ CourseLines
    /\ Courses!FiredIsPrinted /\ CourseOnce

LEMMA CourseInitIInv == ASSUME CourseBounds, Courses!Init PROVE CourseIInv
<1> USE DEF Courses!Init
<1>1. Courses!Present = {}
  BY DEF Courses!Present, Courses!Line, Courses!NoLine
<1>2. Courses!TypeOK
  BY DEF Courses!TypeOK
<1>3. \A h \in Handlers : \A op, step : ~Courses!At(h, op, step)
  BY DEF Courses!At
<1> QED
  BY <1>1, <1>2, <1>3 DEF CourseIInv, CourseBlank, CourseLock, CourseTaps, CourseLines,
     CourseOnce, CoursePending, Courses!FiredIsPrinted, Courses!InCourse, Courses!Unfired

\* What a handler has in hand is a request.
LEMMA CourseAt ==
    ASSUME Courses!TypeOK, NEW h \in Handlers, NEW op, NEW step, Courses!At(h, op, step)
    PROVE  cf_req[h] \in Courses!Request /\ cf_req[h].step = step /\ cf_req[h].op \in op
  BY DEF Courses!TypeOK, Courses!At

LEMMA CourseInsertType ==
    ASSUME Courses!TypeOK, NEW new \in SUBSET Items, NEW f \in [new -> Servings],
           NEW now \in SUBSET Servings, NEW old, Courses!Insert(new, f, now, old)
    PROVE  /\ cf_item' \in [Items -> Courses!Line \cup {Courses!NoLine, Courses!Gone}]
           /\ cf_stamped' \subseteq Servings /\ cf_reopened' \subseteq cf_stamped'
  BY DEF Courses!TypeOK, Courses!Insert, Courses!Line

LEMMA CourseTypeStep ==
    ASSUME CourseBounds, Courses!TypeOK, Courses!Next PROVE Courses!TypeOK'
<1> USE DEF Courses!history
<1>1. ASSUME NEW h \in Handlers, Courses!Create(h) PROVE Courses!TypeOK'
  <2>1. PICK new \in SUBSET Items : \E f \in [new -> Servings] :
          Courses!Insert(new, f, {FirstServing}, {})
    BY <1>1 DEF Courses!Create
  <2>2. /\ cf_item' \in [Items -> Courses!Line \cup {Courses!NoLine, Courses!Gone}]
        /\ cf_stamped' \subseteq Servings /\ cf_reopened' \subseteq cf_stamped'
    BY <2>1, CourseInsertType DEF CourseBounds
  <2> QED
    BY <1>1, <2>2 DEF Courses!Create, Courses!TypeOK, Courses!Enter, Courses!Request,
       CourseBounds
<1>2. ASSUME NEW h \in Handlers, NEW c \in Servings, NEW t \in Taps \cup {None},
             Courses!FireBegin(h, c, t)
      PROVE  Courses!TypeOK'
  BY <1>2 DEF Courses!FireBegin, Courses!TypeOK, Courses!Enter, Courses!Request
<1>3. ASSUME NEW h \in Handlers, Courses!FireStamp(h) PROVE Courses!TypeOK'
  <2>1. cf_req[h] \in Courses!Request
    BY <1>3, CourseAt DEF Courses!FireStamp
  <2>2. cf_item' \in [Items -> Courses!Line \cup {Courses!NoLine, Courses!Gone}]
    BY <1>3 DEF Courses!FireStamp, Courses!TypeOK, Courses!Unfired, Courses!InCourse,
       Courses!Present, Courses!Line
  <2> QED
    BY <1>3, <2>1, <2>2 DEF Courses!FireStamp, Courses!TypeOK, Courses!Leave,
       Courses!Request
<1>4. ASSUME NEW h \in Handlers, Courses!ReadBack(h) PROVE Courses!TypeOK'
  <2>1. cf_req[h] \in Courses!Request
    BY <1>4, CourseAt DEF Courses!ReadBack
  <2>2. Courses!InCourse(cf_req[h].course) \in SUBSET Items
    BY DEF Courses!InCourse, Courses!Present
  <2> QED
    BY <1>4, <2>1, <2>2 DEF Courses!ReadBack, Courses!TypeOK, Courses!Leave,
       Courses!Request
<1>5. ASSUME NEW h \in Handlers, Courses!PrintCourse(h) PROVE Courses!TypeOK'
  BY <1>5 DEF Courses!PrintCourse, Courses!TypeOK, Courses!Leave
<1>6. ASSUME NEW h \in Handlers, Courses!PrintFails(h) \/ Courses!Die(h)
      PROVE  Courses!TypeOK'
  <2>1. cf_req[h] \in Courses!Request
    BY <1>6, CourseAt DEF Courses!PrintFails, Courses!Die, Courses!TypeOK
  <2> QED
    BY <1>6, <2>1 DEF Courses!PrintFails, Courses!Die, Courses!TypeOK, Courses!Leave,
       Courses!Request
<1>7. CASE Courses!AppendLines
  <2>1. PICK l \in Items : \E f \in [{l} -> Servings] : Courses!Insert({l}, f, {}, {})
    BY <1>7 DEF Courses!AppendLines, Courses!Fresh
  <2>2. /\ cf_item' \in [Items -> Courses!Line \cup {Courses!NoLine, Courses!Gone}]
        /\ cf_stamped' \subseteq Servings /\ cf_reopened' \subseteq cf_stamped'
    BY <2>1, CourseInsertType
  <2> QED
    BY <1>7, <2>2 DEF Courses!AppendLines, Courses!TypeOK
<1>8. ASSUME NEW h \in Handlers, Courses!EditRead(h) PROVE Courses!TypeOK'
  BY <1>8 DEF Courses!EditRead, Courses!TypeOK, Courses!Enter, Courses!Request, CourseBounds
<1>9. ASSUME NEW h \in Handlers, Courses!EditCommit(h) PROVE Courses!TypeOK'
  <2>1. PICK new \in SUBSET Items : \E f \in [new -> Servings] :
          Courses!Insert(new, f, {}, Courses!Present)
    BY <1>9 DEF Courses!EditCommit, Courses!Fresh
  <2>2. /\ cf_item' \in [Items -> Courses!Line \cup {Courses!NoLine, Courses!Gone}]
        /\ cf_stamped' \subseteq Servings /\ cf_reopened' \subseteq cf_stamped'
    BY <2>1, CourseInsertType
  <2> QED
    BY <1>9, <2>2 DEF Courses!EditCommit, Courses!TypeOK, Courses!Leave
<1>10. CASE Courses!Pay \/ Courses!Shut
  BY <1>10 DEF Courses!Pay, Courses!Shut, Courses!TypeOK
<1> QED
  BY <1>1, <1>2, <1>3, <1>4, <1>5, <1>6, <1>7, <1>8, <1>9, <1>10 DEF Courses!Next

\* What the invariant says of the handlers and lines, for a step that only moves a
\* handler, and not to where it has a ticket to print.
LEMMA CourseRestKeeps ==
    ASSUME CourseIInv, NEW h \in Handlers, \A g \in Handlers \ {h} : cf_req'[g] = cf_req[g],
           \A c : ~CoursePending(h, c)',
           UNCHANGED <<cf_item, cf_printed, cf_tickets, cf_stamped, cf_reopened>>,
           cf_claims \subseteq cf_claims'
    PROVE  CourseTaps' /\ CourseLines' /\ CourseOnce'
<1>1. /\ \A g \in Handlers : Courses!At(g, CourseOps, "read")' => g # h
      /\ \A g \in Handlers \ {h} : \A c : CoursePending(g, c)' <=> CoursePending(g, c)
      /\ \A g \in Handlers \ {h} :
           Courses!At(g, CourseOps, "read")' <=> Courses!At(g, CourseOps, "read")
  BY DEF CoursePending, Courses!At
<1>2. \A c : Courses!InCourse(c)' = Courses!InCourse(c)
         /\ Courses!Unfired(c)' = Courses!Unfired(c)
  BY DEF Courses!Unfired, Courses!InCourse, Courses!Present
<1>3. CourseTaps'
  BY <1>1 DEF CourseIInv, CourseTaps
<1>4. CourseLines'
  BY <1>1, <1>2 DEF CourseIInv, CourseLines
<1>5. CourseOnce'
  BY <1>1, <1>2 DEF CourseIInv, CourseOnce
<1> QED
  BY <1>3, <1>4, <1>5

\* A line that is fired and not printed stays in good hands when its ticket stays due.
LEMMA CourseFiredKeeps ==
    ASSUME Courses!FiredIsPrinted, cf_lost \subseteq cf_lost',
           \A l \in Courses!Present' : cf_item'[l].fired /\ cf_printed'[l] = 0 =>
             /\ l \in Courses!Present /\ cf_item[l].fired /\ cf_printed[l] = 0
             /\ cf_item'[l].course = cf_item[l].course
             /\ \A g \in Handlers : Courses!WillPrint(g, l) =>
                  cf_item[l].course \in cf_lost' \/ \E k \in Handlers : Courses!WillPrint(k, l)'
    PROVE  Courses!FiredIsPrinted'
  BY DEF Courses!FiredIsPrinted

\* A fire or an edit that begins changes no line and no ticket.
LEMMA CourseEnterKeeps ==
    ASSUME CourseIInv, NEW h \in Handlers, Courses!EditRead(h)
           \/ \E c \in Servings, t \in Taps \cup {None} : Courses!FireBegin(h, c, t)
    PROVE  CourseBlank' /\ CourseLock' /\ CourseTaps' /\ CourseLines'
           /\ Courses!FiredIsPrinted' /\ CourseOnce'
<1>1. /\ cf_req[h] = Courses!Idle /\ cf_status = "open" /\ cf_status' = "open"
      /\ \A g \in Handlers \ {h} : cf_req'[g] = cf_req[g]
      /\ cf_req'[h].step = "locked" /\ cf_req'[h] # Courses!Idle
      /\ UNCHANGED <<cf_item, cf_claims, cf_printed, cf_tickets, cf_stamped, cf_reopened,
              cf_lost>>
  BY DEF Courses!EditRead, Courses!FireBegin, Courses!Enter, Courses!history, CourseIInv,
     Courses!TypeOK, Courses!Idle
<1>2. cf_req'[h].op = "edit" \/ (cf_req'[h].tap \notin cf_claims /\ ~Courses!Locked)
  BY DEF Courses!EditRead, Courses!FireBegin, Courses!Enter, CourseIInv, Courses!TypeOK
<1>3. \A c : ~CoursePending(h, c)'
  BY <1>1 DEF CoursePending, Courses!At
<1>4. CourseTaps' /\ CourseLines' /\ CourseOnce'
  BY <1>1, <1>3, CourseRestKeeps
<1>5. CourseLock'
  BY <1>1, <1>2 DEF CourseIInv, CourseLock, Courses!At, Courses!Locked
<1>6. Courses!FiredIsPrinted'
  <2>1. ASSUME NEW g \in Handlers, NEW l \in Items, Courses!WillPrint(g, l)
        PROVE  Courses!WillPrint(g, l)'
    BY <1>1, <2>1 DEF Courses!WillPrint, Courses!At
  <2>2. Courses!Present' = Courses!Present
    BY <1>1 DEF Courses!Present
  <2> QED
    BY <1>1, <2>1, <2>2, CourseFiredKeeps DEF CourseIInv, Courses!Present
<1> QED
  BY <1>1, <1>4, <1>5, <1>6 DEF CourseBlank

\* A handler that goes away without its ticket says so.
LEMMA CourseLeaveKeeps ==
    ASSUME CourseIInv, NEW h \in Handlers, Courses!PrintFails(h) \/ Courses!Die(h)
    PROVE  CourseBlank' /\ CourseLock' /\ CourseTaps' /\ CourseLines'
           /\ Courses!FiredIsPrinted' /\ CourseOnce'
<1>1. /\ cf_req[h] # Courses!Idle /\ cf_req'[h] = Courses!Idle
      /\ \A g \in Handlers \ {h} : cf_req'[g] = cf_req[g]
      /\ cf_lost \subseteq cf_lost'
      /\ cf_req[h].step # "locked" => cf_req[h].course \in cf_lost'
      /\ UNCHANGED <<cf_status, cf_item, cf_claims, cf_printed, cf_tickets, cf_stamped,
              cf_reopened>>
  BY DEF Courses!PrintFails, Courses!Die, Courses!Leave, Courses!At, CourseIInv,
     Courses!TypeOK, Courses!Idle
<1>3. \A c : ~CoursePending(h, c)'
  BY <1>1 DEF CoursePending, Courses!At
<1>4. CourseTaps' /\ CourseLines' /\ CourseOnce'
  BY <1>1, <1>3, CourseRestKeeps
<1>5. CourseLock' /\ CourseBlank'
  BY <1>1 DEF CourseIInv, CourseLock, CourseBlank, Courses!At
<1>6. Courses!FiredIsPrinted'
  <2>1. ASSUME NEW g \in Handlers, NEW l \in Items, Courses!WillPrint(g, l)
        PROVE  cf_item[l].course \in cf_lost' \/ Courses!WillPrint(g, l)'
    BY <1>1, <2>1 DEF Courses!WillPrint, Courses!At
  <2>2. Courses!Present' = Courses!Present
    BY <1>1 DEF Courses!Present
  <2> QED
    BY <1>1, <2>1, <2>2, CourseFiredKeeps DEF CourseIInv, Courses!Present
<1> QED
  BY <1>4, <1>5, <1>6

\* The payment waits for the lock.
LEMMA CoursePayKeeps ==
    ASSUME CourseIInv, Courses!Pay \/ Courses!Shut
    PROVE  CourseBlank' /\ CourseLock' /\ CourseTaps' /\ CourseLines'
           /\ Courses!FiredIsPrinted' /\ CourseOnce'
<1>1. /\ cf_status = "open" /\ cf_status' \in {"paid", "shut"}
      /\ cf_status' = "paid" => ~Courses!Locked
      /\ UNCHANGED <<cf_item, cf_claims, cf_req, cf_printed, cf_tickets, cf_stamped,
                     cf_reopened, cf_lost>>
  BY DEF Courses!Pay, Courses!Shut, Courses!history
<1>2. CourseLock' /\ CourseBlank'
  BY <1>1 DEF CourseIInv, CourseLock, CourseBlank, Courses!At, Courses!Locked
<1>3. CourseTaps' /\ CourseLines' /\ CourseOnce' /\ Courses!FiredIsPrinted'
  BY <1>1 DEF CourseIInv, CourseTaps, CourseLines, CourseOnce, CoursePending, Courses!At,
     Courses!FiredIsPrinted, Courses!WillPrint, Courses!Unfired, Courses!InCourse,
        Courses!Present
<1> QED
  BY <1>2, <1>3

\* The read finds every line of the course that the stamp found.
LEMMA CourseReadBackKeeps ==
    ASSUME CourseIInv, NEW h \in Handlers, Courses!ReadBack(h)
    PROVE  CourseBlank' /\ CourseLock' /\ CourseTaps' /\ CourseLines'
           /\ Courses!FiredIsPrinted' /\ CourseOnce'
<1> DEFINE c == cf_req[h].course
           found == Courses!InCourse(c)
<1>0. Courses!At(h, CourseOps, "stamped") /\ cf_req[h] \in Courses!Request
  BY CourseAt DEF Courses!ReadBack, CourseIInv, CourseOps
<1>1. /\ \A g \in Handlers \ {h} : cf_req'[g] = cf_req[g]
      /\ UNCHANGED <<cf_status, cf_item, cf_claims, cf_printed, cf_tickets, cf_stamped,
                     cf_reopened, cf_lost>>
  BY DEF Courses!ReadBack, Courses!Leave, Courses!history, CourseIInv, Courses!TypeOK
<1>2. Courses!Present' = Courses!Present /\ \A d : Courses!InCourse(d)' = Courses!InCourse(d)
  BY <1>1 DEF Courses!InCourse, Courses!Present
<1>3. CASE found = {}
  <2>1. cf_req'[h] = Courses!Idle
    BY <1>3 DEF Courses!ReadBack, Courses!Leave, CourseIInv, Courses!TypeOK
  <2>2. \A d : ~CoursePending(h, d)'
    BY <2>1 DEF CoursePending, Courses!At
  <2>3. CourseTaps' /\ CourseLines' /\ CourseOnce'
    BY <1>1, <2>2, CourseRestKeeps
  <2>4. CourseLock' /\ CourseBlank'
    BY <1>1, <2>1 DEF CourseIInv, CourseLock, CourseBlank, Courses!At
  <2>5. Courses!FiredIsPrinted'
    <3>1. ASSUME NEW g \in Handlers, NEW l \in Courses!Present, Courses!WillPrint(g, l)
          PROVE  Courses!WillPrint(g, l)'
      <4>1. g # h
        BY <1>3, <3>1 DEF Courses!WillPrint, Courses!InCourse
      <4> QED
        BY <1>1, <3>1, <4>1 DEF Courses!WillPrint, Courses!At
    <3> QED
      BY <1>1, <1>2, <3>1, CourseFiredKeeps DEF CourseIInv
  <2> QED
    BY <2>3, <2>4, <2>5
<1>4. CASE found # {}
  <2>1. cf_req' = [cf_req EXCEPT ![h] = [cf_req[h] EXCEPT !.step = "read", !.seen = found]]
    BY <1>4 DEF Courses!ReadBack
  <2>2. cf_req'[h] = [cf_req[h] EXCEPT !.step = "read", !.seen = found]
    BY <2>1 DEF CourseIInv, Courses!TypeOK
  <2>3. /\ cf_req'[h].op = cf_req[h].op /\ cf_req'[h].course = c
             /\ cf_req'[h].tap = cf_req[h].tap
        /\ cf_req'[h].step = "read" /\ cf_req'[h].seen = found /\ cf_req'[h] # Courses!Idle
    BY <1>0, <2>2 DEF Courses!Request, Courses!Idle
  <2>4. \A g \in Handlers : \A d : CoursePending(g, d)' <=> CoursePending(g, d)
    BY <1>0, <1>1, <2>3 DEF CoursePending, Courses!At
  <2>5. \A g \in Handlers : cf_req'[g].tap = cf_req[g].tap
           /\ cf_req'[g].course = cf_req[g].course
    BY <1>1, <2>3
  <2>6. CourseTaps'
    BY <1>1, <2>4, <2>5 DEF CourseIInv, CourseTaps
  <2>7. CourseLines'
    BY <1>1, <1>2, <2>3 DEF CourseIInv, CourseLines, Courses!At
  <2>8. CourseOnce'
    <3>1. \A d : Courses!Unfired(d)' = Courses!Unfired(d)
      BY <1>1, <1>2 DEF Courses!Unfired
    <3> QED
      BY <1>1, <1>2, <2>4, <3>1 DEF CourseIInv, CourseOnce
  <2>9. CourseLock' /\ CourseBlank'
    BY <1>0, <1>1, <2>3 DEF CourseIInv, CourseLock, CourseBlank, Courses!At
  <2>10. Courses!FiredIsPrinted'
    <3>1. ASSUME NEW g \in Handlers, NEW l \in Courses!Present, Courses!WillPrint(g, l)
          PROVE  Courses!WillPrint(g, l)'
      BY <1>0, <1>1, <2>3, <3>1 DEF Courses!WillPrint, Courses!At, Courses!InCourse, CourseOps
    <3> QED
      BY <1>1, <1>2, <3>1, CourseFiredKeeps DEF CourseIInv
  <2> QED
    BY <2>6, <2>7, <2>8, <2>9, <2>10
<1> QED
  BY <1>3, <1>4

\* The ticket: each line read is printed once more, and nobody else is pending on a
\* course that nothing reopened.
LEMMA CoursePrintKeeps ==
    ASSUME CourseBounds, CourseIInv, NEW h \in Handlers, Courses!PrintCourse(h)
    PROVE  CourseBlank' /\ CourseLock' /\ CourseTaps' /\ CourseLines'
           /\ Courses!FiredIsPrinted' /\ CourseOnce'
<1> DEFINE c == cf_req[h].course
<1>0. Courses!At(h, CourseOps, "read") /\ cf_req[h] \in Courses!Request
  BY CourseAt DEF Courses!PrintCourse, CourseIInv, CourseOps
<1>1. /\ \A g \in Handlers \ {h} : cf_req'[g] = cf_req[g]
      /\ cf_req'[h] = Courses!Idle
      /\ \A l \in Items : cf_printed'[l] = IF l \in cf_req[h].seen THEN cf_printed[l] + 1
                                                                  ELSE cf_printed[l]
      /\ \A t \in Taps : cf_tickets'[t] = IF t = cf_req[h].tap THEN cf_tickets[t] + 1
                                                               ELSE cf_tickets[t]
      /\ UNCHANGED <<cf_status, cf_item, cf_claims, cf_stamped, cf_reopened, cf_lost>>
      /\ cf_printed \in [Items -> Nat] /\ cf_tickets \in [Taps -> Nat]
  BY DEF Courses!PrintCourse, Courses!Leave, CourseIInv, Courses!TypeOK
<1>2. /\ Courses!Present' = Courses!Present
      /\ \A d : Courses!InCourse(d)' = Courses!InCourse(d)
              /\ Courses!Unfired(d)' = Courses!Unfired(d)
  BY <1>1 DEF Courses!InCourse, Courses!Unfired, Courses!Present
<1>3. /\ \A d : ~CoursePending(h, d)'
      /\ \A g \in Handlers \ {h} : \A d : CoursePending(g, d)' <=> CoursePending(g, d)
      /\ CoursePending(h, c)
  BY <1>0, <1>1 DEF CoursePending, Courses!At
<1>4. c \in Servings /\ cf_req[h].tap \in Taps \cup {None}
  BY <1>0 DEF Courses!Request
<1>5. ASSUME NEW d \in Servings, NEW l \in Courses!InCourse(d), l \in cf_req[h].seen
      PROVE  d = c
  <2>1. cf_item[l] \in Courses!Line /\ cf_item[l].course = d
    BY DEF Courses!InCourse, Courses!Present
  <2>2. cf_item[l] # Courses!Gone
    BY <2>1 DEF Courses!Line, Courses!Gone
  <2> QED
    BY <1>0, <1>5, <2>1, <2>2 DEF CourseIInv, CourseLines, Courses!InCourse, Courses!Present
<1>6. CourseLock' /\ CourseBlank'
  BY <1>1, <1>0 DEF CourseIInv, CourseLock, CourseBlank, Courses!At
<1>7. CourseTaps'
  <2>1. ASSUME NEW t \in Taps
        PROVE  cf_tickets'[t] = 0 \/ (cf_tickets'[t] = 1 /\ t \in cf_claims)
    <3>1. CASE t = cf_req[h].tap /\ t # None
      BY <1>1, <1>3, <3>1 DEF CourseIInv, CourseTaps
    <3>2. CASE t # cf_req[h].tap
      BY <1>1, <3>2 DEF CourseIInv, CourseTaps
    <3> QED
      BY <3>1, <3>2, <2>1 DEF CourseBounds
  <2>2. ASSUME NEW g \in Handlers, CoursePending(g, cf_req[g].course)', cf_req'[g].tap # None
        PROVE  /\ cf_req'[g].tap \in cf_claims /\ cf_tickets'[cf_req'[g].tap] = 0
               /\ \A k \in Handlers :
                    CoursePending(k, cf_req[k].course)' /\ cf_req'[k].tap = cf_req'[g].tap
                       => k = g
    <3>1. g # h /\ CoursePending(g, cf_req[g].course) /\ cf_req'[g] = cf_req[g]
      BY <1>1, <1>3, <2>2
    <3>2. cf_req[g].tap # cf_req[h].tap
      BY <1>3, <2>2, <3>1 DEF CourseIInv, CourseTaps
    <3>3. cf_req[g].tap \in cf_claims /\ cf_claims \subseteq Taps
      BY <2>2, <3>1 DEF CourseIInv, CourseTaps, Courses!TypeOK
    <3> QED
      BY <1>1, <1>3, <2>2, <3>1, <3>2, <3>3 DEF CourseIInv, CourseTaps
  <2> QED
    BY <1>1, <2>1, <2>2 DEF CourseTaps
<1>8. CourseLines'
  <2>1. ASSUME NEW l \in Items, cf_item[l] = Courses!NoLine PROVE l \notin cf_req[h].seen
    BY <1>0, <2>1 DEF CourseIInv, CourseLines, Courses!InCourse, Courses!Present, Courses!Line,
       Courses!NoLine, Courses!Gone
  <2> QED
    BY <1>1, <1>2, <2>1 DEF CourseIInv, CourseLines, Courses!At
<1>9. CourseOnce'
  <2> SUFFICES ASSUME NEW d \in Servings
               PROVE  /\ d \notin cf_stamped =>
                          /\ \A l \in Courses!InCourse(d) : cf_printed'[l] = 0
                          /\ \A g \in Handlers : ~CoursePending(g, d)'
                      /\ d \in cf_stamped \ cf_reopened =>
                          /\ Courses!Unfired(d) = {}
                          /\ \A l \in Courses!InCourse(d) : cf_printed'[l] <= 1
                          /\ \A g \in Handlers : CoursePending(g, d)' =>
                               /\ \A l \in Courses!InCourse(d) : cf_printed'[l] = 0
                               /\ \A k \in Handlers : CoursePending(k, d)' => k = g
    BY <1>1, <1>2 DEF CourseOnce
  <2>0. \A l \in Courses!InCourse(d) : l \in Items
    BY DEF Courses!InCourse, Courses!Present
  <2>1. CASE d = c
    BY <1>1, <1>3, <2>0, <2>1 DEF CourseIInv, CourseOnce
  <2>2. CASE d # c
    <3>1. \A l \in Courses!InCourse(d) : cf_printed'[l] = cf_printed[l]
      BY <1>1, <1>5, <2>0, <2>2
    <3> QED
      BY <1>1, <1>3, <2>2, <3>1 DEF CourseIInv, CourseOnce
  <2> QED
    BY <2>1, <2>2
<1>10. Courses!FiredIsPrinted'
  <2>1. ASSUME NEW g \in Handlers, NEW l \in Courses!Present, cf_printed'[l] = 0,
               Courses!WillPrint(g, l)
        PROVE  Courses!WillPrint(g, l)'
    <3>1. l \in Items
      BY DEF Courses!Present
    <3>2. g # h
      BY <1>0, <1>1, <2>1, <3>1 DEF Courses!WillPrint, Courses!At
    <3> QED
      BY <1>1, <2>1, <3>2 DEF Courses!WillPrint, Courses!At
  <2>2. \A l \in Courses!Present : cf_printed'[l] = 0 => cf_printed[l] = 0
    BY <1>1 DEF Courses!Present
  <2> QED
    BY <1>1, <1>2, <2>1, <2>2, CourseFiredKeeps DEF CourseIInv
<1> QED
  BY <1>6, <1>7, <1>8, <1>9, <1>10

\* The stamp leaves no line of its course unfired, and takes a ticket on.
LEMMA CourseStampKeeps ==
    ASSUME CourseIInv, NEW h \in Handlers, Courses!FireStamp(h)
    PROVE  CourseBlank' /\ CourseLock' /\ CourseTaps' /\ CourseLines'
           /\ Courses!FiredIsPrinted' /\ CourseOnce'
<1> DEFINE c == cf_req[h].course
           news == Courses!Unfired(c)
<1>0. Courses!At(h, {"fire"}, "locked") /\ cf_req[h] \in Courses!Request
  BY CourseAt DEF Courses!FireStamp, CourseIInv
<1>1. /\ \A g \in Handlers \ {h} : cf_req'[g] = cf_req[g]
      /\ \A l \in Items : cf_item'[l] = IF l \in news THEN [cf_item[l] EXCEPT !.fired = TRUE]
                                                     ELSE cf_item[l]
      /\ cf_claims' = cf_claims \cup ({cf_req[h].tap} \ {None})
      /\ UNCHANGED <<cf_status, cf_printed, cf_tickets, cf_reopened, cf_lost>>
      /\ cf_printed \in [Items -> Nat] /\ cf_tickets \in [Taps -> Nat]
              /\ cf_claims \subseteq Taps
  BY DEF Courses!FireStamp, Courses!Leave, CourseIInv, Courses!TypeOK
<1>2. \A l \in Items :
        /\ l \in Courses!Present' <=> l \in Courses!Present
        /\ l \in Courses!Present => cf_item'[l].course = cf_item[l].course
        /\ l \in news => cf_item'[l].fired /\ cf_item[l] \in Courses!Line
        /\ l \notin news => cf_item'[l] = cf_item[l]
  BY <1>1 DEF Courses!Unfired, Courses!InCourse, Courses!Present, Courses!Line
<1>3. Courses!Present' = Courses!Present /\ \A d : Courses!InCourse(d)' = Courses!InCourse(d)
  BY <1>2 DEF Courses!InCourse, Courses!Present
<1>4. \A d : Courses!Unfired(d)' \subseteq Courses!Unfired(d)
  <2>1. ASSUME NEW d, NEW l \in Courses!Unfired(d)' PROVE l \in Courses!Unfired(d)
    <3>1. l \in Items /\ ~cf_item'[l].fired /\ l \in Courses!InCourse(d)
      BY <1>3 DEF Courses!Unfired, Courses!InCourse, Courses!Present
    <3> QED
      BY <1>2, <3>1 DEF Courses!Unfired
  <2> QED
    BY <2>1
<1>5. \A d : d = c => Courses!Unfired(d)' = {}
  <2>1. ASSUME NEW d, d = c, NEW l \in Courses!Unfired(d)' PROVE FALSE
    <3>1. l \in Items /\ ~cf_item'[l].fired
      BY <2>1 DEF Courses!Unfired, Courses!InCourse, Courses!Present
    <3>2. l \in news
      BY <1>4, <2>1
    <3> QED
      BY <1>2, <3>1, <3>2
  <2> QED
    BY <2>1
<1>6. cf_status # "none" /\ CourseBlank'
  BY <1>0, <1>1 DEF CourseIInv, CourseLock, CourseBlank
<1>7. CASE news = {}
  <2>1. cf_req'[h] = Courses!Idle /\ cf_stamped' = cf_stamped /\ cf_item' = cf_item
    BY <1>7, <1>2 DEF Courses!FireStamp, Courses!Leave, CourseIInv, Courses!TypeOK
  <2>2. \A d : ~CoursePending(h, d)'
    BY <2>1 DEF CoursePending, Courses!At
  <2>3. CourseTaps' /\ CourseLines' /\ CourseOnce'
    BY <1>1, <2>1, <2>2, CourseRestKeeps
  <2>4. CourseLock'
    BY <1>0, <1>1, <2>1 DEF CourseIInv, CourseLock, Courses!At
  <2>5. Courses!FiredIsPrinted'
    <3>1. ASSUME NEW g \in Handlers, NEW l \in Courses!Present, Courses!WillPrint(g, l)
          PROVE  Courses!WillPrint(g, l)'
      BY <1>0, <1>1, <2>1, <3>1 DEF Courses!WillPrint, Courses!At
    <3> QED
      BY <1>1, <1>3, <2>1, <3>1, CourseFiredKeeps DEF CourseIInv
  <2> QED
    BY <1>6, <2>3, <2>4, <2>5
<1>8. CASE news # {}
  <2>1. /\ cf_req'[h] = [cf_req[h] EXCEPT !.step = "stamped"]
        /\ cf_stamped' = cf_stamped \cup {c}
    BY <1>8 DEF Courses!FireStamp, CourseIInv, Courses!TypeOK
  <2>2. /\ cf_req'[h].op = "fire" /\ cf_req'[h].course = c /\ cf_req'[h].tap = cf_req[h].tap
        /\ cf_req'[h].step = "stamped" /\ cf_req'[h] # Courses!Idle
        /\ c \in Servings /\ cf_req[h].tap \in Taps \cup {None}
    BY <1>0, <2>1 DEF Courses!Request, Courses!Idle, Courses!At
  <2>3. /\ \A g \in Handlers \ {h} : \A d : CoursePending(g, d)' <=> CoursePending(g, d)
        /\ CoursePending(h, c)' /\ \A d : CoursePending(h, d)' => d = c
        /\ \A d : ~CoursePending(h, d)
    BY <1>0, <1>1, <2>2 DEF CoursePending, Courses!At, CourseOps
  <2>4. CourseLock'
    BY <1>0, <1>1, <2>2 DEF CourseIInv, CourseLock, Courses!At
  <2>5. CourseTaps'
    <3>1. cf_req[h].tap \notin cf_claims
      BY <1>0 DEF CourseIInv, CourseLock
    <3>2. \A t \in Taps : cf_tickets'[t] = 0 \/ (cf_tickets'[t] = 1 /\ t \in cf_claims')
      BY <1>1 DEF CourseIInv, CourseTaps
    <3>3. cf_req[h].tap # None => cf_tickets[cf_req[h].tap] = 0
      BY <2>2, <3>1 DEF CourseIInv, CourseTaps
    <3>4. ASSUME NEW g \in Handlers \ {h}, CoursePending(g, cf_req[g].course),
                 cf_req[g].tap # None
          PROVE  cf_req[g].tap # cf_req[h].tap
      BY <3>1, <3>4 DEF CourseIInv, CourseTaps
    <3>5. ASSUME NEW g \in Handlers, CoursePending(g, cf_req[g].course)', cf_req'[g].tap # None
          PROVE  /\ cf_req'[g].tap \in cf_claims' /\ cf_tickets'[cf_req'[g].tap] = 0
                 /\ \A k \in Handlers :
                      CoursePending(k, cf_req[k].course)' /\ cf_req'[k].tap = cf_req'[g].tap
                         => k = g
      <4>1. CASE g = h
        <5>1. cf_req'[g].tap \in cf_claims' /\ cf_tickets'[cf_req'[g].tap] = 0
          BY <1>1, <2>2, <3>3, <3>5, <4>1
        <5>2. ASSUME NEW k \in Handlers \ {h}, CoursePending(k, cf_req[k].course)',
                     cf_req'[k].tap = cf_req'[g].tap
              PROVE  FALSE
          BY <1>1, <2>2, <2>3, <3>4, <3>5, <4>1, <5>2
        <5> QED
          BY <4>1, <5>1, <5>2
      <4>2. CASE g # h
        <5>1. CoursePending(g, cf_req[g].course) /\ cf_req'[g] = cf_req[g]
          BY <1>1, <2>3, <3>5, <4>2
        <5>2. cf_req'[g].tap \in cf_claims' /\ cf_tickets'[cf_req'[g].tap] = 0
          BY <1>1, <3>5, <5>1 DEF CourseIInv, CourseTaps
        <5>3. ASSUME NEW k \in Handlers, CoursePending(k, cf_req[k].course)',
                     cf_req'[k].tap = cf_req'[g].tap
              PROVE  k = g
          <6>1. k # h
            BY <2>2, <3>4, <3>5, <4>2, <5>1, <5>3
          <6> QED
            BY <1>1, <2>3, <3>5, <5>1, <5>3, <6>1 DEF CourseIInv, CourseTaps
        <5> QED
          BY <5>2, <5>3
      <4> QED
        BY <4>1, <4>2
    <3> QED
      BY <3>2, <3>5 DEF CourseTaps
  <2>6. CourseLines'
    <3>1. \A l \in Items : (cf_item'[l] = Courses!NoLine => cf_item[l] = Courses!NoLine)
                           /\ (cf_item[l] = Courses!Gone => cf_item'[l] = Courses!Gone)
      BY <1>1, <1>2 DEF Courses!Unfired, Courses!InCourse, Courses!Present, Courses!Line,
         Courses!NoLine, Courses!Gone
    <3>2. \A g \in Handlers : Courses!At(g, CourseOps, "read")' =>
            Courses!At(g, CourseOps, "read") /\ cf_req'[g] = cf_req[g]
      BY <1>1, <2>2 DEF Courses!At
    <3>3. \A g \in Handlers : Courses!At(g, CourseOps, "read") => cf_req[g].seen \subseteq Items
      BY CourseAt DEF CourseIInv, Courses!Request
    <3> QED
      BY <1>1, <1>3, <3>1, <3>2, <3>3 DEF CourseIInv, CourseLines
  <2>7. CourseOnce'
    <3> SUFFICES ASSUME NEW d \in Servings
                 PROVE  /\ d \notin cf_stamped' =>
                            /\ \A l \in Courses!InCourse(d) : cf_printed[l] = 0
                            /\ \A g \in Handlers : ~CoursePending(g, d)'
                        /\ d \in cf_stamped' \ cf_reopened =>
                            /\ Courses!Unfired(d)' = {}
                            /\ \A l \in Courses!InCourse(d) : cf_printed[l] <= 1
                            /\ \A g \in Handlers : CoursePending(g, d)' =>
                                 /\ \A l \in Courses!InCourse(d) : cf_printed[l] = 0
                                 /\ \A k \in Handlers : CoursePending(k, d)' => k = g
      BY <1>1, <1>3 DEF CourseOnce
    <3>1. CASE d = c
      <4>1. d \in cf_stamped'
        BY <2>1, <3>1
      <4>2. d \in cf_stamped \/ d \in cf_reopened \/ d \notin cf_stamped
        OBVIOUS
      <4>3. d \in cf_reopened \/ d \notin cf_stamped
        BY <1>8, <3>1 DEF CourseIInv, CourseOnce
      <4> QED
        BY <1>5, <2>3, <3>1, <4>1, <4>3 DEF CourseIInv, CourseOnce
    <3>2. CASE d # c
      BY <1>4, <2>1, <2>3, <3>2 DEF CourseIInv, CourseOnce
    <3> QED
      BY <3>1, <3>2
  <2>8. Courses!FiredIsPrinted'
    <3> SUFFICES ASSUME NEW l \in Courses!Present, cf_item'[l].fired, cf_printed[l] = 0
                 PROVE  cf_item'[l].course \in cf_lost
                        \/ \E g \in Handlers : Courses!WillPrint(g, l)'
      BY <1>1, <1>3 DEF Courses!FiredIsPrinted
    <3>0. l \in Items /\ cf_item'[l].course = cf_item[l].course
      BY <1>2 DEF Courses!Present
    <3>1. CASE l \in news
      <4>1. cf_item[l].course = c
        BY <3>1 DEF Courses!Unfired, Courses!InCourse
      <4>2. Courses!WillPrint(h, l)'
        BY <2>2, <3>0, <4>1 DEF Courses!WillPrint, Courses!At
      <4> QED
        BY <4>2
    <3>2. CASE l \notin news
      <4>1. cf_item'[l] = cf_item[l]
        BY <1>2, <3>0, <3>2
      <4>2. cf_item[l].course \in cf_lost \/ \E g \in Handlers : Courses!WillPrint(g, l)
        BY <4>1 DEF CourseIInv, Courses!FiredIsPrinted
      <4>3. ASSUME NEW g \in Handlers, Courses!WillPrint(g, l) PROVE Courses!WillPrint(g, l)'
        BY <1>0, <1>1, <4>1, <4>3 DEF Courses!WillPrint, Courses!At
      <4> QED
        BY <3>0, <4>2, <4>3
    <3> QED
      BY <3>1, <3>2
  <2> QED
    BY <1>6, <2>4, <2>5, <2>6, <2>7, <2>8
<1> QED
  BY <1>7, <1>8

\* New lines are unfired and unprinted, and reopen the course they join.
LEMMA CourseInsertKeeps ==
    ASSUME CourseIInv, cf_status # "none", cf_status' = cf_status,
           NEW new \in SUBSET Courses!Fresh, NEW f \in [new -> Servings],
           NEW old \in {{}, Courses!Present}, Courses!Insert(new, f, {}, old),
           \A g \in Handlers : \/ cf_req'[g] = cf_req[g]
                               \/ cf_req'[g] = Courses!Idle
                                       /\ Courses!At(g, {"edit"}, "locked"),
           UNCHANGED <<cf_claims, cf_printed, cf_tickets, cf_lost>>
    PROVE  CourseBlank' /\ CourseLock' /\ CourseTaps' /\ CourseLines'
           /\ Courses!FiredIsPrinted' /\ CourseOnce'
<1>1. \A l \in Items :
        /\ l \in new => cf_item'[l] = [course |-> f[l], fired |-> f[l] \in {}]
        /\ l \notin new => cf_item'[l] = IF l \in old THEN Courses!Gone ELSE cf_item[l]
  BY DEF Courses!Insert
<1>2. /\ cf_stamped' = cf_stamped
      /\ cf_reopened' = cf_reopened \cup {c \in cf_stamped : \E l \in new : f[l] = c}
      /\ \A l \in new : l \in Items /\ cf_item[l] = Courses!NoLine
  BY DEF Courses!Insert, Courses!Fresh
<1>3. /\ \A g \in Handlers : \A d : CoursePending(g, d)' <=> CoursePending(g, d)
      /\ \A g \in Handlers : \A d : CoursePending(g, d) => cf_req'[g] = cf_req[g]
      /\ \A g \in Handlers : Courses!At(g, CourseOps, "read")' =>
           cf_req'[g] = cf_req[g] /\ Courses!At(g, CourseOps, "read")
  BY DEF CoursePending, Courses!At, CourseOps
<1>4. ASSUME NEW l \in Courses!Present', l \notin new
      PROVE  l \in Items /\ l \in Courses!Present /\ cf_item'[l] = cf_item[l]
  <2>1. l \in Items /\ cf_item'[l] \in Courses!Line
    BY <1>4 DEF Courses!Present
  <2>2. Courses!Gone \notin Courses!Line
    BY DEF Courses!Line, Courses!Gone
  <2>3. cf_item'[l] = cf_item[l]
    BY <1>1, <1>4, <2>1, <2>2
  <2> QED
    BY <2>1, <2>3 DEF Courses!Present
<1>5. ASSUME NEW l \in new
      PROVE cf_item'[l].course = f[l] /\ ~cf_item'[l].fired /\ cf_printed[l] = 0
  <2>1. l \in Items /\ cf_item[l] = Courses!NoLine
    BY <1>2, <1>5
  <2>2. cf_item'[l] = [course |-> f[l], fired |-> f[l] \in {}]
    BY <1>1, <1>5, <2>1
  <2>3. cf_item'[l].course = f[l]
    BY <2>2
  <2>4. cf_item'[l].fired = (f[l] \in {})
    BY ONLY <2>2
  <2>5. ~cf_item'[l].fired
    BY <2>4
  <2>6. cf_printed[l] = 0
    BY <2>1 DEF CourseIInv, CourseLines
  <2> QED
    BY <2>3, <2>5, <2>6
<1>6. CourseBlank' /\ CourseLock'
  BY DEF CourseIInv, CourseBlank, CourseLock, Courses!At
<1>7. CourseTaps'
  <2>1. ASSUME NEW g \in Handlers, CoursePending(g, cf_req[g].course)'
        PROVE  CoursePending(g, cf_req[g].course) /\ cf_req'[g] = cf_req[g]
    BY <1>3, <2>1 DEF CoursePending, Courses!At
  <2> QED
    BY <2>1 DEF CourseIInv, CourseTaps
<1>8. CourseLines'
  <2>1. ASSUME NEW l \in Items, cf_item'[l] = Courses!NoLine PROVE cf_item[l] = Courses!NoLine
    <3>1. [course |-> f[l], fired |-> f[l] \in {}] # Courses!NoLine
      BY ONLY DEF Courses!NoLine
    <3>2. Courses!Gone # Courses!NoLine
      BY DEF Courses!NoLine, Courses!Gone
    <3> QED
      BY <1>1, <2>1, <3>1, <3>2
  <2>2. ASSUME NEW g \in Handlers, Courses!At(g, CourseOps, "read")', NEW l \in cf_req'[g].seen
        PROVE  cf_item'[l] = Courses!Gone \/ l \in Courses!InCourse(cf_req[g].course)'
    <3>1. cf_req'[g] = cf_req[g] /\ Courses!At(g, CourseOps, "read") /\ l \in Items
      BY <1>3, <2>2, CourseAt DEF CourseIInv, Courses!Request
    <3>2. cf_item[l] = Courses!Gone \/ l \in Courses!InCourse(cf_req[g].course)
      BY <2>2, <3>1 DEF CourseIInv, CourseLines
    <3>3. l \notin new
      BY <1>2, <3>2 DEF Courses!InCourse, Courses!Present, Courses!Line, Courses!NoLine,
         Courses!Gone
    <3>4. cf_item'[l] = Courses!Gone \/ cf_item'[l] = cf_item[l]
      BY <1>1, <3>1, <3>3
    <3> QED
      BY <3>1, <3>2, <3>4 DEF Courses!InCourse, Courses!Present
  <2> QED
    BY <2>1, <2>2 DEF CourseIInv, CourseLines
<1>9. Courses!FiredIsPrinted'
  <2>1. ASSUME NEW l \in Courses!Present', cf_item'[l].fired PROVE l \notin new
    BY <1>5, <2>1
  <2>2. ASSUME NEW g \in Handlers, NEW l \in Courses!Present', l \notin new,
               Courses!WillPrint(g, l)
        PROVE  Courses!WillPrint(g, l)'
    <3>1. CoursePending(g, cf_item[l].course) /\ cf_item'[l] = cf_item[l]
      BY <1>4, <2>2 DEF Courses!WillPrint, CoursePending, CourseOps
    <3> QED
      BY <1>3, <2>2, <3>1 DEF Courses!WillPrint, Courses!At
  <2> QED
    BY <1>4, <2>1, <2>2, CourseFiredKeeps DEF CourseIInv
<1>10. CourseOnce'
  <2> SUFFICES ASSUME NEW d \in Servings
               PROVE  /\ d \notin cf_stamped =>
                          /\ \A l \in Courses!InCourse(d)' : cf_printed[l] = 0
                          /\ \A g \in Handlers : ~CoursePending(g, d)
                      /\ d \in cf_stamped \ cf_reopened' =>
                          /\ Courses!Unfired(d)' = {}
                          /\ \A l \in Courses!InCourse(d)' : cf_printed[l] <= 1
                          /\ \A g \in Handlers : CoursePending(g, d) =>
                               /\ \A l \in Courses!InCourse(d)' : cf_printed[l] = 0
                               /\ \A k \in Handlers : CoursePending(k, d) => k = g
    BY <1>2, <1>3 DEF CourseOnce
  <2>1. ASSUME NEW l \in Courses!InCourse(d)', l \notin new
        PROVE  l \in Courses!InCourse(d)
           /\ (l \in Courses!Unfired(d)' => l \in Courses!Unfired(d))
    BY <1>4, <2>1 DEF Courses!InCourse, Courses!Unfired
  <2>2. CASE d \notin cf_stamped
    BY <1>5, <2>1, <2>2 DEF CourseIInv, CourseOnce
  <2>3. CASE d \in cf_stamped \ cf_reopened'
    <3>1. \A l \in Courses!InCourse(d)' : l \notin new
      BY <1>2, <1>5, <2>3 DEF Courses!InCourse
    <3>2. \A l \in Courses!Unfired(d)' : l \in Courses!InCourse(d)'
      BY DEF Courses!Unfired
    <3>3. d \in cf_stamped \ cf_reopened
      BY <1>2, <2>3
    <3> QED
      BY <2>1, <3>1, <3>2, <3>3 DEF CourseIInv, CourseOnce
  <2> QED
    BY <2>2, <2>3
<1> QED
  BY <1>6, <1>7, <1>8, <1>9, <1>10

\* The order is created with its first course fired, and the ticket still to ask for.
LEMMA CourseCreateKeeps ==
    ASSUME CourseBounds, CourseIInv, NEW h \in Handlers, Courses!Create(h)
    PROVE  CourseBlank' /\ CourseLock' /\ CourseTaps' /\ CourseLines'
           /\ Courses!FiredIsPrinted' /\ CourseOnce'
<1>0. /\ cf_status = "none" /\ cf_status' \in {"open", "paid"}
      /\ \A g \in Handlers : cf_req[g] = Courses!Idle
      /\ \A l \in Items : cf_item[l] = Courses!NoLine
      /\ \A l \in Items : cf_printed[l] = 0
      /\ cf_stamped = {} /\ cf_reopened = {}
      /\ UNCHANGED <<cf_claims, cf_printed, cf_tickets, cf_lost>>
  BY DEF Courses!Create, CourseIInv, CourseBlank, CourseLines, Courses!TypeOK
<1>1. PICK new \in SUBSET Items : \E f \in [new -> Servings] :
        Courses!Insert(new, f, {FirstServing}, {})
  BY DEF Courses!Create
<1>2. PICK f \in [new -> Servings] : Courses!Insert(new, f, {FirstServing}, {})
  BY <1>1
<1>3. /\ \A l \in Items : cf_item'[l] =
           IF l \in new THEN [course |-> f[l], fired |-> f[l] \in {FirstServing}]
                  ELSE cf_item[l]
      /\ cf_stamped' = {FirstServing} /\ cf_reopened' = {}
  BY <1>0, <1>2 DEF Courses!Insert
<1>4. /\ \A g \in Handlers \ {h} : cf_req'[g] = Courses!Idle
      /\ cf_req'[h].op = "create" /\ cf_req'[h].course = FirstServing /\ cf_req'[h].tap = None
      /\ cf_req'[h].step = "stamped" /\ cf_req'[h] # Courses!Idle
  BY <1>0 DEF Courses!Create, Courses!Enter, CourseIInv, Courses!TypeOK, Courses!Idle
<1>5. \A g \in Handlers : \A d : CoursePending(g, d)' <=> g = h /\ d = FirstServing
  BY <1>4 DEF CoursePending, Courses!At, CourseOps
<1>6. CourseBlank' /\ CourseLock' /\ CourseTaps'
  BY <1>0, <1>4, <1>5 DEF CourseIInv, CourseBlank, CourseLock, CourseTaps, Courses!At
<1>7. CourseLines'
  BY <1>0, <1>4 DEF CourseLines, Courses!At
<1>8. \A l \in Items : l \in Courses!Present' =>
        /\ cf_item'[l].course = f[l]
        /\ cf_item'[l].fired <=> f[l] = FirstServing
  <2> SUFFICES ASSUME NEW l \in Items, l \in Courses!Present'
               PROVE  /\ cf_item'[l].course = f[l]
                      /\ cf_item'[l].fired <=> f[l] = FirstServing
    OBVIOUS
  <2>1. Courses!NoLine \notin Courses!Line
    BY DEF Courses!NoLine, Courses!Line
  <2>2. cf_item'[l] \in Courses!Line
    BY DEF Courses!Present
  <2>3. l \in new
    BY <1>0, <1>3, <2>1, <2>2
  <2>4. cf_item'[l] = [course |-> f[l], fired |-> f[l] \in {FirstServing}]
    BY <1>3, <2>3
  <2>5. cf_item'[l].course = f[l]
    BY ONLY <2>4
  <2>6. cf_item'[l].fired = (f[l] \in {FirstServing})
    BY ONLY <2>4
  <2> QED
    BY <2>5, <2>6
<1>9. Courses!Present' \subseteq Items /\ \A d : Courses!InCourse(d)' \subseteq Courses!Present'
  BY DEF Courses!Present, Courses!InCourse
<1>10. Courses!FiredIsPrinted'
  <2>1. ASSUME NEW l \in Courses!Present', cf_item'[l].fired PROVE Courses!WillPrint(h, l)'
    BY <1>4, <1>8, <1>9, <2>1 DEF Courses!WillPrint, Courses!At
  <2> QED
    BY <2>1 DEF Courses!FiredIsPrinted
<1>11. CourseOnce'
  <2>1. Courses!Unfired(FirstServing)' = {}
    BY <1>8, <1>9 DEF Courses!Unfired, Courses!InCourse
  <2>2. \A d : \A l \in Courses!InCourse(d)' : cf_printed'[l] = 0
    BY <1>0, <1>9
  <2> QED
    BY <1>3, <1>5, <2>1, <2>2 DEF CourseOnce
<1> QED
  BY <1>6, <1>7, <1>10, <1>11

\* The invariant but for the types.
CourseRest ==
    CourseBlank /\ CourseLock /\ CourseTaps /\ CourseLines /\ Courses!FiredIsPrinted
       /\ CourseOnce

LEMMA CourseNextIInv ==
    ASSUME CourseBounds, CourseIInv, [Courses!Next]_(Courses!vars) PROVE CourseIInv'
<1>1. CASE UNCHANGED Courses!vars
  <2>1. \A h \in Handlers : \A op, step : Courses!At(h, op, step)' <=> Courses!At(h, op, step)
    BY <1>1 DEF Courses!vars, Courses!At
  <2> QED
    BY <1>1, <2>1 DEF Courses!vars, CourseIInv, Courses!TypeOK, CourseBlank, CourseLock,
       CourseTaps, CourseLines, CourseOnce, CoursePending, Courses!FiredIsPrinted,
       Courses!WillPrint, Courses!InCourse, Courses!Unfired, Courses!Present
<1>2. CASE Courses!Next
  <2>0. Courses!TypeOK'
    BY <1>2, CourseTypeStep DEF CourseIInv
  <2>1. ASSUME NEW h \in Handlers, Courses!Create(h) PROVE CourseRest'
    BY <2>1, CourseCreateKeeps DEF CourseRest
  <2>2. ASSUME NEW h \in Handlers, Courses!FireStamp(h) PROVE CourseRest'
    BY <2>2, CourseStampKeeps DEF CourseRest
  <2>3. ASSUME NEW h \in Handlers, Courses!ReadBack(h) PROVE CourseRest'
    BY <2>3, CourseReadBackKeeps DEF CourseRest
  <2>4. ASSUME NEW h \in Handlers, Courses!PrintCourse(h) PROVE CourseRest'
    BY <2>4, CoursePrintKeeps DEF CourseRest
  <2>5. ASSUME NEW h \in Handlers, Courses!PrintFails(h) \/ Courses!Die(h) PROVE CourseRest'
    BY <2>5, CourseLeaveKeeps DEF CourseRest
  <2>6. ASSUME NEW h \in Handlers, Courses!EditRead(h)
               \/ \E c \in Servings, t \in Taps \cup {None} : Courses!FireBegin(h, c, t)
        PROVE  CourseRest'
    BY <2>6, CourseEnterKeeps DEF CourseRest
  <2>7. ASSUME NEW h \in Handlers, Courses!EditCommit(h) PROVE CourseRest'
    <3>1. PICK new \in SUBSET Courses!Fresh : \E f \in [new -> Servings] :
            Courses!Insert(new, f, {}, Courses!Present)
      BY <2>7 DEF Courses!EditCommit
    <3>2. PICK f \in [new -> Servings] : Courses!Insert(new, f, {}, Courses!Present)
      BY <3>1
    <3>3. cf_status # "none" /\ cf_status' = cf_status
      BY <2>7 DEF Courses!EditCommit, CourseIInv, CourseBlank, Courses!At
    <3>4. /\ \A g \in Handlers \ {h} : cf_req'[g] = cf_req[g]
          /\ cf_req'[h] = Courses!Idle /\ Courses!At(h, {"edit"}, "locked")
          /\ UNCHANGED <<cf_claims, cf_printed, cf_tickets, cf_lost>>
      BY <2>7 DEF Courses!EditCommit, Courses!Leave, CourseIInv, Courses!TypeOK
    <3>5. \A g \in Handlers : \/ cf_req'[g] = cf_req[g]
                              \/ cf_req'[g] = Courses!Idle /\ Courses!At(g, {"edit"}, "locked")
      BY <3>4
    <3> QED
      BY <3>2, <3>3, <3>4, <3>5, CourseInsertKeeps DEF CourseRest
  <2>8. ASSUME Courses!AppendLines PROVE CourseRest'
    <3>1. PICK l \in Courses!Fresh : \E f \in [{l} -> Servings] :
            Courses!Insert({l}, f, {}, {})
      BY <2>8 DEF Courses!AppendLines
    <3>2. PICK f \in [{l} -> Servings] : Courses!Insert({l}, f, {}, {})
      BY <3>1
    <3>3. /\ cf_status # "none" /\ cf_status' = cf_status /\ {l} \in SUBSET Courses!Fresh
          /\ UNCHANGED <<cf_claims, cf_req, cf_printed, cf_tickets, cf_lost>>
      BY <2>8, <3>1 DEF Courses!AppendLines
    <3>4. {} \in {{}, Courses!Present} /\ \A g \in Handlers : cf_req'[g] = cf_req[g]
      BY <3>3
    <3> QED
      BY <3>2, <3>3, <3>4, CourseInsertKeeps DEF CourseRest
  <2>9. ASSUME Courses!Pay \/ Courses!Shut PROVE CourseRest'
    BY <2>9, CoursePayKeeps DEF CourseRest
  <2>10. CourseRest'
    BY <1>2, <2>1, <2>2, <2>3, <2>4, <2>5, <2>6, <2>7, <2>8, <2>9 DEF Courses!Next
  <2> QED
    BY <2>0, <2>10 DEF CourseIInv, CourseRest
<1> QED
  BY <1>1, <1>2 DEF Courses!vars

LEMMA CourseIInvFollows == CourseIInv => Courses!KitchenFollowsFires
<1> SUFFICES ASSUME CourseIInv PROVE Courses!KitchenFollowsFires
  OBVIOUS
<1>1. Courses!TapPrintsOnce
  BY DEF CourseIInv, CourseTaps, Courses!TapPrintsOnce
<1>2. Courses!NoReprint
  <2> SUFFICES ASSUME NEW l \in Courses!Present, cf_item[l].course \notin cf_reopened
               PROVE  cf_printed[l] <= 1
    BY DEF Courses!NoReprint
  <2>1. l \in Courses!InCourse(cf_item[l].course) /\ cf_item[l].course \in Servings
    BY DEF Courses!InCourse, Courses!Present, Courses!Line
  <2>2. CASE cf_item[l].course \in cf_stamped
    BY <2>1, <2>2 DEF CourseIInv, CourseOnce
  <2>3. CASE cf_item[l].course \notin cf_stamped
    <3>1. cf_printed[l] = 0
      BY <2>1, <2>3 DEF CourseIInv, CourseOnce
    <3> QED
      BY <3>1
  <2> QED
    BY <2>2, <2>3
<1> QED
  BY <1>1, <1>2 DEF CourseIInv, Courses!KitchenFollowsFires

\* A paid order is not stamped: the fire that would do it holds the lock, and the
\* payment waited for the lock.
LEMMA CourseStampsUnpaid ==
    ASSUME CourseIInv, Courses!Next, cf_status = "paid" PROVE cf_stamped' = cf_stamped
<1>1. ASSUME NEW h \in Handlers PROVE ~Courses!Create(h) /\ ~Courses!FireStamp(h)
  BY DEF Courses!Create, Courses!FireStamp, CourseIInv, CourseLock
<1>2. ASSUME NEW new, NEW f, NEW old, Courses!Insert(new, f, {}, old)
      PROVE  cf_stamped' = cf_stamped
  BY <1>2 DEF Courses!Insert
<1>3. CASE Courses!AppendLines \/ \E h \in Handlers : Courses!EditCommit(h)
  BY <1>2, <1>3 DEF Courses!AppendLines, Courses!EditCommit
<1>4. CASE \E h \in Handlers :
             \/ Courses!ReadBack(h) \/ Courses!PrintCourse(h) \/ Courses!PrintFails(h)
             \/ Courses!Die(h) \/ Courses!EditRead(h)
             \/ \E c \in Servings, t \in Taps \cup {None} : Courses!FireBegin(h, c, t)
  BY <1>4 DEF Courses!ReadBack, Courses!PrintCourse, Courses!PrintFails, Courses!Die,
     Courses!EditRead, Courses!FireBegin, Courses!history
<1>5. CASE Courses!Pay \/ Courses!Shut
  BY <1>5 DEF Courses!Pay, Courses!Shut, Courses!history
<1> QED
  BY <1>1, <1>3, <1>4, <1>5 DEF Courses!Next

\* The composition starts as course firing does, and each of its steps is one of
\* course firing or leaves it alone.
LEMMA CourseStarts == Init => Courses!Init
  BY DEF Init

LEMMA CourseSteps == [Next]_vars => [Courses!Next]_(Courses!vars)
  BY DEF Next, VoiceNext, MarketNext, StripeNext, RefundsNext, CoursesNext,
     vars, CoursesVars, Courses!vars

LEMMA CourseStampsUnpaidOrNot ==
    ASSUME CourseIInv, [Next]_vars
    PROVE  [cf_status = "paid" => cf_stamped' = cf_stamped]_(Courses!vars)
  BY CourseSteps, CourseStampsUnpaid

\* Course firing among the other parts of the back end, for any number of handlers,
\* taps, lines and courses: a tap puts at most one ticket in the kitchen, no fired line
\* is missed but by a handler that died or failed to queue, no course is cooked twice
\* unless it was reopened, and no step stamps a line of a paid order.
THEOREM FiresAreKeptAll == Spec => FiresAreKept
<1>1. Init => CourseIInv
  BY CourseStarts, CourseInitIInv, CourseAssumption
<1>2. CourseIInv /\ [Next]_vars => CourseIInv'
  BY CourseSteps, CourseNextIInv, CourseAssumption
<1>3. CourseIInv /\ [Next]_vars
         => [cf_status = "paid" => cf_stamped' = cf_stamped]_(Courses!vars)
  BY CourseStampsUnpaidOrNot
<1>4. CourseIInv => Courses!KitchenFollowsFires
  BY CourseIInvFollows
<1>5. Spec => [][Courses!KitchenFollowsFires'
         /\ (cf_status = "paid" => cf_stamped' = cf_stamped)]_(Courses!vars)
  BY <1>1, <1>2, <1>3, <1>4, PTL DEF Spec
<1> QED
  BY <1>5 DEF FiresAreKept, Courses!FiresAreKept
--------------------------------------------------------------------------------
\* Voice orders.
\* Nothing was lost of key k's mark, and no two jobs of it set the mark.
VoiceClean(k) == vo_spoiled[k] \cap {"blind", "raced"} = {}

\* The job is past the check, or has been.
VoicePassed(r) == vo_orders[r] > 0 \/ vo_job[r] \in {"resolve", "created"}

\* Attempts and deaths are counted, and every order but the last one was paid for
\* with one of them.
VoiceCounts ==
    /\ vo_tries \in [Calls -> [failed : 0..MaxAttempts, stalled : 0..(MaxStalls + 1)]]
    /\ \A r \in Calls :
        /\ vo_job[r] \notin Voice!Over =>
             /\ vo_tries[r].failed < MaxAttempts /\ vo_tries[r].stalled <= MaxStalls
             /\ vo_orders[r] <= vo_tries[r].failed + vo_tries[r].stalled
                                + IF vo_job[r] = "created" THEN 1 ELSE 0
        /\ vo_job[r] \in {"created", "done"} => vo_orders[r] > 0
        /\ vo_job[r] \in {"check", "mark"} => vo_key[r] \in CallKeys
        /\ vo_http[r] \in {"new", "reserved"} => vo_job[r] = "none"

\* A clean key without a mark has no job past the check; with a mark it has one at
\* most, which has made one order at most and makes no second one.
VoiceOnce ==
    \A k \in CallKeys : VoiceClean(k) =>
        /\ k \notin vo_marks => \A r \in Calls : vo_key[r] = k => ~VoicePassed(r)
        /\ \A r, q \in Calls :
             vo_key[r] = k /\ vo_key[q] = k /\ VoicePassed(r) /\ VoicePassed(q) => r = q
        /\ \A r \in Calls : vo_key[r] = k =>
             /\ vo_orders[r] <= 1
             /\ vo_job[r] = "resolve" => vo_orders[r] = 0

\* What a skipped job relies on: its key is ordered, an attempt at it failed, or a
\* job of it is about to order.
VoiceFate(k) ==
    \/ Voice!Ordered(k)
    \/ vo_spoiled[k] \cap {"tripped", "rejected"} # {}
    \/ \E q \in Calls : vo_key[q] = k /\ vo_job[q] = "resolve"
VoiceFates ==
    \A k \in CallKeys :
        k \in vo_marks \/ (\E r \in Calls : vo_key[r] = k /\ vo_job[r] \in Voice!Over)
            => VoiceFate(k)

\* A reserved key has a job, or a request that is about to add one or told the
\* agent of its failure.
VoiceCovered(k) ==
    \/ "stranded" \in vo_spoiled[k]
    \/ \E q \in Calls :
         /\ vo_key[q] = k
         /\ vo_job[q] # "none" \/ vo_http[q] \in {"reserved", "releasing", "failed"}
VoiceCover ==
    /\ \A k \in CallKeys : vo_event[k] # "none" => VoiceCovered(k)
    /\ \A r \in Calls : vo_http[r] = "duplicate" =>
         vo_key[r] \in CallKeys /\ VoiceCovered(vo_key[r])

\* The inductive invariant.
VoiceIInv ==
    Voice!TypeOK /\ VoiceCounts /\ VoiceOnce /\ VoiceFates /\ VoiceCover

\* A step of the request or of its job.
VoiceStep(r) ==
    \/ Voice!Reserve(r) \/ Voice!Enqueue(r) \/ Voice!EnqueueFails(r) \/ Voice!Release(r)
    \/ Voice!HandlerDies(r) \/ Voice!Take(r) \/ Voice!Check(r) \/ Voice!Mark(r)
    \/ Voice!CacheFails(r) \/ Voice!CreateOrder(r) \/ Voice!Complete(r) \/ Voice!Reject(r)
    \/ Voice!AttemptFails(r) \/ Voice!WorkerDies(r)

LEMMA VoiceInitIInv == ASSUME VoiceBounds, Voice!Init PROVE VoiceIInv
  BY DEF VoiceBounds, Voice!Init, VoiceIInv, Voice!TypeOK, VoiceCounts, VoiceOnce, VoicePassed,
     VoiceFates, VoiceCover, Voice!Over, Voice!Answers, Voice!Active, Voice!Mishaps

\* The counters and the rest keep their types.
LEMMA VoiceTypeStep ==
    ASSUME VoiceBounds, Voice!TypeOK, VoiceCounts, NEW r \in Calls, VoiceStep(r)
    PROVE  Voice!TypeOK' /\ VoiceCounts'
<1> USE DEF Voice!TypeOK, VoiceCounts, VoiceBounds, Voice!Mishaps, Voice!Answer, Voice!JobTo,
       Voice!Spoil, Voice!Active, Voice!Over, Voice!Answers
<1>1. CASE Voice!Reserve(r)
  <2>1. \/ Voice!Answer(r, "reserved") /\ UNCHANGED vo_event
        \/ Voice!Answer(r, "duplicate") /\ UNCHANGED vo_event
        \/ /\ Voice!Answer(r, "reserved") /\ vo_key[r] \in CallKeys
           /\ vo_event' = [vo_event EXCEPT ![vo_key[r]] = "pending"]
    BY <1>1 DEF Voice!Reserve
  <2>2. UNCHANGED <<vo_key, vo_job, vo_tries, vo_marks, vo_orders, vo_spoiled>>
    BY <1>1 DEF Voice!Reserve
  <2>3. vo_http' \in [Calls -> {"new", "reserved", "releasing"} \cup Voice!Answers]
    BY <2>1
  <2>4. vo_event' \in [CallKeys -> {"none", "pending", "completed"}]
    BY <2>1
  <2>5. \A q \in Calls :
          vo_http'[q] \in {"new", "reserved"} => vo_http[q] \in {"new", "reserved"}
    <3>1. vo_http[r] = "new" /\ \A q \in Calls \ {r} : vo_http'[q] = vo_http[q]
      BY <1>1, <2>1 DEF Voice!Reserve
    <3> QED
      BY <3>1
  <2> QED
    BY <2>2, <2>3, <2>4, <2>5
<1>2. CASE Voice!Enqueue(r)
  BY <1>2 DEF Voice!Enqueue
<1>3. CASE Voice!EnqueueFails(r)
  BY <1>3 DEF Voice!EnqueueFails
<1>4. CASE Voice!Release(r)
  BY <1>4 DEF Voice!Release
<1>5. CASE Voice!HandlerDies(r)
  BY <1>5 DEF Voice!HandlerDies
<1>6. CASE Voice!Take(r)
  BY <1>6 DEF Voice!Take
<1>7. CASE Voice!Check(r)
  BY <1>7 DEF Voice!Check
<1>8. CASE Voice!Mark(r)
  BY <1>8 DEF Voice!Mark
<1>9. CASE Voice!CacheFails(r)
  BY <1>9 DEF Voice!CacheFails
<1>10. CASE Voice!CreateOrder(r)
  BY <1>10 DEF Voice!CreateOrder
<1>11. CASE Voice!Complete(r)
  BY <1>11 DEF Voice!Complete
<1>12. CASE Voice!Reject(r)
  BY <1>12 DEF Voice!Reject
<1>13. CASE Voice!AttemptFails(r)
  BY <1>13 DEF Voice!AttemptFails
<1>14. CASE Voice!WorkerDies(r)
  BY <1>14 DEF Voice!WorkerDies
<1> QED
  BY <1>1, <1>2, <1>3, <1>4, <1>5, <1>6, <1>7, <1>8, <1>9, <1>10, <1>11, <1>12, <1>13, <1>14
     DEF VoiceStep

\* One job of a clean key passes the check.
LEMMA VoiceOnceStep ==
    ASSUME VoiceBounds, Voice!TypeOK, VoiceCounts, VoiceOnce, NEW r \in Calls, VoiceStep(r)
    PROVE  VoiceOnce'
<1> USE DEF Voice!TypeOK, VoiceCounts, VoiceOnce, VoiceClean, VoicePassed, VoiceBounds,
       Voice!Answer, Voice!JobTo, Voice!Spoil, Voice!Active, Voice!Over, Voice!Answers
<1>1. CASE Voice!Reserve(r)
  BY <1>1 DEF Voice!Reserve
<1>2. CASE Voice!Enqueue(r)
  BY <1>2 DEF Voice!Enqueue
<1>3. CASE Voice!EnqueueFails(r)
  BY <1>3 DEF Voice!EnqueueFails
<1>4. CASE Voice!Release(r)
  BY <1>4 DEF Voice!Release
<1>5. CASE Voice!HandlerDies(r)
  BY <1>5 DEF Voice!HandlerDies
<1>6. CASE Voice!Take(r)
  BY <1>6 DEF Voice!Take
<1>7. CASE Voice!Check(r)
  BY <1>7 DEF Voice!Check
<1>8. CASE Voice!Mark(r)
  <2>1. /\ vo_job[r] = "mark" /\ vo_job' = [vo_job EXCEPT ![r] = "resolve"]
        /\ vo_marks' = vo_marks \cup {vo_key[r]} /\ vo_key[r] \in CallKeys
        /\ vo_key[r] \in vo_marks => "raced" \in vo_spoiled'[vo_key[r]]
        /\ UNCHANGED <<vo_key, vo_orders>>
    BY <1>8 DEF Voice!Mark
  <2>2. \A k \in CallKeys : VoiceClean(k)' => VoiceClean(k)
    BY <1>8 DEF Voice!Mark
  <2>3. \A q \in Calls \ {r} : VoicePassed(q)' <=> VoicePassed(q)
    BY <2>1
  <2>4. ASSUME NEW k \in CallKeys, VoiceClean(k)', k # vo_key[r]
        PROVE  /\ k \notin vo_marks' => \A q \in Calls : vo_key'[q] = k => ~VoicePassed(q)'
               /\ \A q, p \in Calls :
                    vo_key'[q] = k /\ vo_key'[p] = k /\ VoicePassed(q)' /\ VoicePassed(p)'
                       => q = p
               /\ \A q \in Calls : vo_key'[q] = k =>
                    /\ vo_orders'[q] <= 1
                    /\ vo_job'[q] = "resolve" => vo_orders'[q] = 0
    BY <2>1, <2>2, <2>4
  <2>5. ASSUME VoiceClean(vo_key[r])'
        PROVE  \A q \in Calls : vo_key[q] = vo_key[r] => ~VoicePassed(q) /\ vo_orders[q] = 0
    <3>1. vo_key[r] \notin vo_marks /\ VoiceClean(vo_key[r])
      BY <2>1, <2>2, <2>5
    <3> QED
      BY <2>1, <3>1
  <2> HIDE DEF VoicePassed, VoiceClean
  <2>6. \A q \in Calls \ {r} : vo_job'[q] = vo_job[q]
    BY <2>1
  <2>7. ASSUME NEW q \in Calls, VoiceClean(vo_key[r])', vo_key[q] = vo_key[r]
        PROVE  vo_orders[q] = 0 /\ (q # r => ~VoicePassed(q)')
    BY <2>3, <2>5, <2>7
  <2>8. ASSUME NEW k \in CallKeys, VoiceClean(k)', k = vo_key[r]
        PROVE  /\ k \notin vo_marks' => \A q \in Calls : vo_key'[q] = k => ~VoicePassed(q)'
               /\ \A q, p \in Calls :
                    vo_key'[q] = k /\ vo_key'[p] = k /\ VoicePassed(q)' /\ VoicePassed(p)'
                       => q = p
               /\ \A q \in Calls : vo_key'[q] = k =>
                    /\ vo_orders'[q] <= 1
                    /\ vo_job'[q] = "resolve" => vo_orders'[q] = 0
    BY <2>1, <2>7, <2>8
  <2> QED
    BY <2>4, <2>8
<1>9. CASE Voice!CacheFails(r)
  <2>1. /\ vo_job[r] \in {"check", "mark"} /\ vo_key[r] \in CallKeys
        /\ \A q \in Calls \ {r} : vo_job'[q] = vo_job[q]
        /\ \A k \in CallKeys \ {vo_key[r]} : k \in vo_marks' <=> k \in vo_marks
        /\ UNCHANGED <<vo_key, vo_orders>>
    BY <1>9 DEF Voice!CacheFails
  <2>2. vo_spoiled' = [vo_spoiled EXCEPT ![vo_key[r]] = @ \cup {"blind"}]
    BY <1>9, <2>1 DEF Voice!CacheFails
  <2>3. \A k \in CallKeys : VoiceClean(k)' => VoiceClean(k) /\ k # vo_key[r]
    BY <2>2
  <2>4. \A q \in Calls \ {r} : VoicePassed(q)' <=> VoicePassed(q)
    BY <2>1
  <2> HIDE DEF VoicePassed, VoiceClean
  <2> QED
    BY <2>1, <2>3, <2>4
<1>10. CASE Voice!CreateOrder(r)
  BY <1>10 DEF Voice!CreateOrder
<1>11. CASE Voice!Complete(r)
  BY <1>11 DEF Voice!Complete
<1>12. CASE Voice!Reject(r)
  BY <1>12 DEF Voice!Reject
<1>13. CASE Voice!AttemptFails(r)
  BY <1>13 DEF Voice!AttemptFails
<1>14. CASE Voice!WorkerDies(r)
  BY <1>14 DEF Voice!WorkerDies
<1> QED
  BY <1>1, <1>2, <1>3, <1>4, <1>5, <1>6, <1>7, <1>8, <1>9, <1>10, <1>11, <1>12, <1>13, <1>14
     DEF VoiceStep

\* A job that ends leaves its key ordered, refused, tripped or in good hands.
LEMMA VoiceFatesStep ==
    ASSUME VoiceBounds, Voice!TypeOK, VoiceCounts, VoiceFates, NEW r \in Calls, VoiceStep(r)
    PROVE  VoiceFates'
<1> USE DEF Voice!TypeOK, VoiceCounts, VoiceFates, VoiceFate, Voice!Ordered, VoiceBounds,
       Voice!Answer, Voice!JobTo, Voice!Spoil, Voice!Active, Voice!Over, Voice!Answers
<1>1. CASE Voice!Reserve(r)
  BY <1>1 DEF Voice!Reserve
<1>2. CASE Voice!Enqueue(r)
  BY <1>2 DEF Voice!Enqueue
<1>3. CASE Voice!EnqueueFails(r)
  BY <1>3 DEF Voice!EnqueueFails
<1>4. CASE Voice!Release(r)
  BY <1>4 DEF Voice!Release
<1>5. CASE Voice!HandlerDies(r)
  BY <1>5 DEF Voice!HandlerDies
<1>6. CASE Voice!Take(r)
  BY <1>6 DEF Voice!Take
<1>7. CASE Voice!Check(r)
  BY <1>7 DEF Voice!Check
<1>8. CASE Voice!Mark(r)
  BY <1>8 DEF Voice!Mark
<1>9. CASE Voice!CacheFails(r)
  BY <1>9 DEF Voice!CacheFails
<1>10. CASE Voice!CreateOrder(r)
  BY <1>10 DEF Voice!CreateOrder
<1>11. CASE Voice!Complete(r)
  <2>1. /\ UNCHANGED <<vo_key, vo_marks, vo_orders, vo_spoiled>>
        /\ \A q \in Calls \ {r} : vo_job'[q] = vo_job[q]
        /\ vo_job[r] = "created" /\ vo_orders[r] > 0
    BY <1>11 DEF Voice!Complete
  <2>2. ASSUME NEW k \in CallKeys, k = vo_key[r] PROVE VoiceFate(k)'
    BY <2>1, <2>2
  <2>3. ASSUME NEW k \in CallKeys, k # vo_key[r], VoiceFate(k) PROVE VoiceFate(k)'
    BY <2>1, <2>3
  <2> HIDE DEF VoiceFate
  <2> QED
    BY <2>1, <2>2, <2>3
<1>12. CASE Voice!Reject(r)
  <2>1. /\ UNCHANGED <<vo_key, vo_marks, vo_orders>>
        /\ \A q \in Calls \ {r} : vo_job'[q] = vo_job[q]
        /\ vo_spoiled' = IF vo_key[r] = None THEN vo_spoiled
                         ELSE [vo_spoiled EXCEPT ![vo_key[r]] = @ \cup {"rejected"}]
    BY <1>12 DEF Voice!Reject
  <2>2. ASSUME NEW k \in CallKeys, k = vo_key[r] PROVE VoiceFate(k)'
    BY <2>1, <2>2
  <2>3. ASSUME NEW k \in CallKeys, k # vo_key[r], VoiceFate(k) PROVE VoiceFate(k)'
    BY <2>1, <2>3
  <2> HIDE DEF VoiceFate
  <2> QED
    BY <2>1, <2>2, <2>3
<1>13. CASE Voice!AttemptFails(r)
  <2>1. /\ UNCHANGED <<vo_key, vo_marks, vo_orders>>
        /\ \A q \in Calls \ {r} : vo_job'[q] = vo_job[q]
        /\ vo_spoiled' = IF vo_key[r] = None THEN vo_spoiled
                         ELSE [vo_spoiled EXCEPT ![vo_key[r]] = @ \cup {"tripped"}]
    BY <1>13 DEF Voice!AttemptFails
  <2>2. ASSUME NEW k \in CallKeys, k = vo_key[r] PROVE VoiceFate(k)'
    BY <2>1, <2>2
  <2>3. ASSUME NEW k \in CallKeys, k # vo_key[r], VoiceFate(k) PROVE VoiceFate(k)'
    BY <2>1, <2>3
  <2> HIDE DEF VoiceFate
  <2> QED
    BY <2>1, <2>2, <2>3
<1>14. CASE Voice!WorkerDies(r)
  <2>1. /\ UNCHANGED <<vo_key, vo_marks, vo_orders>>
        /\ \A q \in Calls \ {r} : vo_job'[q] = vo_job[q]
        /\ vo_spoiled' = IF vo_key[r] = None THEN vo_spoiled
                         ELSE [vo_spoiled EXCEPT ![vo_key[r]] = @ \cup {"tripped"}]
    BY <1>14 DEF Voice!WorkerDies
  <2>2. ASSUME NEW k \in CallKeys, k = vo_key[r] PROVE VoiceFate(k)'
    BY <2>1, <2>2
  <2>3. ASSUME NEW k \in CallKeys, k # vo_key[r], VoiceFate(k) PROVE VoiceFate(k)'
    BY <2>1, <2>3
  <2> HIDE DEF VoiceFate
  <2> QED
    BY <2>1, <2>2, <2>3
<1> QED
  BY <1>1, <1>2, <1>3, <1>4, <1>5, <1>6, <1>7, <1>8, <1>9, <1>10, <1>11, <1>12, <1>13, <1>14
     DEF VoiceStep

\* A reservation is never without a job or a request that answers for it.
LEMMA VoiceCoverStep ==
    ASSUME VoiceBounds, Voice!TypeOK, VoiceCover, NEW r \in Calls, VoiceStep(r)
    PROVE  VoiceCover'
<1> USE DEF Voice!TypeOK, VoiceCover, VoiceCovered, VoiceBounds, Voice!Answer, Voice!JobTo,
       Voice!Spoil, Voice!Active, Voice!Over, Voice!Answers
<1>1. CASE Voice!Reserve(r)
  BY <1>1 DEF Voice!Reserve
<1>2. CASE Voice!Enqueue(r)
  BY <1>2 DEF Voice!Enqueue
<1>3. CASE Voice!EnqueueFails(r)
  BY <1>3 DEF Voice!EnqueueFails
<1>4. CASE Voice!Release(r)
  BY <1>4 DEF Voice!Release
<1>5. CASE Voice!HandlerDies(r)
  BY <1>5 DEF Voice!HandlerDies
<1>6. CASE Voice!Take(r)
  BY <1>6 DEF Voice!Take
<1>7. CASE Voice!Check(r)
  BY <1>7 DEF Voice!Check
<1>8. CASE Voice!Mark(r)
  BY <1>8 DEF Voice!Mark
<1>9. CASE Voice!CacheFails(r)
  BY <1>9 DEF Voice!CacheFails
<1>10. CASE Voice!CreateOrder(r)
  BY <1>10 DEF Voice!CreateOrder
<1>11. CASE Voice!Complete(r)
  BY <1>11 DEF Voice!Complete
<1>12. CASE Voice!Reject(r)
  BY <1>12 DEF Voice!Reject
<1>13. CASE Voice!AttemptFails(r)
  BY <1>13 DEF Voice!AttemptFails
<1>14. CASE Voice!WorkerDies(r)
  BY <1>14 DEF Voice!WorkerDies
<1> QED
  BY <1>1, <1>2, <1>3, <1>4, <1>5, <1>6, <1>7, <1>8, <1>9, <1>10, <1>11, <1>12, <1>13, <1>14
     DEF VoiceStep


\* A mark that is lost spoils its key.
LEMMA VoiceEvictStep == ASSUME VoiceBounds, VoiceIInv, NEW k \in CallKeys, Voice!Evict(k)
   PROVE VoiceIInv'
<1> USE DEF Voice!Evict, Voice!Spoil, Voice!TypeOK, Voice!Mishaps, VoiceIInv
<1>1. Voice!TypeOK'
  OBVIOUS
<1>2. VoiceCounts'
  BY DEF VoiceCounts
<1>3. VoiceOnce'
  <2>1. \A d \in CallKeys : VoiceClean(d)' => VoiceClean(d) /\ d # k
    BY DEF VoiceClean, VoiceBounds
  <2>2. \A r : VoicePassed(r)' <=> VoicePassed(r)
    BY DEF VoicePassed
  <2> QED
    BY <2>1, <2>2 DEF VoiceOnce
<1>4. VoiceFates'
  BY DEF VoiceFates, VoiceFate, Voice!Ordered
<1>5. VoiceCover'
  BY DEF VoiceCover, VoiceCovered
<1> QED
  BY <1>1, <1>2, <1>3, <1>4, <1>5

LEMMA VoiceNextIInv ==
    ASSUME VoiceBounds, VoiceIInv, [Voice!Next]_(Voice!vars) PROVE VoiceIInv'
<1>1. ASSUME NEW r \in Calls, VoiceStep(r) PROVE VoiceIInv'
  BY <1>1, VoiceTypeStep, VoiceOnceStep, VoiceFatesStep, VoiceCoverStep DEF VoiceIInv
<1>2. ASSUME NEW k \in CallKeys, Voice!Evict(k) PROVE VoiceIInv'
  BY <1>2, VoiceEvictStep
<1>3. CASE UNCHANGED Voice!vars
  BY SMTT(30), <1>3 DEF Voice!vars, VoiceIInv, Voice!TypeOK, VoiceCounts, VoiceOnce,
     VoiceClean, VoicePassed, VoiceFates, VoiceFate, Voice!Ordered, VoiceCover, VoiceCovered
<1> QED
  BY <1>1, <1>2, <1>3 DEF Voice!Next, Voice!Handler, Voice!Worker, VoiceStep

LEMMA VoiceIInvHolds == ASSUME VoiceBounds, VoiceIInv PROVE Voice!CallsBecomeOrders
<1>1. Voice!OneOrderPerCall
  BY DEF VoiceIInv, VoiceOnce, VoiceClean, VoicePassed, Voice!OneOrderPerCall, Voice!TypeOK
<1>2. Voice!ConfirmedIsOrdered
  BY DEF VoiceIInv, VoiceFates, VoiceFate, VoiceCounts, Voice!ConfirmedIsOrdered,
     Voice!TypeOK, Voice!Active
<1>3. Voice!DuplicateIsCovered
  BY DEF VoiceIInv, VoiceCover, VoiceCovered, Voice!DuplicateIsCovered
<1> QED
  BY <1>1, <1>2, <1>3 DEF Voice!CallsBecomeOrders

\* The composition starts as the voice orders do, and each of its steps is one of
\* theirs or leaves them alone.
LEMMA VoiceStarts == Init => Voice!Init
  BY DEF Init

LEMMA VoiceSteps == [Next]_vars => [Voice!Next]_(Voice!vars)
  BY DEF Next, VoiceNext, MarketNext, StripeNext, RefundsNext, CoursesNext,
     vars, VoiceVars, Voice!vars

\* Voice orders among the other parts of the back end, for any number of requests, keys,
\* attempts and stalls: one order for a call whose mark was neither lost nor raced, a
\* job that ends without one was refused or tripped, and a duplicate is answered for.
THEOREM CallsBecomeOrdersAll == Spec => []CallsBecomeOrders
<1>1. Init => VoiceIInv
  BY VoiceStarts, VoiceAssumption, VoiceInitIInv
<1>2. VoiceIInv /\ [Next]_vars => VoiceIInv'
  BY VoiceSteps, VoiceAssumption, VoiceNextIInv
<1>3. VoiceIInv => CallsBecomeOrders
  BY VoiceAssumption, VoiceIInvHolds DEF CallsBecomeOrders
<1> QED
  BY <1>1, <1>2, <1>3, PTL DEF Spec
--------------------------------------------------------------------------------
\* The mirror of Stripe's events: what Stripe knows of a subscription, and its events.
StripeState == [status : {"active", "past_due", "canceled"}, plan : Plans]
StripeNews  == [kind : {"checkout", "updated", "deleted"}, sub : Subs, cust : Subs,
   data : StripeState]

\* The types, with Stripe's plans never free.
StripeTypes ==
    /\ se_stripe \in [Subs -> {Stripe!NoSub} \cup [cust : Subs, data : StripeState]]
    /\ se_sent \in Seq(StripeNews) /\ Len(se_sent) <= MaxEvents
    /\ se_hook \in [Stripe!Numbers -> {"none", "processing", "completed", "failed"}]
    /\ se_handler \in [Stripe!Numbers -> {Stripe!Idle} \cup
         [step : {"retrieve", "find", "write", "done"}, data : StripeState,
          key : {"sub", "cust", "org", "none"}]]
    /\ se_row \in [Rows -> {Stripe!NoRow} \cup
         [sub : Subs \cup {None}, cust : Subs \cup {None}, data : Stripe!Data]]
    /\ se_had \in [Subs -> SUBSET Plans]

\* The last event of its subscription.
StripeLast(n) == \A m \in Stripe!Sent : se_sent[m].sub = se_sent[n].sub => m <= n

\* What Stripe knows of a subscription is what its last event tells; nothing is told
\* of it once it has ended.
StripeTold ==
    /\ \A s \in Subs : se_stripe[s] # Stripe!NoSub =>
         /\ se_stripe[s].data.plan \in se_had[s]
         /\ \E n \in Stripe!Sent : se_sent[n].sub = s /\ StripeLast(n)
    /\ \A n \in Stripe!Sent :
         /\ se_stripe[se_sent[n].sub] # Stripe!NoSub
         /\ se_sent[n].data.plan \in se_had[se_sent[n].sub]
         /\ se_sent[n].data.status = "canceled" <=> se_sent[n].kind = "deleted"
         /\ se_sent[n].kind = "deleted" => se_stripe[se_sent[n].sub].data.status = "canceled"
         /\ StripeLast(n) => se_sent[n].data = se_stripe[se_sent[n].sub].data

\* A handler works on a claimed event, with what the event or Stripe told it.
StripeHands ==
    \A n \in Stripe!Numbers :
        /\ se_hook[n] # "none" => n \in Stripe!Sent
        /\ se_handler[n] # Stripe!Idle =>
             /\ se_hook[n] = "processing"
             /\ se_handler[n].step = "retrieve" => se_sent[n].kind = "checkout"
             /\ se_handler[n].data.plan \in se_had[se_sent[n].sub]
             /\ se_handler[n].data.status = "canceled" =>
                  se_stripe[se_sent[n].sub].data.status = "canceled"
             /\ StripeLast(n) => se_handler[n].data = se_sent[n].data

\* A row no subscription reached is free; another one is on a plan its subscription
\* has been on, and is canceled only with it.
StripeRows ==
    \A i \in Stripe!Live :
        IF se_row[i].sub = None THEN se_row[i].data.plan = "free"
        ELSE /\ se_stripe[se_row[i].sub] # Stripe!NoSub
             /\ se_row[i].data.plan \in se_had[se_row[i].sub] \cup {"free"}
             /\ se_row[i].data.status = "canceled" =>
                  se_stripe[se_row[i].sub].data.status = "canceled"

\* In order: an event is begun when those before it are done.
StripeOrder ==
    ~se_late => \A n, m \in Stripe!Numbers :
        se_hook[n] # "none" /\ m < n => se_hook[m] = "completed"

\* In order, the rows of a subscription mirror its last event once that is written.
StripeMirror(d) == IF d.status = "canceled" THEN Stripe!Ended ELSE d
StripeWritten(n) ==
    se_hook[n] = "completed" \/ (se_handler[n] # Stripe!Idle /\ se_handler[n].step = "done")
StripeMirrors ==
    ~se_late => \A n \in Stripe!Sent : StripeLast(n) /\ StripeWritten(n) =>
        \A i \in Stripe!BySub(se_sent[n].sub) : se_row[i].data = StripeMirror(se_sent[n].data)

\* The inductive invariant.
StripeIInv ==
    /\ StripeTypes /\ StripeTold /\ StripeHands /\ StripeRows
    /\ StripeOrder /\ StripeMirrors

LEMMA StripeInitIInv == ASSUME StripeBounds, Stripe!Init PROVE StripeIInv
<1> USE DEF Stripe!Init, StripeBounds
<1>1. Stripe!Sent = {}
  BY DEF Stripe!Sent
<1>2. StripeTypes
  <2>1. <<>> \in Seq(StripeNews) /\ Len(<<>>) = 0
    OBVIOUS
  <2>2. [sub |-> None, cust |-> None, data |-> Stripe!Free] \in
          [sub : Subs \cup {None}, cust : Subs \cup {None}, data : Stripe!Data]
    BY DEF Stripe!Free, Stripe!Data
  <2> QED
    BY <2>1, <2>2 DEF StripeTypes
<1>3. StripeTold /\ StripeHands
  BY <1>1 DEF StripeTold, StripeHands
<1>4. StripeRows
  <2> SUFFICES ASSUME NEW i \in Stripe!Live
               PROVE  se_row[i].sub = None /\ se_row[i].data.plan = "free"
    BY DEF StripeRows
  <2>1. se_row[i] = [sub |-> None, cust |-> None, data |-> Stripe!Free]
    BY DEF Stripe!Live
  <2> QED
    BY <2>1 DEF Stripe!Free
<1>5. StripeOrder /\ StripeMirrors
  BY <1>1 DEF StripeOrder, StripeMirrors
<1> QED
  BY <1>2, <1>3, <1>4, <1>5 DEF StripeIInv

\* An event and a handler that is at work have their fields.
LEMMA StripeEvent ==
    ASSUME StripeTypes, NEW n \in Stripe!Sent
    PROVE  /\ n \in Nat /\ se_sent[n] \in StripeNews
           /\ se_sent[n].kind \in {"checkout", "updated", "deleted"}
           /\ se_sent[n].sub \in Subs /\ se_sent[n].cust \in Subs
           /\ se_sent[n].data \in StripeState
<1>1. n \in Nat /\ se_sent[n] \in StripeNews
  BY DEF StripeTypes, Stripe!Sent
<1> QED
  BY <1>1 DEF StripeNews

LEMMA StripeHand ==
    ASSUME StripeTypes, NEW n \in Stripe!Numbers, se_handler[n] # Stripe!Idle
    PROVE  /\ se_handler[n].step \in {"retrieve", "find", "write", "done"}
           /\ se_handler[n].data \in StripeState
           /\ se_handler[n].key \in {"sub", "cust", "org", "none"}
           /\ se_handler[n] \in [step : {"retrieve", "find", "write", "done"},
                   data : StripeState,
                                 key : {"sub", "cust", "org", "none"}]
  BY DEF StripeTypes

\* A step looked for is the step of a handler at work.
LEMMA StripeAtWork ==
    ASSUME StripeTypes, NEW n \in Stripe!Numbers,
              NEW s \in {"retrieve", "find", "write", "done"},
           Stripe!Step(n, s)
    PROVE  se_handler[n] # Stripe!Idle /\ se_handler[n].step = s
  BY DEF Stripe!Step, Stripe!Idle

\* Stripe tells of a subscription that has not ended: the news is its last event, of
\* which nothing has been handled yet.
LEMMA StripeTellKeeps ==
    ASSUME StripeBounds, StripeIInv, NEW s \in Subs, NEW c \in Subs, NEW d \in StripeState,
           NEW kind \in {"checkout", "updated", "deleted"}, Stripe!Tell(kind, s, c, d),
           d.status = "canceled" <=> kind = "deleted",
           se_stripe[s] = Stripe!NoSub \/ se_stripe[s].data.status # "canceled"
    PROVE  StripeIInv'
<1> DEFINE e == [kind |-> kind, sub |-> s, cust |-> c, data |-> d]
           news == [cust |-> c, data |-> d]
           k == Len(se_sent) + 1
<1>1. /\ se_stripe' = [se_stripe EXCEPT ![s] = news]
      /\ se_sent' = Append(se_sent, e) /\ Len(se_sent) < MaxEvents
      /\ se_had' = [se_had EXCEPT ![s] = @ \cup {d.plan}]
      /\ UNCHANGED <<se_answered, se_hook, se_handler, se_row, se_late>>
  BY DEF Stripe!Tell
<1>2. e \in StripeNews /\ e.sub = s /\ e.data = d /\ e.kind = kind
  BY DEF StripeNews
<1>3. /\ news # Stripe!NoSub /\ news.data = d
      /\ news \in [cust : Subs, data : StripeState]
  BY DEF Stripe!NoSub
<1>4. /\ Stripe!Sent' = Stripe!Sent \cup {k} /\ k \notin Stripe!Sent /\ k \in Nat
      /\ \A n \in Stripe!Sent : n \in Nat /\ n < k /\ se_sent'[n] = se_sent[n]
      /\ se_sent'[k] = e
      /\ Len(se_sent') = k
  BY <1>1, <1>2 DEF Stripe!Sent, StripeIInv, StripeTypes
<1>5. /\ se_stripe'[s] = news /\ se_had'[s] = se_had[s] \cup {d.plan}
      /\ \A t \in Subs \ {s} : se_stripe'[t] = se_stripe[t] /\ se_had'[t] = se_had[t]
      /\ \A t \in Subs : se_had[t] \subseteq se_had'[t]
      /\ \A t \in Subs : se_stripe[t] # Stripe!NoSub => se_stripe'[t] # Stripe!NoSub
  BY <1>1, <1>3 DEF StripeIInv, StripeTypes
<1>6. \A n \in Stripe!Sent : StripeLast(n)' => se_sent[n].sub # s /\ StripeLast(n)
  BY <1>2, <1>4 DEF StripeLast
<1>7. d.plan \in Plans
  BY DEF StripeState
<1>14. /\ \A n \in Stripe!Sent' : n = k => StripeLast(n)'
       /\ \A n \in Stripe!Sent : se_sent[n].sub # s /\ StripeLast(n) => StripeLast(n)'
  BY <1>2, <1>4 DEF StripeLast
<1>8. StripeTypes'
  <2>1. se_sent' \in Seq(StripeNews) /\ Len(se_sent') <= MaxEvents
    BY <1>1, <1>2, <1>4 DEF StripeIInv, StripeTypes, StripeBounds
  <2> QED
    BY <1>1, <1>3, <1>7, <2>1 DEF StripeIInv, StripeTypes, Stripe!Numbers
<1>9. StripeTold'
  <2>1. ASSUME NEW t \in Subs, se_stripe'[t] # Stripe!NoSub
        PROVE  /\ se_stripe'[t].data.plan \in se_had'[t]
               /\ \E n \in Stripe!Sent' : se_sent'[n].sub = t /\ StripeLast(n)'
    <3>1. CASE t = s
      BY <1>2, <1>3, <1>4, <1>5, <1>14, <3>1
    <3>2. CASE t # s
      <4>1. PICK n \in Stripe!Sent : se_sent[n].sub = t /\ StripeLast(n)
        BY <1>5, <2>1, <3>2 DEF StripeIInv, StripeTold
      <4>2. n \in Stripe!Sent' /\ se_sent'[n].sub = t /\ StripeLast(n)'
        BY <1>4, <1>14, <3>2, <4>1
      <4>3. se_stripe'[t].data.plan \in se_had'[t]
        BY <1>5, <2>1, <3>2 DEF StripeIInv, StripeTold
      <4> QED
        BY <4>2, <4>3
    <3> QED
      BY <3>1, <3>2
  <2>2. ASSUME NEW n \in Stripe!Sent
        PROVE  /\ se_stripe'[se_sent[n].sub] # Stripe!NoSub
               /\ se_sent[n].data.plan \in se_had'[se_sent[n].sub]
               /\ se_sent[n].data.status = "canceled" <=> se_sent[n].kind = "deleted"
               /\ se_sent[n].kind = "deleted" =>
                    se_stripe'[se_sent[n].sub].data.status = "canceled"
               /\ StripeLast(n)' => se_sent[n].data = se_stripe'[se_sent[n].sub].data
    BY <1>5, <1>6, StripeEvent DEF StripeIInv, StripeTold
  <2>3. /\ se_stripe'[e.sub] # Stripe!NoSub
        /\ e.data.plan \in se_had'[e.sub]
        /\ e.data.status = "canceled" <=> e.kind = "deleted"
        /\ e.kind = "deleted" => se_stripe'[e.sub].data.status = "canceled"
        /\ e.data = se_stripe'[e.sub].data
    BY <1>2, <1>3, <1>5
  <2> QED
    BY <1>4, <2>1, <2>2, <2>3 DEF StripeTold
<1>10. StripeHands'
  <2> SUFFICES ASSUME NEW n \in Stripe!Numbers
               PROVE  /\ se_hook[n] # "none" => n \in Stripe!Sent'
                      /\ se_handler[n] # Stripe!Idle =>
                           /\ se_hook[n] = "processing"
                           /\ se_handler[n].step = "retrieve" => se_sent'[n].kind = "checkout"
                           /\ se_handler[n].data.plan \in se_had'[se_sent'[n].sub]
                           /\ se_handler[n].data.status = "canceled" =>
                                se_stripe'[se_sent'[n].sub].data.status = "canceled"
                           /\ StripeLast(n)' => se_handler[n].data = se_sent'[n].data
    BY <1>1 DEF StripeHands, Stripe!Numbers
  <2>1. se_hook[n] # "none" => n \in Stripe!Sent
    BY DEF StripeIInv, StripeHands
  <2>2. CASE se_handler[n] # Stripe!Idle
    <3>1. n \in Stripe!Sent
      BY <2>1, <2>2 DEF StripeIInv, StripeHands
    <3>2. se_sent'[n] = se_sent[n] /\ se_sent[n].sub \in Subs
      BY <1>4, <3>1, StripeEvent DEF StripeIInv
    <3>3. se_stripe[se_sent[n].sub] # Stripe!NoSub
      BY <3>1 DEF StripeIInv, StripeTold
    <3> QED
      BY <1>4, <1>5, <1>6, <2>2, <3>1, <3>2, <3>3 DEF StripeIInv, StripeHands
  <2> QED
    BY <1>4, <2>1, <2>2
<1>11. StripeRows'
  <2>1. Stripe!Live' = Stripe!Live
    BY <1>1 DEF Stripe!Live
  <2>2. ASSUME NEW i \in Stripe!Live PROVE se_row[i].sub \in Subs \cup {None}
    BY DEF Stripe!Live, StripeIInv, StripeTypes
  <2> QED
    BY <1>1, <1>5, <2>1, <2>2 DEF StripeIInv, StripeRows
<1>12. StripeOrder'
  BY <1>1 DEF StripeIInv, StripeOrder, Stripe!Numbers
<1>13. StripeMirrors'
  <2>1. Stripe!Live' = Stripe!Live /\ \A t : Stripe!BySub(t)' = Stripe!BySub(t)
    BY <1>1 DEF Stripe!Live, Stripe!BySub
  <2>2. k \in Stripe!Numbers
    BY <1>1, <1>4 DEF Stripe!Numbers, StripeBounds, StripeIInv, StripeTypes
  <2>3. \A n \in Stripe!Numbers : n \notin Stripe!Sent => ~StripeWritten(n)'
    BY <1>1 DEF StripeWritten, StripeIInv, StripeHands
  <2>4. \A n \in Stripe!Sent : StripeWritten(n)' <=> StripeWritten(n)
    BY <1>1 DEF StripeWritten
  <2> SUFFICES ASSUME ~se_late, NEW n \in Stripe!Sent', StripeLast(n)', StripeWritten(n)',
                      NEW i \in Stripe!BySub(se_sent'[n].sub)
               PROVE  se_row[i].data = StripeMirror(se_sent'[n].data)
    BY <1>1, <2>1 DEF StripeMirrors
  <2>5. n \in Stripe!Sent
    BY <1>4, <2>2, <2>3
  <2> QED
    BY <1>4, <1>6, <2>4, <2>5 DEF StripeIInv, StripeMirrors
<1> QED
  BY <1>8, <1>9, <1>10, <1>11, <1>12, <1>13 DEF StripeIInv

\* A step that writes no row and hears nothing of Stripe.
LEMMA StripeQuietKeeps ==
    ASSUME StripeIInv, UNCHANGED <<se_stripe, se_sent, se_row, se_had>>
    PROVE  StripeTold' /\ StripeRows' /\ Stripe!Sent' = Stripe!Sent
           /\ (\A n : StripeLast(n)' <=> StripeLast(n))
           /\ (\A t : Stripe!BySub(t)' = Stripe!BySub(t))
<1>1. Stripe!Sent' = Stripe!Sent /\ Stripe!Live' = Stripe!Live
  BY DEF Stripe!Sent, Stripe!Live
<1>2. /\ \A n : StripeLast(n)' <=> StripeLast(n)
      /\ \A t : Stripe!BySub(t)' = Stripe!BySub(t)
  BY <1>1 DEF StripeLast, Stripe!BySub
<1> QED
  BY <1>1, <1>2 DEF StripeIInv, StripeTold, StripeRows

\* A location gets a row that is free, and of no subscription.
LEMMA StripeAddKeeps ==
    ASSUME StripeBounds, StripeIInv, NEW i \in Rows, Stripe!AddLocation(i) PROVE StripeIInv'
<1> DEFINE new == [sub |-> None, cust |-> None, data |-> Stripe!Free]
<1>1. /\ se_row[i] = Stripe!NoRow /\ se_row' = [se_row EXCEPT ![i] = new]
      /\ UNCHANGED <<se_stripe, se_sent, se_answered, se_hook, se_handler, se_had, se_late>>
  BY DEF Stripe!AddLocation
<1>2. /\ new.sub = None /\ new.data.plan = "free"
      /\ new \in [sub : Subs \cup {None}, cust : Subs \cup {None}, data : Stripe!Data]
  BY DEF Stripe!Free, Stripe!Data
<1>3. /\ Stripe!Sent' = Stripe!Sent
      /\ \A j \in Stripe!Live' : j = i \/ (j \in Stripe!Live /\ se_row'[j] = se_row[j])
      /\ se_row'[i] = new
  BY <1>1 DEF Stripe!Sent, Stripe!Live, StripeIInv, StripeTypes
<1>4. \A n : (StripeLast(n)' <=> StripeLast(n)) /\ (StripeWritten(n)' <=> StripeWritten(n))
  BY <1>1, <1>3 DEF StripeLast, StripeWritten
<1>5. StripeTypes'
  BY <1>1, <1>2 DEF StripeIInv, StripeTypes, Stripe!Numbers
<1>6. StripeTold' /\ StripeHands' /\ StripeOrder'
  BY <1>1, <1>3, <1>4 DEF StripeIInv, StripeTold, StripeHands, StripeOrder, Stripe!Numbers
<1>7. StripeRows'
  BY <1>1, <1>2, <1>3 DEF StripeIInv, StripeRows
<1>8. StripeMirrors'
  <2>1. ASSUME NEW n \in Stripe!Sent, NEW j \in Stripe!BySub(se_sent[n].sub)'
        PROVE  j \in Stripe!BySub(se_sent[n].sub) /\ se_row'[j] = se_row[j]
    <3>1. se_sent[n].sub \in Subs /\ se_sent[n].sub # None
      BY StripeEvent DEF StripeIInv, StripeBounds
    <3> QED
      BY <1>1, <1>2, <1>3, <2>1, <3>1 DEF Stripe!BySub
  <2> QED
    BY <1>1, <1>3, <1>4, <2>1 DEF StripeIInv, StripeMirrors
<1> QED
  BY <1>5, <1>6, <1>7, <1>8 DEF StripeIInv

\* What an event's handler does before it writes.
LEMMA StripeReadKeeps ==
    ASSUME StripeBounds, StripeIInv, NEW n \in Stripe!Numbers,
           Stripe!Retrieve(n) \/ Stripe!FindOrg(n) \/ Stripe!FindRow(n)
    PROVE  StripeIInv'
<1>1. /\ UNCHANGED <<se_stripe, se_sent, se_answered, se_hook, se_row, se_had, se_late>>
      /\ se_handler[n] # Stripe!Idle /\ n \in Stripe!Sent
  <2>1. se_handler[n] # Stripe!Idle
    BY StripeAtWork DEF Stripe!Retrieve, Stripe!FindOrg, Stripe!FindRow, StripeIInv
  <2> QED
    BY <2>1 DEF Stripe!Retrieve, Stripe!FindOrg, Stripe!FindRow, StripeIInv, StripeHands
<1>2. /\ StripeTold' /\ StripeRows' /\ Stripe!Sent' = Stripe!Sent
      /\ \A m : StripeLast(m)' <=> StripeLast(m)
      /\ \A t : Stripe!BySub(t)' = Stripe!BySub(t)
  BY <1>1, StripeQuietKeeps
<1> DEFINE Hand == [step : {"retrieve", "find", "write", "done"}, data : StripeState,
                    key : {"sub", "cust", "org", "none"}]
<1>3. PICK h \in Hand :
        /\ se_handler' = [se_handler EXCEPT ![n] = h]
        /\ h.step # "retrieve"
        /\ h.data = se_handler[n].data \/ h.data = se_stripe[se_sent[n].sub].data
        /\ h.step = "done" => Stripe!BySub(se_sent[n].sub) = {}
  <2>0. se_handler[n] \in Hand /\ se_handler \in [Stripe!Numbers -> {Stripe!Idle} \cup Hand]
    BY <1>1, StripeHand DEF StripeIInv, StripeTypes
  <2>1. CASE Stripe!Retrieve(n)
    <3>1. se_stripe[se_sent[n].sub] # Stripe!NoSub
      BY <1>1 DEF StripeIInv, StripeTold
    <3>2. se_stripe[se_sent[n].sub].data \in StripeState
      BY <1>1, <3>1, StripeEvent DEF StripeIInv, StripeTypes
    <3> DEFINE h == [se_handler[n] EXCEPT !.step = "find",
           !.data = se_stripe[se_sent[n].sub].data]
    <3>3. h \in Hand /\ h.step = "find" /\ h.data = se_stripe[se_sent[n].sub].data
      BY <2>0, <3>2
    <3>4. se_handler' = [se_handler EXCEPT ![n] = h]
      BY <2>0, <2>1 DEF Stripe!Retrieve
    <3> QED
      BY <3>3, <3>4
  <2>2. CASE Stripe!FindOrg(n)
    <3> DEFINE h == [se_handler[n] EXCEPT !.step = "write",
                       !.key = IF Stripe!Live = {} THEN "none" ELSE "org"]
    <3>3. h \in Hand /\ h.step = "write" /\ h.data = se_handler[n].data
      BY <2>0
    <3>4. se_handler' = [se_handler EXCEPT ![n] = h]
      BY <2>0, <2>2 DEF Stripe!FindOrg
    <3> QED
      BY <3>3, <3>4
  <2>3. CASE Stripe!FindRow(n)
    <3> DEFINE key == IF Stripe!BySub(se_sent[n].sub) # {} THEN "sub"
                      ELSE IF Stripe!ByCust(se_sent[n].cust) # {} THEN "cust" ELSE "none"
               h == [se_handler[n] EXCEPT !.step = IF key = "none" THEN "done" ELSE "write",
                                          !.key = key]
    <3>1. key \in {"sub", "cust", "none"} /\ (key = "none" => Stripe!BySub(se_sent[n].sub) = {})
      OBVIOUS
    <3>4. se_handler' = [se_handler EXCEPT ![n] = h]
      BY <2>0, <2>3 DEF Stripe!FindRow
    <3> HIDE DEF key
    <3>3. /\ h \in Hand /\ h.data = se_handler[n].data
          /\ h.step = IF key = "none" THEN "done" ELSE "write"
      BY <2>0, <3>1
    <3> QED
      BY <3>1, <3>3, <3>4
  <2> QED
    BY <2>1, <2>2, <2>3
<1>4. /\ h # Stripe!Idle /\ se_handler'[n] = h
      /\ \A m \in Stripe!Numbers \ {n} : se_handler'[m] = se_handler[m]
  BY <1>3 DEF StripeIInv, StripeTypes, Stripe!Idle
<1>5. StripeTypes'
  BY <1>1, <1>3 DEF StripeIInv, StripeTypes, Stripe!Numbers
<1>6. StripeHands'
  <2>1. /\ h.data.plan \in se_had[se_sent[n].sub]
        /\ h.data.status = "canceled" => se_stripe[se_sent[n].sub].data.status = "canceled"
        /\ StripeLast(n) => h.data = se_sent[n].data
    BY <1>1, <1>3, StripeEvent DEF StripeIInv, StripeTold, StripeHands
  <2> QED
    BY <1>1, <1>2, <1>3, <1>4, <2>1 DEF StripeIInv, StripeHands, Stripe!Numbers
<1>7. StripeOrder'
  BY <1>1 DEF StripeIInv, StripeOrder, Stripe!Numbers
<1>8. StripeMirrors'
  <2>1. \A m \in Stripe!Sent : StripeWritten(m)' =>
          StripeWritten(m) \/ Stripe!BySub(se_sent[m].sub) = {}
    <3>1. \A m \in Stripe!Sent : m \in Stripe!Numbers
      BY DEF Stripe!Sent, Stripe!Numbers, StripeIInv, StripeTypes, StripeBounds
    <3> QED
      BY <1>1, <1>3, <1>4, <3>1 DEF StripeWritten
  <2> QED
    BY <1>1, <1>2, <2>1 DEF StripeIInv, StripeMirrors
<1> QED
  BY <1>2, <1>5, <1>6, <1>7, <1>8 DEF StripeIInv

\* An event is claimed: in order when those before it are done and none after it begun.
LEMMA StripeClaimKeeps ==
    ASSUME StripeBounds, StripeIInv, NEW n \in Stripe!Numbers, Stripe!Claim(n)
    PROVE  StripeIInv'
<1> DEFINE h == [step |-> Stripe!FirstStep[se_sent[n].kind], data |-> se_sent[n].data,
       key |-> "sub"]
<1>1. /\ n \in Stripe!Sent /\ se_hook[n] = "none"
      /\ se_hook' = [se_hook EXCEPT ![n] = "processing"]
      /\ se_handler' = [se_handler EXCEPT ![n] = h]
      /\ se_late' = (se_late \/ \E m \in Stripe!Sent : \/ m < n /\ se_hook[m] # "completed"
                                                       \/ m > n /\ se_hook[m] # "none")
      /\ UNCHANGED <<se_stripe, se_sent, se_answered, se_row, se_had>>
  BY DEF Stripe!Claim
<1>2. /\ StripeTold' /\ StripeRows' /\ Stripe!Sent' = Stripe!Sent
      /\ \A m : StripeLast(m)' <=> StripeLast(m)
      /\ \A t : Stripe!BySub(t)' = Stripe!BySub(t)
  BY <1>1, StripeQuietKeeps
<1>3. /\ Stripe!FirstStep[se_sent[n].kind] \in {"retrieve", "find", "write"}
      /\ Stripe!FirstStep[se_sent[n].kind] = "retrieve" => se_sent[n].kind = "checkout"
  <2>1. /\ Stripe!FirstStep["checkout"] = "retrieve" /\ Stripe!FirstStep["updated"] = "find"
        /\ Stripe!FirstStep["deleted"] = "write"
    BY DEF Stripe!FirstStep
  <2> QED
    BY <1>1, <2>1, StripeEvent DEF StripeIInv
<1>4. /\ h.step = Stripe!FirstStep[se_sent[n].kind] /\ h.data = se_sent[n].data
      /\ h \in [step : {"retrieve", "find", "write", "done"}, data : StripeState,
                key : {"sub", "cust", "org", "none"}]
      /\ h # Stripe!Idle
  <2>1. se_sent[n].data \in StripeState
    BY <1>1, StripeEvent DEF StripeIInv
  <2> QED
    BY <1>3, <2>1 DEF Stripe!Idle
<1>5. /\ se_handler'[n] = h /\ se_hook'[n] = "processing"
      /\ \A m \in Stripe!Numbers \ {n} :
           se_handler'[m] = se_handler[m] /\ se_hook'[m] = se_hook[m]
  BY <1>1 DEF StripeIInv, StripeTypes
<1> HIDE DEF h
<1>6. StripeTypes'
  BY <1>1, <1>4 DEF StripeIInv, StripeTypes, Stripe!Numbers
<1>7. StripeHands'
  <2>1. /\ h.data.plan \in se_had[se_sent[n].sub]
        /\ h.data.status = "canceled" => se_stripe[se_sent[n].sub].data.status = "canceled"
    BY <1>1, <1>4 DEF StripeIInv, StripeTold
  <2> QED
    BY <1>1, <1>2, <1>3, <1>4, <1>5, <2>1 DEF StripeIInv, StripeHands, Stripe!Numbers
<1>8. StripeOrder'
  <2> SUFFICES ASSUME ~se_late', NEW a \in Stripe!Numbers, NEW b \in Stripe!Numbers,
                      se_hook'[a] # "none", b < a
               PROVE  se_hook'[b] = "completed"
    BY DEF StripeOrder, Stripe!Numbers
  <2>1. \A m \in Stripe!Sent : /\ m < n => se_hook[m] = "completed"
                               /\ m > n => se_hook[m] = "none"
    BY <1>1
  <2>2. \A m \in Stripe!Numbers : se_hook[m] # "none" => m \in Stripe!Sent
    BY DEF StripeIInv, StripeHands
  <2>3. CASE a = n
    <3>1. b \in Stripe!Sent
      BY <1>1, <2>3 DEF Stripe!Sent, Stripe!Numbers, StripeBounds, StripeIInv, StripeTypes
    <3> QED
      BY <1>5, <2>1, <2>3, <3>1 DEF Stripe!Numbers, StripeBounds
  <2>4. CASE a # n
    <3>1. a < n
      BY <1>5, <2>1, <2>2, <2>4 DEF Stripe!Numbers, StripeBounds
    <3>2. se_hook[b] = "completed"
      BY <1>1, <1>5, <2>4 DEF StripeIInv, StripeOrder
    <3> QED
      BY <1>5, <2>4, <3>1, <3>2 DEF Stripe!Numbers, StripeBounds
  <2> QED
    BY <2>3, <2>4
<1>9. StripeMirrors'
  <2>1. \A m \in Stripe!Sent : StripeWritten(m)' => StripeWritten(m)
    BY <1>3, <1>4, <1>5 DEF StripeWritten, StripeIInv, StripeTypes, Stripe!Sent, Stripe!Numbers,
       StripeBounds
  <2> QED
    BY <1>1, <1>2, <2>1 DEF StripeIInv, StripeMirrors
<1> QED
  BY <1>2, <1>6, <1>7, <1>8, <1>9 DEF StripeIInv

\* An event is answered again, or its handler ends.
LEMMA StripeEndKeeps ==
    ASSUME StripeBounds, StripeIInv, NEW n \in Stripe!Numbers,
           Stripe!Duplicate(n) \/ Stripe!Finish(n) \/ Stripe!Fail(n) \/ Stripe!Die(n)
    PROVE  StripeIInv'
<1>1. UNCHANGED <<se_stripe, se_sent, se_row, se_had, se_late>>
  BY DEF Stripe!Duplicate, Stripe!Finish, Stripe!Fail, Stripe!Die
<1>2. /\ StripeTold' /\ StripeRows' /\ Stripe!Sent' = Stripe!Sent
      /\ \A m : StripeLast(m)' <=> StripeLast(m)
      /\ \A t : Stripe!BySub(t)' = Stripe!BySub(t)
  BY <1>1, StripeQuietKeeps
<1>3. \/ UNCHANGED <<se_hook, se_handler>>
      \/ /\ se_handler[n] # Stripe!Idle /\ se_handler' = [se_handler EXCEPT ![n] = Stripe!Idle]
         /\ \/ se_hook' = se_hook
            \/ se_hook' = [se_hook EXCEPT ![n] = "failed"]
            \/ se_hook' = [se_hook EXCEPT ![n] = "completed"] /\ se_handler[n].step = "done"
  BY StripeAtWork DEF Stripe!Duplicate, Stripe!Finish, Stripe!Fail, Stripe!Die, StripeIInv,
     Stripe!Step
<1>4. CASE UNCHANGED <<se_hook, se_handler>>
  BY <1>1, <1>2, <1>4 DEF StripeIInv, StripeTypes, StripeHands, StripeOrder, StripeMirrors,
     StripeWritten, Stripe!Numbers
<1>5. CASE /\ se_handler[n] # Stripe!Idle
           /\ se_handler' = [se_handler EXCEPT ![n] = Stripe!Idle]
           /\ \/ se_hook' = se_hook
              \/ se_hook' = [se_hook EXCEPT ![n] = "failed"]
              \/ se_hook' = [se_hook EXCEPT ![n] = "completed"] /\ se_handler[n].step = "done"
  <2>1. /\ se_handler'[n] = Stripe!Idle /\ se_hook[n] = "processing" /\ n \in Stripe!Sent
        /\ se_hook'[n] = "completed" => se_handler[n].step = "done"
        /\ \A m \in Stripe!Numbers \ {n} :
             se_handler'[m] = se_handler[m] /\ se_hook'[m] = se_hook[m]
    BY <1>5 DEF StripeIInv, StripeTypes, StripeHands
  <2>2. StripeTypes'
    BY <1>1, <1>5 DEF StripeIInv, StripeTypes, Stripe!Numbers
  <2>3. StripeHands'
    BY <1>1, <1>2, <2>1 DEF StripeIInv, StripeHands, Stripe!Numbers
  <2>4. StripeOrder'
    BY <1>1, <2>1 DEF StripeIInv, StripeOrder, Stripe!Numbers
  <2>5. \A m \in Stripe!Sent : StripeWritten(m)' => StripeWritten(m)
    BY <1>5, <2>1 DEF StripeWritten, StripeIInv, StripeTypes, Stripe!Sent, Stripe!Numbers,
       StripeBounds
  <2>6. StripeMirrors'
    BY <1>1, <1>2, <2>5 DEF StripeIInv, StripeMirrors
  <2> QED
    BY <1>2, <2>2, <2>3, <2>4, <2>6 DEF StripeIInv
<1> QED
  BY <1>3, <1>4, <1>5

\* The write of event n: the rows of a set, every row of its subscription among them,
\* get its subscription and the data d.
StripeWrites(n, set, d) ==
    /\ Stripe!Step(n, "write") /\ Stripe!Goto(n, "done")
    /\ UNCHANGED <<se_stripe, se_sent, se_answered, se_hook, se_had, se_late>>
    /\ se_row' \in [Rows -> {Stripe!NoRow} \cup
         [sub : Subs \cup {None}, cust : Subs \cup {None}, data : Stripe!Data]]
    /\ \A i \in Rows \ set : se_row'[i] = se_row[i]
    /\ \A i \in set : se_row'[i].sub = se_sent[n].sub /\ se_row'[i].data = d
    /\ Stripe!BySub(se_sent[n].sub) \subseteq set
    /\ d.plan \in se_had[se_sent[n].sub] \cup {"free"}
    /\ d.status = "canceled" => se_stripe[se_sent[n].sub].data.status = "canceled"
    /\ StripeLast(n) => d = StripeMirror(se_sent[n].data)

LEMMA StripeWriteKeeps ==
    ASSUME StripeBounds, StripeIInv, NEW n \in Stripe!Numbers,
           NEW set \in SUBSET Rows, NEW d \in Stripe!Data, StripeWrites(n, set, d)
    PROVE  StripeIInv'
<1> USE DEF StripeWrites
<1> DEFINE h == [se_handler[n] EXCEPT !.step = "done"]
<1>1. /\ se_handler[n] # Stripe!Idle /\ n \in Stripe!Sent /\ se_hook[n] = "processing"
      /\ se_sent[n].sub \in Subs /\ se_sent[n].sub # None
  <2>1. se_handler[n] # Stripe!Idle
    BY StripeAtWork DEF StripeIInv
  <2>2. se_hook[n] = "processing" /\ n \in Stripe!Sent
    BY <2>1 DEF StripeIInv, StripeHands
  <2> QED
    BY <2>1, <2>2, StripeEvent DEF StripeIInv, StripeBounds
<1>2. /\ se_handler' = [se_handler EXCEPT ![n] = h]
      /\ h.step = "done" /\ h.data = se_handler[n].data
      /\ h \in [step : {"retrieve", "find", "write", "done"}, data : StripeState,
                key : {"sub", "cust", "org", "none"}]
  <2>1. se_handler[n] \in [step : {"retrieve", "find", "write", "done"}, data : StripeState,
                           key : {"sub", "cust", "org", "none"}]
    BY <1>1, StripeHand DEF StripeIInv
  <2> QED
    BY <2>1 DEF Stripe!Goto
<1>3. h # Stripe!Idle
  BY <1>2 DEF Stripe!Idle
<1>4. /\ se_handler'[n] = h
      /\ \A m \in Stripe!Numbers \ {n} : se_handler'[m] = se_handler[m]
  BY <1>2 DEF StripeIInv, StripeTypes
<1> HIDE DEF h
<1>5. Stripe!Sent' = Stripe!Sent /\ \A m : StripeLast(m)' <=> StripeLast(m)
  BY DEF Stripe!Sent, StripeLast
<1>6. \A m \in Stripe!Sent : m \in Stripe!Numbers /\ m \in Nat
  BY DEF Stripe!Sent, Stripe!Numbers, StripeIInv, StripeTypes, StripeBounds
<1>7. StripeTypes'
  BY <1>2 DEF StripeIInv, StripeTypes, Stripe!Numbers
<1>8. StripeTold'
  BY <1>5 DEF StripeIInv, StripeTold
<1>9. StripeHands'
  BY <1>1, <1>2, <1>4, <1>5 DEF StripeIInv, StripeHands, Stripe!Numbers
<1>10. \A i \in Stripe!Live' : i \in Rows
          /\ (i \in set \/ (i \in Stripe!Live /\ se_row'[i] = se_row[i]))
  BY DEF Stripe!Live
<1>11. StripeRows'
  <2>1. se_stripe[se_sent[n].sub] # Stripe!NoSub
    BY <1>1 DEF StripeIInv, StripeTold
  <2> QED
    BY <1>1, <1>10, <2>1 DEF StripeIInv, StripeRows
<1>12. StripeOrder'
  BY DEF StripeIInv, StripeOrder, Stripe!Numbers
<1>13. StripeMirrors'
  <2> SUFFICES ASSUME ~se_late, NEW m \in Stripe!Sent, StripeLast(m), StripeWritten(m)',
                      NEW i \in Stripe!BySub(se_sent[m].sub)'
               PROVE  se_row'[i].data = StripeMirror(se_sent[m].data)
    BY <1>5 DEF StripeMirrors
  <2>1. i \in Stripe!Live' /\ se_row'[i].sub = se_sent[m].sub
    BY DEF Stripe!BySub
  <2>2. CASE m = n
    <3>1. i \in set
      BY <1>10, <2>1, <2>2 DEF Stripe!BySub
    <3> QED
      BY <2>2, <3>1
  <2>3. CASE m # n
    <3>1. StripeWritten(m) /\ se_hook[m] # "none"
      BY <1>4, <1>6, <2>3 DEF StripeWritten, StripeIInv, StripeHands
    <3>2. se_sent[m].sub # se_sent[n].sub
      <4> SUFFICES ASSUME se_sent[m].sub = se_sent[n].sub PROVE FALSE
        OBVIOUS
      <4>1. n < m
        BY <1>1, <1>6, <2>3 DEF StripeLast
      <4>2. se_hook[n] = "completed"
        BY <1>6, <3>1, <4>1 DEF StripeIInv, StripeOrder
      <4> QED
        BY <1>1, <4>2
    <3>3. i \in Stripe!BySub(se_sent[m].sub) /\ se_row'[i] = se_row[i]
      BY <1>10, <2>1, <3>2 DEF Stripe!BySub
    <3> QED
      BY <3>1, <3>3 DEF StripeIInv, StripeMirrors
  <2> QED
    BY <2>2, <2>3
<1> QED
  BY <1>7, <1>8, <1>9, <1>11, <1>12, <1>13 DEF StripeIInv

\* Every write of a handler is such a write.
LEMMA StripeWritesKeep ==
    ASSUME StripeBounds, StripeIInv, NEW n \in Stripe!Numbers,
           Stripe!WriteCheckout(n) \/ Stripe!WriteUpdated(n) \/ Stripe!WriteDeleted(n)
    PROVE  StripeIInv'
<1> DEFINE s == se_sent[n].sub
           c == se_sent[n].cust
           d == se_handler[n].data
<1>0. /\ Stripe!Step(n, "write") /\ Stripe!Goto(n, "done")
      /\ UNCHANGED <<se_stripe, se_sent, se_answered, se_hook, se_had, se_late>>
  BY DEF Stripe!WriteCheckout, Stripe!WriteUpdated, Stripe!WriteDeleted
<1>1. se_handler[n] # Stripe!Idle /\ n \in Stripe!Sent
  <2>1. se_handler[n] # Stripe!Idle
    BY <1>0, StripeAtWork DEF StripeIInv
  <2> QED
    BY <2>1 DEF StripeIInv, StripeHands
<1>2. /\ s \in Subs /\ c \in Subs /\ d \in StripeState /\ d \in Stripe!Data
      /\ se_sent[n].data \in StripeState
  BY <1>1, StripeEvent, StripeHand DEF StripeIInv, StripeState, Stripe!Data
<1>3. /\ d.plan \in se_had[s]
      /\ d.status = "canceled" => se_stripe[s].data.status = "canceled"
      /\ StripeLast(n) => d = se_sent[n].data
  BY <1>1 DEF StripeIInv, StripeHands
<1>4. Stripe!Live \subseteq Rows /\ Stripe!BySub(s) \subseteq Stripe!Live
      /\ Stripe!ByCust(c) \subseteq Stripe!Live
  BY DEF Stripe!Live, Stripe!BySub, Stripe!ByCust
<1> DEFINE Table == [Rows -> {Stripe!NoRow} \cup
                      [sub : Subs \cup {None}, cust : Subs \cup {None}, data : Stripe!Data]]
<1>5. se_row \in Table
  BY DEF StripeIInv, StripeTypes
<1>6. ASSUME NEW set \in SUBSET Rows, Stripe!BySub(s) \subseteq set,
             Stripe!Update(set, s, c, d),
             se_sent[n].kind # "deleted"
      PROVE  StripeIInv'
  <2>1. se_sent[n].data.status # "canceled"
    BY <1>1, <1>6 DEF StripeIInv, StripeTold
  <2>2. StripeLast(n) => d = StripeMirror(se_sent[n].data)
    BY <1>3, <2>1 DEF StripeMirror
  <2>3. /\ \A i \in Rows \ set : se_row'[i] = se_row[i]
        /\ \A i \in set : se_row'[i] = [sub |-> s, cust |-> c, data |-> d]
    BY <1>6 DEF Stripe!Update
  <2>4. se_row' \in Table
    BY <1>2, <1>5, <1>6 DEF Stripe!Update
  <2>5. \A i \in set : se_row'[i].sub = s /\ se_row'[i].data = d
    BY <2>3
  <2>6. StripeWrites(n, set, d)
    BY <1>0, <1>3, <1>6, <2>2, <2>3, <2>4, <2>5 DEF StripeWrites
  <2> QED
    BY <1>2, <2>6, StripeWriteKeeps
<1>7. ASSUME NEW new \in Stripe!Data,
             se_row' = [i \in Rows |-> IF i \in Stripe!BySub(s)
                                         THEN [se_row[i] EXCEPT !.data = new] ELSE se_row[i]],
             new.plan \in se_had[s] \cup {"free"},
             new.status = "canceled" => se_stripe[s].data.status = "canceled",
             StripeLast(n) => new = StripeMirror(se_sent[n].data)
      PROVE  StripeIInv'
  <2>1. \A i \in Stripe!BySub(s) :
          /\ se_row[i] \in [sub : Subs \cup {None}, cust : Subs \cup {None}, data : Stripe!Data]
          /\ se_row[i].sub = s
    BY <1>5 DEF Stripe!BySub, Stripe!Live
  <2>2. /\ \A i \in Rows \ Stripe!BySub(s) : se_row'[i] = se_row[i]
        /\ \A i \in Stripe!BySub(s) : se_row'[i] = [se_row[i] EXCEPT !.data = new]
    BY <1>4, <1>7
  <2>3. \A i \in Stripe!BySub(s) : se_row'[i].sub = s /\ se_row'[i].data = new
    BY <2>1, <2>2
  <2>4. \A i \in Stripe!BySub(s) : [se_row[i] EXCEPT !.data = new] \in
          [sub : Subs \cup {None}, cust : Subs \cup {None}, data : Stripe!Data]
    BY <2>1
  <2>5. se_row' \in Table
    BY <1>4, <1>5, <1>7, <2>4
  <2>6. PICK set \in SUBSET Rows : set = Stripe!BySub(s)
    BY <1>4
  <2>7. /\ \A i \in Rows \ set : se_row'[i] = se_row[i]
        /\ \A i \in set : se_row'[i].sub = s /\ se_row'[i].data = new
        /\ Stripe!BySub(s) \subseteq set
    BY <2>2, <2>3, <2>6
  <2>8. /\ new \in Stripe!Data /\ new.plan \in se_had[s] \cup {"free"}
        /\ new.status = "canceled" => se_stripe[s].data.status = "canceled"
        /\ StripeLast(n) => new = StripeMirror(se_sent[n].data)
    BY <1>7
  <2>9. StripeWrites(n, set, new)
    BY <1>0, <2>5, <2>7, <2>8 DEF StripeWrites
  <2> QED
    BY <2>8, <2>9, StripeWriteKeeps
<1>8. CASE Stripe!WriteCheckout(n)
  <2>1. CASE Stripe!Update(Stripe!Live, s, c, d)
    BY <1>4, <1>6, <1>8, <2>1 DEF Stripe!WriteCheckout
  <2>2. ASSUME Stripe!BySub(s) = {}, NEW i \in Rows, Stripe!Update({i}, s, c, d)
        PROVE  StripeIInv'
    BY <1>6, <1>8, <2>2 DEF Stripe!WriteCheckout
  <2> QED
    BY <1>8, <2>1, <2>2 DEF Stripe!WriteCheckout
<1>9. CASE Stripe!WriteUpdated(n)
  <2>0. se_sent[n].kind = "updated" /\ se_sent[n].data.status # "canceled"
    BY <1>1, <1>9 DEF Stripe!WriteUpdated, StripeIInv, StripeTold
  <2>1. CASE se_row' = [i \in Rows |-> IF i \in Stripe!BySub(s)
                                         THEN [se_row[i] EXCEPT !.data = d] ELSE se_row[i]]
    BY <1>2, <1>3, <1>7, <2>0, <2>1 DEF StripeMirror
  <2>2. CASE Stripe!Unique(Stripe!ByCust(c), s) /\ Stripe!Update(Stripe!ByCust(c), s, c, d)
    BY <1>4, <1>6, <2>0, <2>2 DEF Stripe!Unique
  <2> QED
    BY <1>9, <2>1, <2>2 DEF Stripe!WriteUpdated
<1>10. CASE Stripe!WriteDeleted(n)
  <2>1. se_stripe[s].data.status = "canceled" /\ se_sent[n].data.status = "canceled"
    BY <1>1, <1>10 DEF Stripe!WriteDeleted, StripeIInv, StripeTold
  <2>2. Stripe!Ended \in Stripe!Data /\ Stripe!Ended.plan = "free"
    BY DEF Stripe!Ended, Stripe!Data
  <2>3. Stripe!Ended = StripeMirror(se_sent[n].data)
    BY <2>1 DEF StripeMirror
  <2>4. se_row' = [i \in Rows |-> IF i \in Stripe!BySub(s)
                                    THEN [se_row[i] EXCEPT !.data = Stripe!Ended]
                                       ELSE se_row[i]]
    BY <1>10 DEF Stripe!WriteDeleted
  <2> QED
    BY <1>7, <2>1, <2>2, <2>3, <2>4
<1> QED
  BY <1>8, <1>9, <1>10

LEMMA StripeNextIInv ==
    ASSUME StripeBounds, StripeIInv, [Stripe!Next]_(Stripe!vars) PROVE StripeIInv'
<1>1. ASSUME NEW s \in Subs, Stripe!Buy(s) \/ Stripe!Change(s) \/ Stripe!End(s)
      PROVE  StripeIInv'
  <2>1. CASE Stripe!Buy(s)
    <3>1. PICK p \in Plans, c \in {s} \cup ({se_row[i].cust : i \in Stripe!Live} \ {None}) :
            Stripe!Tell("checkout", s, c, [status |-> "active", plan |-> p])
      BY <2>1 DEF Stripe!Buy
    <3>2. c \in Subs
      BY DEF Stripe!Live, StripeIInv, StripeTypes
    <3>3. /\ [status |-> "active", plan |-> p] \in StripeState
          /\ [status |-> "active", plan |-> p].status = "active"
      BY DEF StripeState
    <3>4. se_stripe[s] = Stripe!NoSub
      BY <2>1 DEF Stripe!Buy
    <3> QED
      BY <3>1, <3>2, <3>3, <3>4, StripeTellKeeps
  <2>2. CASE Stripe!Change(s)
    <3>1. PICK st \in {"active", "past_due"}, p \in Plans :
            Stripe!Tell("updated", s, se_stripe[s].cust, [status |-> st, plan |-> p])
      BY <2>2 DEF Stripe!Change
    <3>2. se_stripe[s].cust \in Subs /\ se_stripe[s].data.status # "canceled"
      BY <2>2 DEF Stripe!Change, StripeIInv, StripeTypes
    <3>3. /\ [status |-> st, plan |-> p] \in StripeState
          /\ [status |-> st, plan |-> p].status = st
      BY DEF StripeState
    <3> QED
      BY <3>1, <3>2, <3>3, StripeTellKeeps
  <2>3. CASE Stripe!End(s)
    <3> DEFINE d == [se_stripe[s].data EXCEPT !.status = "canceled"]
    <3>1. /\ Stripe!Tell("deleted", s, se_stripe[s].cust, d)
          /\ se_stripe[s] # Stripe!NoSub /\ se_stripe[s].data.status # "canceled"
      BY <2>3 DEF Stripe!End
    <3>2. se_stripe[s].cust \in Subs /\ se_stripe[s].data \in StripeState
      BY <3>1 DEF StripeIInv, StripeTypes
    <3>3. d \in StripeState /\ d.status = "canceled"
      BY <3>2 DEF StripeState
    <3> HIDE DEF d
    <3> QED
      BY <3>1, <3>2, <3>3, StripeTellKeeps
  <2> QED
    BY <1>1, <2>1, <2>2, <2>3
<1>2. ASSUME NEW i \in Rows, Stripe!AddLocation(i) PROVE StripeIInv'
  BY <1>2, StripeAddKeeps
<1>3. ASSUME NEW n \in Stripe!Numbers, Stripe!Handle(n) PROVE StripeIInv'
  BY <1>3, StripeClaimKeeps, StripeReadKeeps, StripeWritesKeep, StripeEndKeeps
  DEF Stripe!Handle
<1>4. CASE UNCHANGED Stripe!vars
  <2>1. UNCHANGED <<se_stripe, se_sent, se_row, se_had, se_hook, se_handler, se_late>>
    BY <1>4 DEF Stripe!vars
  <2>2. /\ StripeTold' /\ StripeRows' /\ Stripe!Sent' = Stripe!Sent
        /\ \A m : StripeLast(m)' <=> StripeLast(m)
        /\ \A t : Stripe!BySub(t)' = Stripe!BySub(t)
    BY <2>1, StripeQuietKeeps
  <2> QED
    BY <2>1, <2>2 DEF StripeIInv, StripeTypes, StripeHands, StripeOrder, StripeMirrors,
       StripeWritten, Stripe!Numbers
<1> QED
  BY <1>1, <1>2, <1>3, <1>4 DEF Stripe!Next

LEMMA StripeIInvFollows == ASSUME StripeBounds, StripeIInv PROVE Stripe!PlanFollowsStripe
<1>1. Stripe!NeverCutOff /\ Stripe!PlanIsBought
  BY DEF StripeIInv, StripeRows, Stripe!NeverCutOff, Stripe!PlanIsBought, Stripe!Linked
<1>2. Stripe!InOrderMirrors
  <2> SUFFICES ASSUME ~se_late, \A n \in Stripe!Sent : se_hook[n] = "completed",
                      NEW i \in Stripe!Linked
               PROVE  se_row[i].data = StripeMirror(se_stripe[se_row[i].sub].data)
    BY DEF Stripe!InOrderMirrors, StripeMirror
  <2> DEFINE s == se_row[i].sub
  <2>1. i \in Stripe!Live /\ s \in Subs /\ se_stripe[s] # Stripe!NoSub /\ i \in Stripe!BySub(s)
    BY DEF Stripe!Linked, Stripe!Live, Stripe!BySub, StripeIInv, StripeRows, StripeTypes
  <2>2. PICK n \in Stripe!Sent : se_sent[n].sub = s /\ StripeLast(n)
    BY <2>1 DEF StripeIInv, StripeTold
  <2>3. se_sent[n].data = se_stripe[s].data
    BY <2>2 DEF StripeIInv, StripeTold
  <2> QED
    BY <2>1, <2>2, <2>3 DEF StripeIInv, StripeMirrors, StripeWritten
<1> QED
  BY <1>1, <1>2 DEF Stripe!PlanFollowsStripe

\* The composition starts as the mirror does, and each of its steps is one of the
\* mirror's or leaves it alone.
LEMMA StripeStarts == Init => Stripe!Init
  BY DEF Init

LEMMA StripeSteps == [Next]_vars => [Stripe!Next]_(Stripe!vars)
  BY DEF Next, VoiceNext, MarketNext, StripeNext, RefundsNext, CoursesNext,
     vars, StripeVars, Stripe!vars

\* The mirror of Stripe among the other parts of the back end, for any number of
\* subscriptions, plans, rows and events in any order: no tenant is cut off whose
\* subscription Stripe has not ended, none has a plan that was never bought, and events
\* handled in order leave every row as Stripe has it.
THEOREM PlanFollowsStripeAll == Spec => []PlanFollowsStripe
<1>1. Init => StripeIInv
  BY StripeStarts, StripeAssumption, StripeInitIInv
<1>2. StripeIInv /\ [Next]_vars => StripeIInv'
  BY StripeSteps, StripeAssumption, StripeNextIInv
<1>3. StripeIInv => PlanFollowsStripe
  BY StripeAssumption, StripeIInvFollows DEF PlanFollowsStripe
<1> QED
  BY <1>1, <1>2, <1>3, PTL DEF Spec
--------------------------------------------------------------------------------
\* The marketplace: the order is linked to its external row.
MarketLinked == mi_ext # Market!NoRow /\ mi_ext.linked

\* The types, with the attempts and deaths a job that goes on has left.
MarketTypes ==
    /\ mi_market \in {"none", "new", "accepted", "canceled"}
    /\ mi_auto \in BOOLEAN
    /\ mi_kind \in [Events -> {"none", "created", "updated", "canceled"}]
    /\ mi_hook \in [Events -> {"none", "pending", "completed", "failed"}]
    /\ mi_ingest \in [Events -> {"idle", "record", "enqueue"}]
    /\ mi_job \in [Events -> {"none", "waiting"} \cup Market!Active \cup Market!Over]
    /\ mi_tries \in [Events -> [failed : 0..MaxAttempts, stalled : 0..(MaxStalls + 1)]]
    /\ \A e \in Events : mi_job[e] \notin Market!Over =>
         mi_tries[e].failed < MaxAttempts /\ mi_tries[e].stalled <= MaxStalls
    /\ mi_to \in [Events -> Market!Status]
    /\ mi_ext \in {Market!NoRow}
            \cup [linked : BOOLEAN, sync : {"pending", "imported", "failed"}]
    /\ mi_native \in Market!Status \cup {"none"}
    /\ mi_clerk \in [Clerks -> {Market!Idle} \cup [op : {"read", "write"}, to : Market!Status]]
    /\ mi_moves \in 0..MaxMoves

\* How far the order is, from how far a job is: the row before the import, the native
\* order before the link, the link before the accept.
MarketStages ==
    /\ MarketLinked => mi_native # "none"
    /\ mi_market = "accepted" => MarketLinked
    /\ \A c \in Clerks : mi_clerk[c] # Market!Idle => mi_native # "none"
    /\ \A e \in Events :
        /\ mi_job[e] \in {"create", "link", "fail"} => mi_ext # Market!NoRow
        /\ mi_job[e] = "link" => mi_native # "none"
        /\ mi_hook[e] = "none" \/ mi_ingest[e] # "idle" => mi_job[e] = "none"
        /\ mi_ingest[e] # "idle" => mi_hook[e] # "none"
        /\ mi_job[e] \in {"accept", "write"} => MarketLinked

\* An event is of one kind from its sending on, and its job runs the handler of that
\* kind; a cancellation writes cancelled.
MarketKinds ==
    \A e \in Events :
        /\ mi_hook[e] # "none" \/ mi_ingest[e] # "idle" \/ mi_job[e] # "none" =>
             mi_kind[e] # "none"
        /\ mi_job[e] \in {"fetch", "upsert", "accept", "create", "link", "fail"} =>
             mi_kind[e] = "created"
        /\ mi_job[e] \in {"read", "write"} => mi_kind[e] # "created"
        /\ mi_job[e] = "write" /\ mi_kind[e] = "canceled" => mi_to[e] = "cancelled"

\* While imports do not overlap there is one at a time, of a row that is not linked.
MarketImports ==
    ~mi_overlap =>
        /\ \A e, x \in Events :
             mi_job[e] \in Market!Importing /\ mi_job[x] \in Market!Importing => e = x
        /\ \A e \in Events : mi_job[e] \in Market!Importing => ~MarketLinked
        /\ mi_ext # Market!NoRow => (mi_ext.linked <=> mi_ext.sync = "imported")

\* An order.created event that is done, or about to be, has linked the order.
MarketDone ==
    \A e \in Events \ mi_dropped :
        mi_kind[e] = "created" /\ (mi_hook[e] = "completed" \/ mi_job[e] = "mark") =>
            MarketLinked

\* A cancellation that is done, or about to be, has stopped the order.
MarketStops ==
    ~mi_clobbered => \A e \in Events \ mi_dropped :
        mi_kind[e] = "canceled" /\ (mi_hook[e] = "completed" \/ mi_job[e] = "mark") =>
            mi_native \in {"cancelled", "completed"}

\* The inductive invariant.
MarketIInv ==
    /\ MarketTypes /\ MarketStages /\ MarketKinds /\ MarketImports
    /\ MarketDone /\ MarketStops /\ Market!ReservedIsWorked

\* A step of an event, from the webhook to the end of its job; a step of the staff.
MarketJobStep(e) ==
    \/ Market!Tell(e) \/ Market!Ingest(e) \/ Market!Worker(e) \/ Market!WorkerDies(e)
MarketClerkStep(c) == Market!Ask(c) \/ Market!ClerkReads(c) \/ Market!ClerkWrites(c)

\* What the status table says.
LEMMA MarketTable ==
    /\ Market!Status = {"pending", "confirmed", "preparing", "ready", "completed", "cancelled"}
    /\ \A s \in Market!Status : Market!Transitions[s] \subseteq Market!Status
    /\ \A s \in Market!Status \ {"completed", "cancelled"} :
            "cancelled" \in Market!Transitions[s]
    /\ Market!Transitions["completed"] = {} /\ Market!Transitions["cancelled"] = {}
  BY DEF Market!Status, Market!Transitions

LEMMA MarketRow ==
    \A a, b : [linked |-> a, sync |-> b] # Market!NoRow
  BY DEF Market!NoRow

LEMMA MarketClerk ==
    ASSUME MarketTypes, NEW c \in Clerks
    PROVE  /\ \A o, s : [op |-> o, to |-> s] # Market!Idle
           /\ mi_clerk[c].op \in {"read", "write"} =>
                /\ mi_clerk[c] # Market!Idle /\ mi_clerk[c].to \in Market!Status
<1>1. \A o, s : [op |-> o, to |-> s] # Market!Idle
  BY DEF Market!Idle
<1>2. Market!Idle.op = "idle"
  BY DEF Market!Idle
<1>3. CASE mi_clerk[c] = Market!Idle
  BY <1>1, <1>2, <1>3
<1>4. CASE mi_clerk[c] # Market!Idle
  BY <1>1, <1>4 DEF MarketTypes
<1> QED
  BY <1>3, <1>4

LEMMA MarketInitIInv == ASSUME MarketBounds, Market!Init PROVE MarketIInv
  BY MarketTable DEF MarketBounds, Market!Init, MarketIInv, MarketTypes, MarketStages,
     MarketLinked, MarketKinds, MarketImports, MarketDone, MarketStops,
     Market!ReservedIsWorked, Market!Importing, Market!Active, Market!Over

\* The types, for a step of an event.
LEMMA MarketTypesJob ==
    ASSUME MarketBounds, MarketTypes, MarketStages, NEW e \in Events, MarketJobStep(e)
    PROVE  MarketTypes'
<1> USE DEF MarketStages, MarketLinked, MarketTypes, MarketBounds, Market!Active,
       Market!Over, Market!Importing, Market!JobTo, Market!HookTo, Market!IngestTo,
       Market!WriteStatus, Market!history, Market!queue
<1>1. CASE Market!Tell(e)
  BY <1>1 DEF Market!Tell
<1>2. CASE Market!Reserve(e)
  BY <1>2 DEF Market!Reserve
<1>3. CASE Market!Record(e)
  BY <1>3 DEF Market!Record
<1>4. CASE Market!RequestDies(e)
  BY <1>4 DEF Market!RequestDies
<1>5. CASE Market!Enqueue(e)
  BY <1>5 DEF Market!Enqueue
<1>6. CASE Market!EnqueueFails(e)
  BY <1>6 DEF Market!EnqueueFails
<1>7. CASE Market!Take(e)
  BY <1>7 DEF Market!Take
<1>8. CASE Market!Fetch(e)
  <2>1. /\ mi_job[e] = "fetch"
        /\ \/ mi_job' = [mi_job EXCEPT ![e] = "upsert"]
           \/ mi_job' = [mi_job EXCEPT ![e] = "mark"]
        /\ UNCHANGED <<mi_market, mi_auto, mi_kind, mi_hook, mi_ingest, mi_tries, mi_to, mi_ext,
                       mi_native, mi_clerk, mi_moves>>
    BY <1>8 DEF Market!Fetch
  <2>2. mi_job' \in [Events -> {"none", "waiting"} \cup Market!Active \cup Market!Over]
    BY <2>1
  <2>3. \A d \in Events : mi_job'[d] \notin Market!Over => mi_job[d] \notin Market!Over
    BY <2>1
  <2> QED
    BY <2>1, <2>2, <2>3
<1>9. CASE Market!Upsert(e)
  BY <1>9 DEF Market!Upsert
<1>10. CASE Market!CreateNative(e)
  BY <1>10, MarketTable DEF Market!CreateNative
<1>11. CASE Market!Link(e)
  BY <1>11 DEF Market!Link
<1>12. CASE Market!ImportFails(e)
  BY <1>12 DEF Market!ImportFails
<1>13. CASE Market!MarkImportFailed(e)
  BY <1>13 DEF Market!MarkImportFailed
<1>14. CASE Market!AutoAccept(e)
  BY <1>14 DEF Market!AutoAccept
<1>15. CASE Market!ReadStatus(e)
  <2>1. /\ mi_job[e] = "read"
        /\ UNCHANGED <<mi_market, mi_auto, mi_kind, mi_hook, mi_ingest, mi_tries, mi_ext,
                       mi_native, mi_clerk, mi_moves>>
    BY <1>15 DEF Market!ReadStatus
  <2> DEFINE target == IF mi_kind[e] = "canceled" THEN "cancelled" ELSE Market!Mapped[mi_market]
  <2>2. CASE /\ MarketLinked /\ target \in Market!Transitions[mi_native]
             /\ mi_job' = [mi_job EXCEPT ![e] = "write"]
                     /\ mi_to' = [mi_to EXCEPT ![e] = target]
    <3>1. mi_native \in Market!Status
      BY <2>2
    <3>2. target \in Market!Status
      BY <2>2, <3>1, MarketTable
    <3> HIDE DEF target
    <3> QED
      BY <2>1, <2>2, <3>2
  <2>3. CASE mi_job' = [mi_job EXCEPT ![e] = "mark"] /\ UNCHANGED mi_to
    BY <2>1, <2>3
  <2> QED
    BY <1>15, <2>2, <2>3 DEF Market!ReadStatus
<1>16. CASE Market!JobWrites(e)
  BY <1>16 DEF Market!JobWrites
<1>17. CASE Market!MarkCompleted(e)
  BY <1>17 DEF Market!MarkCompleted
<1>18. CASE Market!StepFails(e)
  BY <1>18 DEF Market!StepFails
<1>19. CASE Market!MarkFailed(e)
  BY <1>19 DEF Market!MarkFailed
<1>20. CASE Market!WorkerDies(e)
  BY <1>20 DEF Market!WorkerDies
<1> QED
  BY <1>1, <1>2, <1>3, <1>4, <1>5, <1>6, <1>7, <1>8, <1>9, <1>10, <1>11, <1>12, <1>13, <1>14,
     <1>15, <1>16, <1>17, <1>18, <1>19, <1>20 DEF MarketJobStep, Market!Ingest, Market!Worker

\* The stages, for a step of an event.
LEMMA MarketStagesJob ==
    ASSUME MarketBounds, MarketTypes, MarketStages, MarketKinds, NEW e \in Events,
              MarketJobStep(e)
    PROVE  MarketStages'
<1> USE DEF MarketTypes, MarketStages, MarketLinked, MarketKinds, Market!JobTo,
       Market!HookTo, Market!IngestTo, Market!WriteStatus, Market!history, Market!queue
<1>1. CASE Market!Tell(e)
  BY <1>1 DEF Market!Tell
<1>2. CASE Market!Reserve(e)
  BY <1>2 DEF Market!Reserve
<1>3. CASE Market!Record(e)
  BY <1>3 DEF Market!Record
<1>4. CASE Market!RequestDies(e)
  BY <1>4 DEF Market!RequestDies
<1>5. CASE Market!Enqueue(e)
  BY <1>5 DEF Market!Enqueue
<1>6. CASE Market!EnqueueFails(e)
  BY <1>6 DEF Market!EnqueueFails
<1>7. CASE Market!Take(e)
  BY <1>7 DEF Market!Take
<1>8. CASE Market!Fetch(e)
  BY <1>8 DEF Market!Fetch
<1>9. CASE Market!Upsert(e)
  BY <1>9, MarketRow DEF Market!Upsert
<1>10. CASE Market!CreateNative(e)
  BY <1>10 DEF Market!CreateNative
<1>11. CASE Market!Link(e)
  BY <1>11, MarketRow DEF Market!Link
<1>12. CASE Market!ImportFails(e)
  BY <1>12 DEF Market!ImportFails
<1>13. CASE Market!MarkImportFailed(e)
  BY <1>13, MarketRow DEF Market!MarkImportFailed
<1>14. CASE Market!AutoAccept(e)
  BY <1>14 DEF Market!AutoAccept
<1>15. CASE Market!ReadStatus(e)
  BY <1>15 DEF Market!ReadStatus
<1>16. CASE Market!JobWrites(e)
  BY <1>16, MarketTable DEF Market!JobWrites
<1>17. CASE Market!MarkCompleted(e)
  BY <1>17 DEF Market!MarkCompleted
<1>18. CASE Market!StepFails(e)
  BY <1>18 DEF Market!StepFails
<1>19. CASE Market!MarkFailed(e)
  BY <1>19 DEF Market!MarkFailed
<1>20. CASE Market!WorkerDies(e)
  <2>1. /\ mi_job[e] \notin {"none"} /\ mi_job[e] \in Market!Active
        /\ \/ mi_job' = [mi_job EXCEPT ![e] = "waiting"]
           \/ mi_job' = [mi_job EXCEPT ![e] = "gone"]
        /\ UNCHANGED <<mi_market, mi_auto, mi_kind, mi_hook, mi_ingest, mi_to, mi_ext,
                       mi_native, mi_clerk, mi_moves, mi_dropped, mi_overlap, mi_clobbered>>
    BY <1>20 DEF Market!WorkerDies, Market!Active, Market!Importing
  <2> QED
    BY <2>1
<1> QED
  BY <1>1, <1>2, <1>3, <1>4, <1>5, <1>6, <1>7, <1>8, <1>9, <1>10, <1>11, <1>12, <1>13, <1>14,
     <1>15, <1>16, <1>17, <1>18, <1>19, <1>20 DEF MarketJobStep, Market!Ingest, Market!Worker

\* The kinds, for a step of an event.
LEMMA MarketKindsJob ==
    ASSUME MarketBounds, MarketTypes, MarketStages, MarketKinds, NEW e \in Events,
              MarketJobStep(e)
    PROVE  MarketKinds'
<1> USE DEF MarketTypes, MarketKinds, Market!JobTo, Market!HookTo, Market!IngestTo,
       Market!WriteStatus, Market!history, Market!queue
<1>1. CASE Market!Tell(e)
  BY <1>1 DEF Market!Tell
<1>2. CASE Market!Reserve(e)
  BY <1>2 DEF Market!Reserve
<1>3. CASE Market!Record(e)
  BY <1>3 DEF Market!Record
<1>4. CASE Market!RequestDies(e)
  BY <1>4 DEF Market!RequestDies
<1>5. CASE Market!Enqueue(e)
  BY <1>5 DEF Market!Enqueue
<1>6. CASE Market!EnqueueFails(e)
  BY <1>6 DEF Market!EnqueueFails
<1>7. CASE Market!Take(e)
  BY <1>7 DEF Market!Take
<1>8. CASE Market!Fetch(e)
  BY <1>8 DEF Market!Fetch
<1>9. CASE Market!Upsert(e)
  BY <1>9 DEF Market!Upsert
<1>10. CASE Market!CreateNative(e)
  BY <1>10 DEF Market!CreateNative
<1>11. CASE Market!Link(e)
  BY <1>11 DEF Market!Link
<1>12. CASE Market!ImportFails(e)
  BY <1>12 DEF Market!ImportFails
<1>13. CASE Market!MarkImportFailed(e)
  BY <1>13 DEF Market!MarkImportFailed
<1>14. CASE Market!AutoAccept(e)
  BY <1>14 DEF Market!AutoAccept
<1>15. CASE Market!ReadStatus(e)
  BY <1>15 DEF Market!ReadStatus
<1>16. CASE Market!JobWrites(e)
  BY <1>16 DEF Market!JobWrites
<1>17. CASE Market!MarkCompleted(e)
  BY <1>17 DEF Market!MarkCompleted
<1>18. CASE Market!StepFails(e)
  BY <1>18 DEF Market!StepFails
<1>19. CASE Market!MarkFailed(e)
  BY <1>19 DEF Market!MarkFailed
<1>20. CASE Market!WorkerDies(e)
  <2>1. /\ mi_job[e] \notin {"none"} /\ mi_job[e] \in Market!Active
        /\ \/ mi_job' = [mi_job EXCEPT ![e] = "waiting"]
           \/ mi_job' = [mi_job EXCEPT ![e] = "gone"]
        /\ UNCHANGED <<mi_market, mi_auto, mi_kind, mi_hook, mi_ingest, mi_to, mi_ext,
                       mi_native, mi_clerk, mi_moves, mi_dropped, mi_overlap, mi_clobbered>>
    BY <1>20 DEF Market!WorkerDies, Market!Active, Market!Importing
  <2> QED
    BY <2>1
<1> QED
  BY <1>1, <1>2, <1>3, <1>4, <1>5, <1>6, <1>7, <1>8, <1>9, <1>10, <1>11, <1>12, <1>13, <1>14,
     <1>15, <1>16, <1>17, <1>18, <1>19, <1>20 DEF MarketJobStep, Market!Ingest, Market!Worker

\* The imports, for a step of an event.
LEMMA MarketImportsJob ==
    ASSUME MarketBounds, MarketTypes, MarketStages, MarketImports, NEW e \in Events,
              MarketJobStep(e)
    PROVE  MarketImports'
<1> USE DEF MarketTypes, MarketStages, MarketImports, MarketLinked, Market!Active,
       Market!Over, Market!Importing, Market!JobTo, Market!HookTo, Market!IngestTo,
       Market!WriteStatus, Market!history, Market!queue
<1>1. CASE Market!Tell(e)
  BY <1>1 DEF Market!Tell
<1>2. CASE Market!Reserve(e)
  BY <1>2 DEF Market!Reserve
<1>3. CASE Market!Record(e)
  BY <1>3 DEF Market!Record
<1>4. CASE Market!RequestDies(e)
  BY <1>4 DEF Market!RequestDies
<1>5. CASE Market!Enqueue(e)
  BY <1>5 DEF Market!Enqueue
<1>6. CASE Market!EnqueueFails(e)
  BY <1>6 DEF Market!EnqueueFails
<1>7. CASE Market!Take(e)
  BY <1>7 DEF Market!Take
<1>8. CASE Market!Fetch(e)
  <2>1. /\ \/ mi_job' = [mi_job EXCEPT ![e] = "upsert"]
           \/ mi_job' = [mi_job EXCEPT ![e] = "mark"]
        /\ UNCHANGED <<mi_ext, mi_overlap>>
    BY <1>8 DEF Market!Fetch
  <2> QED
    BY <2>1
<1>9. CASE Market!Upsert(e)
  <2>1. /\ mi_job' = [mi_job EXCEPT ![e] = IF MarketLinked THEN "accept" ELSE "create"]
        /\ mi_ext' = IF mi_ext = Market!NoRow THEN [linked |-> FALSE, sync |-> "pending"]
                     ELSE mi_ext
        /\ ~mi_overlap' => ~mi_overlap /\ \A x \in Events : mi_job[x] \notin Market!Importing
    BY <1>9 DEF Market!Upsert
  <2> DEFINE new == [linked |-> FALSE, sync |-> "pending"]
  <2>2. new # Market!NoRow /\ ~new.linked /\ new.sync # "imported"
    BY MarketRow
  <2>3. CASE MarketLinked
    <3>1. /\ \A x \in Events : mi_job'[x] \in Market!Importing => mi_job[x] \in Market!Importing
          /\ mi_ext' = mi_ext
      BY <2>1, <2>3
    <3> QED
      BY <2>1, <3>1
  <2>4. CASE ~MarketLinked
    <3>1. ASSUME ~mi_overlap' PROVE \A x \in Events : mi_job'[x] \in Market!Importing => x = e
      BY <2>1, <3>1
    <3>2. CASE mi_ext = Market!NoRow
      <4>1. mi_ext' = new
        BY <2>1, <3>2
      <4> HIDE DEF new
      <4> QED
        BY <2>2, <3>1, <4>1
    <3>3. CASE mi_ext # Market!NoRow
      <4>1. mi_ext' = mi_ext
        BY <2>1, <3>3
      <4> QED
        BY <2>1, <2>4, <3>1, <4>1
    <3> QED
      BY <3>2, <3>3
  <2> QED
    BY <2>3, <2>4
<1>10. CASE Market!CreateNative(e)
  BY <1>10 DEF Market!CreateNative
<1>11. CASE Market!Link(e)
  BY <1>11 DEF Market!Link
<1>12. CASE Market!ImportFails(e)
  BY <1>12 DEF Market!ImportFails
<1>13. CASE Market!MarkImportFailed(e)
  BY <1>13 DEF Market!MarkImportFailed
<1>14. CASE Market!AutoAccept(e)
  BY <1>14 DEF Market!AutoAccept
<1>15. CASE Market!ReadStatus(e)
  BY <1>15 DEF Market!ReadStatus
<1>16. CASE Market!JobWrites(e)
  BY <1>16 DEF Market!JobWrites
<1>17. CASE Market!MarkCompleted(e)
  BY <1>17 DEF Market!MarkCompleted
<1>18. CASE Market!StepFails(e)
  BY <1>18 DEF Market!StepFails
<1>19. CASE Market!MarkFailed(e)
  BY <1>19 DEF Market!MarkFailed
<1>20. CASE Market!WorkerDies(e)
  BY <1>20 DEF Market!WorkerDies
<1> QED
  BY <1>1, <1>2, <1>3, <1>4, <1>5, <1>6, <1>7, <1>8, <1>9, <1>10, <1>11, <1>12, <1>13, <1>14,
     <1>15, <1>16, <1>17, <1>18, <1>19, <1>20 DEF MarketJobStep, Market!Ingest, Market!Worker

\* What has been created, for a step of an event.
LEMMA MarketDoneJob ==
    ASSUME MarketBounds, MarketTypes, MarketStages, MarketKinds, MarketDone,
              NEW e \in Events, MarketJobStep(e)
    PROVE  MarketDone'
<1> USE DEF MarketTypes, MarketStages, MarketKinds, MarketDone, MarketLinked, Market!JobTo,
       Market!HookTo, Market!IngestTo, Market!WriteStatus, Market!history, Market!queue
<1>1. CASE Market!Tell(e)
  BY <1>1 DEF Market!Tell
<1>2. CASE Market!Reserve(e)
  BY <1>2 DEF Market!Reserve
<1>3. CASE Market!Record(e)
  BY <1>3 DEF Market!Record
<1>4. CASE Market!RequestDies(e)
  BY <1>4 DEF Market!RequestDies
<1>5. CASE Market!Enqueue(e)
  BY <1>5 DEF Market!Enqueue
<1>6. CASE Market!EnqueueFails(e)
  BY <1>6 DEF Market!EnqueueFails
<1>7. CASE Market!Take(e)
  BY <1>7 DEF Market!Take
<1>8. CASE Market!Fetch(e)
  BY <1>8 DEF Market!Fetch
<1>9. CASE Market!Upsert(e)
  BY <1>9 DEF Market!Upsert
<1>10. CASE Market!CreateNative(e)
  BY <1>10 DEF Market!CreateNative
<1>11. CASE Market!Link(e)
  BY <1>11, MarketRow DEF Market!Link
<1>12. CASE Market!ImportFails(e)
  BY <1>12 DEF Market!ImportFails
<1>13. CASE Market!MarkImportFailed(e)
  BY <1>13, MarketRow DEF Market!MarkImportFailed
<1>14. CASE Market!AutoAccept(e)
  BY <1>14 DEF Market!AutoAccept
<1>15. CASE Market!ReadStatus(e)
  BY <1>15 DEF Market!ReadStatus
<1>16. CASE Market!JobWrites(e)
  BY <1>16 DEF Market!JobWrites
<1>17. CASE Market!MarkCompleted(e)
  BY <1>17 DEF Market!MarkCompleted
<1>18. CASE Market!StepFails(e)
  BY <1>18 DEF Market!StepFails
<1>19. CASE Market!MarkFailed(e)
  BY <1>19 DEF Market!MarkFailed
<1>20. CASE Market!WorkerDies(e)
  BY <1>20 DEF Market!WorkerDies
<1> QED
  BY <1>1, <1>2, <1>3, <1>4, <1>5, <1>6, <1>7, <1>8, <1>9, <1>10, <1>11, <1>12, <1>13, <1>14,
     <1>15, <1>16, <1>17, <1>18, <1>19, <1>20 DEF MarketJobStep, Market!Ingest, Market!Worker

\* What has been canceled, for a step of an event.
LEMMA MarketStopsJob ==
    ASSUME MarketBounds, MarketTypes, MarketStages, MarketKinds, MarketStops,
              NEW e \in Events, MarketJobStep(e)
    PROVE  MarketStops'
<1> USE DEF MarketTypes, MarketStages, MarketKinds, MarketStops, MarketLinked, Market!JobTo,
       Market!HookTo, Market!IngestTo, Market!WriteStatus, Market!history, Market!queue
<1>1. CASE Market!Tell(e)
  BY <1>1 DEF Market!Tell
<1>2. CASE Market!Reserve(e)
  BY <1>2 DEF Market!Reserve
<1>3. CASE Market!Record(e)
  BY <1>3 DEF Market!Record
<1>4. CASE Market!RequestDies(e)
  BY <1>4 DEF Market!RequestDies
<1>5. CASE Market!Enqueue(e)
  BY <1>5 DEF Market!Enqueue
<1>6. CASE Market!EnqueueFails(e)
  BY <1>6 DEF Market!EnqueueFails
<1>7. CASE Market!Take(e)
  BY <1>7 DEF Market!Take
<1>8. CASE Market!Fetch(e)
  BY <1>8 DEF Market!Fetch
<1>9. CASE Market!Upsert(e)
  BY <1>9 DEF Market!Upsert
<1>10. CASE Market!CreateNative(e)
  BY <1>10 DEF Market!CreateNative
<1>11. CASE Market!Link(e)
  BY <1>11 DEF Market!Link
<1>12. CASE Market!ImportFails(e)
  BY <1>12 DEF Market!ImportFails
<1>13. CASE Market!MarkImportFailed(e)
  BY <1>13 DEF Market!MarkImportFailed
<1>14. CASE Market!AutoAccept(e)
  BY <1>14 DEF Market!AutoAccept
<1>15. CASE Market!ReadStatus(e)
  BY <1>15, MarketTable DEF Market!ReadStatus
<1>16. CASE Market!JobWrites(e)
  BY <1>16, MarketTable DEF Market!JobWrites
<1>17. CASE Market!MarkCompleted(e)
  BY <1>17 DEF Market!MarkCompleted
<1>18. CASE Market!StepFails(e)
  BY <1>18 DEF Market!StepFails
<1>19. CASE Market!MarkFailed(e)
  BY <1>19 DEF Market!MarkFailed
<1>20. CASE Market!WorkerDies(e)
  BY <1>20 DEF Market!WorkerDies
<1> QED
  BY <1>1, <1>2, <1>3, <1>4, <1>5, <1>6, <1>7, <1>8, <1>9, <1>10, <1>11, <1>12, <1>13, <1>14,
     <1>15, <1>16, <1>17, <1>18, <1>19, <1>20 DEF MarketJobStep, Market!Ingest, Market!Worker

\* What is reserved, for a step of an event.
LEMMA MarketReservedJob ==
    ASSUME MarketBounds, MarketTypes, Market!ReservedIsWorked, NEW e \in Events,
              MarketJobStep(e)
    PROVE  Market!ReservedIsWorked'
<1> USE DEF MarketTypes, Market!ReservedIsWorked, Market!Active, Market!Over,
       Market!Importing, Market!JobTo, Market!HookTo, Market!IngestTo, Market!WriteStatus,
       Market!history, Market!queue
<1>1. CASE Market!Tell(e)
  BY <1>1 DEF Market!Tell
<1>2. CASE Market!Reserve(e)
  BY <1>2 DEF Market!Reserve
<1>3. CASE Market!Record(e)
  BY <1>3 DEF Market!Record
<1>4. CASE Market!RequestDies(e)
  BY <1>4 DEF Market!RequestDies
<1>5. CASE Market!Enqueue(e)
  BY <1>5 DEF Market!Enqueue
<1>6. CASE Market!EnqueueFails(e)
  BY <1>6 DEF Market!EnqueueFails
<1>7. CASE Market!Take(e)
  BY <1>7 DEF Market!Take
<1>8. CASE Market!Fetch(e)
  BY <1>8 DEF Market!Fetch
<1>9. CASE Market!Upsert(e)
  BY <1>9 DEF Market!Upsert
<1>10. CASE Market!CreateNative(e)
  BY <1>10 DEF Market!CreateNative
<1>11. CASE Market!Link(e)
  BY <1>11 DEF Market!Link
<1>12. CASE Market!ImportFails(e)
  BY <1>12 DEF Market!ImportFails
<1>13. CASE Market!MarkImportFailed(e)
  BY <1>13 DEF Market!MarkImportFailed
<1>14. CASE Market!AutoAccept(e)
  BY <1>14 DEF Market!AutoAccept
<1>15. CASE Market!ReadStatus(e)
  BY <1>15 DEF Market!ReadStatus
<1>16. CASE Market!JobWrites(e)
  BY <1>16 DEF Market!JobWrites
<1>17. CASE Market!MarkCompleted(e)
  BY <1>17 DEF Market!MarkCompleted
<1>18. CASE Market!StepFails(e)
  BY <1>18 DEF Market!StepFails
<1>19. CASE Market!MarkFailed(e)
  BY <1>19 DEF Market!MarkFailed
<1>20. CASE Market!WorkerDies(e)
  BY <1>20 DEF Market!WorkerDies
<1> QED
  BY <1>1, <1>2, <1>3, <1>4, <1>5, <1>6, <1>7, <1>8, <1>9, <1>10, <1>11, <1>12, <1>13, <1>14,
     <1>15, <1>16, <1>17, <1>18, <1>19, <1>20 DEF MarketJobStep, Market!Ingest, Market!Worker

\* A step of the staff.
LEMMA MarketClerkKeeps ==
    ASSUME MarketBounds, MarketIInv, NEW c \in Clerks, MarketClerkStep(c)
    PROVE  MarketIInv'
<1> USE DEF MarketIInv, MarketTypes, MarketBounds, Market!Active, Market!Over,
       Market!Importing, Market!JobTo, Market!HookTo, Market!IngestTo, Market!WriteStatus,
       Market!history, Market!queue, MarketStages, MarketLinked, MarketKinds, MarketImports,
       MarketDone, MarketStops, Market!ReservedIsWorked
<1>1. CASE Market!Ask(c)
  <2>1. MarketTypes'
    <3>1. ASSUME NEW o \in {"read", "write"}, NEW s \in Market!Status,
                 mi_clerk' = [mi_clerk EXCEPT ![c] = [op |-> o, to |-> s]],
                 mi_market' \in {"accepted", "canceled", mi_market}
          PROVE  MarketTypes'
      <4>1. /\ mi_clerk' \in [Clerks -> {Market!Idle}
                 \cup [op : {"read", "write"}, to : Market!Status]]
            /\ mi_market' \in {"none", "new", "accepted", "canceled"}
        BY <3>1
      <4>2. /\ mi_moves' \in 0..MaxMoves
            /\ UNCHANGED <<mi_auto, mi_kind, mi_hook, mi_ingest, mi_job, mi_tries, mi_to,
                    mi_ext,
                           mi_native>>
        BY <1>1 DEF Market!Ask
      <4> QED
        BY <4>1, <4>2
    <3>2. "confirmed" \in Market!Status /\ "cancelled" \in Market!Status
      BY MarketTable
    <3>3. CASE \E s \in {"confirmed", "cancelled"} :
                 /\ mi_clerk' = [mi_clerk EXCEPT ![c] = [op |-> "read", to |-> s]]
                 /\ mi_market' \in {"accepted", "canceled"}
      <4>1. PICK s \in {"confirmed", "cancelled"} :
              mi_clerk' = [mi_clerk EXCEPT ![c] = [op |-> "read", to |-> s]]
        BY <3>3
      <4>2. s \in Market!Status
        BY <3>2
      <4> QED
        BY <3>1, <3>3, <4>1, <4>2
    <3>4. CASE /\ mi_native # "none" /\ mi_market' = mi_market
               /\ \E s \in Market!Transitions[mi_native] :
                    mi_clerk' = [mi_clerk EXCEPT ![c] = [op |-> "write", to |-> s]]
      <4>1. PICK s \in Market!Transitions[mi_native] :
              mi_clerk' = [mi_clerk EXCEPT ![c] = [op |-> "write", to |-> s]]
        BY <3>4
      <4>2. s \in Market!Status
        BY <3>4, MarketTable
      <4> QED
        BY <3>1, <3>4, <4>1, <4>2
    <3> QED
      BY <1>1, <3>3, <3>4 DEF Market!Ask
  <2>2. MarketStages'
    BY <1>1 DEF Market!Ask
  <2>3. MarketKinds'
    BY <1>1 DEF Market!Ask
  <2>4. MarketImports'
    BY <1>1 DEF Market!Ask
  <2>5. MarketDone'
    BY <1>1 DEF Market!Ask
  <2>6. MarketStops'
    BY <1>1 DEF Market!Ask
  <2>7. Market!ReservedIsWorked'
    BY <1>1 DEF Market!Ask
  <2> QED
    BY <2>1, <2>2, <2>3, <2>4, <2>5, <2>6, <2>7
<1>2. CASE Market!ClerkReads(c)
  <2>1. MarketTypes'
    BY <1>2, MarketTable, MarketClerk DEF Market!ClerkReads
  <2>2. MarketStages'
    BY <1>2, MarketTable, MarketClerk DEF Market!ClerkReads
  <2>3. MarketKinds'
    BY <1>2 DEF Market!ClerkReads
  <2>4. MarketImports'
    BY <1>2 DEF Market!ClerkReads
  <2>5. MarketDone'
    BY <1>2 DEF Market!ClerkReads
  <2>6. MarketStops'
    BY <1>2 DEF Market!ClerkReads
  <2>7. Market!ReservedIsWorked'
    BY <1>2 DEF Market!ClerkReads
  <2> QED
    BY <2>1, <2>2, <2>3, <2>4, <2>5, <2>6, <2>7
<1>3. CASE Market!ClerkWrites(c)
  <2>1. MarketTypes'
    BY <1>3, MarketTable, MarketClerk DEF Market!ClerkWrites
  <2>2. MarketStages'
    BY <1>3, MarketTable, MarketClerk DEF Market!ClerkWrites
  <2>3. MarketKinds'
    BY <1>3 DEF Market!ClerkWrites
  <2>4. MarketImports'
    BY <1>3 DEF Market!ClerkWrites
  <2>5. MarketDone'
    BY <1>3 DEF Market!ClerkWrites
  <2>6. MarketStops'
    BY <1>3, MarketTable, MarketClerk DEF Market!ClerkWrites
  <2>7. Market!ReservedIsWorked'
    BY <1>3 DEF Market!ClerkWrites
  <2> QED
    BY <2>1, <2>2, <2>3, <2>4, <2>5, <2>6, <2>7
<1> QED
  BY <1>1, <1>2, <1>3 DEF MarketClerkStep


LEMMA MarketNextIInv ==
    ASSUME MarketBounds, MarketIInv, [Market!Next]_(Market!vars) PROVE MarketIInv'
<1>1. ASSUME NEW e \in Events, MarketJobStep(e) PROVE MarketIInv'
  BY <1>1, MarketTypesJob, MarketStagesJob, MarketKindsJob, MarketImportsJob, MarketDoneJob,
     MarketStopsJob, MarketReservedJob DEF MarketIInv
<1>2. ASSUME NEW c \in Clerks, MarketClerkStep(c) PROVE MarketIInv'
  BY <1>2, MarketClerkKeeps
<1>3. CASE UNCHANGED Market!vars
  BY <1>3 DEF Market!vars, MarketIInv, MarketTypes, MarketStages, MarketLinked, MarketKinds,
     MarketImports, MarketDone, MarketStops, Market!ReservedIsWorked
<1> QED
  BY <1>1, <1>2, <1>3 DEF Market!Next, MarketJobStep, MarketClerkStep

LEMMA MarketIInvFollows == MarketIInv => Market!RegisterHears
<1> SUFFICES ASSUME MarketIInv PROVE Market!RegisterHears
  OBVIOUS
<1>1. Market!AcceptedIsImported /\ Market!LinkedIsImported
  BY DEF MarketIInv, MarketStages, MarketImports, MarketLinked, Market!AcceptedIsImported,
     Market!LinkedIsImported
<1>2. Market!CompletedIsOnRegister /\ Market!CancelStops
  BY DEF MarketIInv, MarketDone, MarketStops, MarketLinked, Market!CompletedIsOnRegister,
     Market!CancelStops
<1> QED
  BY <1>1, <1>2 DEF MarketIInv, Market!RegisterHears

\* The composition starts as the import does, and each of its steps is one of the
\* import's or leaves it alone.
LEMMA MarketStarts == Init => Market!Init
  BY DEF Init

LEMMA MarketSteps == [Next]_vars => [Market!Next]_(Market!vars)
  BY DEF Next, VoiceNext, MarketNext, StripeNext, RefundsNext, CoursesNext,
     vars, MarketVars, Market!vars

\* The marketplace import among the other parts of the back end, for any number of
\* events, staff requests, attempts and stalls: no accept without an imported order, no
\* created or canceled event recorded as done that the register did not hear, no
\* reserved event forgotten, with the exceptions the five properties name.
THEOREM RegisterHearsAll == Spec => []RegisterHears
<1>1. Init => MarketIInv
  BY MarketStarts, MarketAssumption, MarketInitIInv
<1>2. MarketIInv /\ [Next]_vars => MarketIInv'
  BY MarketSteps, MarketAssumption, MarketNextIInv
<1>3. MarketIInv => RegisterHears
  BY MarketIInvFollows DEF RegisterHears
<1> QED
  BY <1>1, <1>2, <1>3, PTL DEF Spec
--------------------------------------------------------------------------------
\* All parts together: the types.
\* The answered events have been sent.
StripeAnswered == se_answered \subseteq Stripe!Sent

LEMMA StripeAnsweredStarts == ASSUME Stripe!Init PROVE StripeAnswered
  BY DEF Stripe!Init, StripeAnswered

LEMMA StripeAnsweredStep ==
    ASSUME StripeBounds, StripeIInv, StripeAnswered, [Stripe!Next]_(Stripe!vars)
    PROVE  StripeAnswered'
<1>1. Stripe!Sent \subseteq Stripe!Sent'
  <2>1. ASSUME NEW kind, NEW s, NEW c, NEW d, Stripe!Tell(kind, s, c, d)
        PROVE  Stripe!Sent \subseteq Stripe!Sent'
    <3> DEFINE e == [kind |-> kind, sub |-> s, cust |-> c, data |-> d]
    <3>1. se_sent' = Append(se_sent, e)
      BY <2>1 DEF Stripe!Tell
    <3> HIDE DEF e
    <3>2. Len(se_sent') = Len(se_sent) + 1 /\ Len(se_sent) \in Nat
      BY <3>1 DEF StripeIInv, StripeTypes
    <3> QED
      BY <3>2 DEF Stripe!Sent
  <2>2. ASSUME NEW s \in Subs, Stripe!Buy(s) \/ Stripe!Change(s) \/ Stripe!End(s)
        PROVE  Stripe!Sent \subseteq Stripe!Sent'
    BY <2>1, <2>2 DEF Stripe!Buy, Stripe!Change, Stripe!End
  <2>3. CASE UNCHANGED se_sent
    BY <2>3 DEF Stripe!Sent
  <2>4. ASSUME NEW i \in Rows, Stripe!AddLocation(i) PROVE UNCHANGED se_sent
    BY <2>4 DEF Stripe!AddLocation
  <2>5. ASSUME NEW n \in Stripe!Numbers, Stripe!Handle(n) PROVE UNCHANGED se_sent
    BY <2>5 DEF Stripe!Handle, Stripe!Claim, Stripe!Duplicate, Stripe!Retrieve, Stripe!FindOrg,
       Stripe!FindRow, Stripe!WriteCheckout, Stripe!WriteUpdated, Stripe!WriteDeleted,
       Stripe!Finish, Stripe!Fail, Stripe!Die
  <2> QED
    BY <2>2, <2>3, <2>4, <2>5 DEF Stripe!Next, Stripe!vars
<1>2. \A n \in se_answered' : n \in se_answered \/ n \in Stripe!Sent
  <2>1. ASSUME NEW n \in Stripe!Numbers, Stripe!Finish(n) PROVE n \in Stripe!Sent
    BY <2>1, StripeAtWork DEF Stripe!Finish, StripeIInv, StripeHands
  <2>2. ASSUME NEW n \in Stripe!Numbers, Stripe!Handle(n)
        PROVE  \A m \in se_answered' : m \in se_answered \/ m \in Stripe!Sent
    BY <2>1, <2>2 DEF Stripe!Handle, Stripe!Claim, Stripe!Duplicate, Stripe!Retrieve,
       Stripe!FindOrg, Stripe!FindRow, Stripe!WriteCheckout, Stripe!WriteUpdated,
       Stripe!WriteDeleted, Stripe!Finish, Stripe!Fail, Stripe!Die
  <2>3. ASSUME NEW s \in Subs, Stripe!Buy(s) \/ Stripe!Change(s) \/ Stripe!End(s)
        PROVE  UNCHANGED se_answered
    BY <2>3 DEF Stripe!Buy, Stripe!Change, Stripe!End, Stripe!Tell
  <2>4. ASSUME NEW i \in Rows, Stripe!AddLocation(i) PROVE UNCHANGED se_answered
    BY <2>4 DEF Stripe!AddLocation
  <2> QED
    BY <2>2, <2>3, <2>4 DEF Stripe!Next, Stripe!vars
<1> QED
  BY <1>1, <1>2 DEF StripeAnswered

\* Every part of the back end keeps the types of its state.
THEOREM BackendTypeOK == Spec => []TypeOK
<1> DEFINE IInv == VoiceIInv /\ MarketIInv /\ StripeIInv /\ StripeAnswered /\ RefundIInv
                   /\ CourseIInv
<1>1. Init => IInv
  BY VoiceStarts, VoiceAssumption, VoiceInitIInv, MarketStarts, MarketAssumption,
     MarketInitIInv, StripeStarts, StripeAssumption, StripeInitIInv, StripeAnsweredStarts,
     RefundStarts, RefundInitIInv, CourseStarts, CourseAssumption, CourseInitIInv
<1>2. IInv /\ [Next]_vars => IInv'
  BY VoiceSteps, VoiceAssumption, VoiceNextIInv, MarketSteps, MarketAssumption,
     MarketNextIInv, StripeSteps, StripeAssumption, StripeNextIInv, StripeAnsweredStep,
     RefundSteps, RefundNextIInv, CourseSteps, CourseAssumption, CourseNextIInv
<1>3. IInv => TypeOK
  <2> SUFFICES ASSUME IInv PROVE TypeOK
    OBVIOUS
  <2>1. Voice!TypeOK
    BY DEF VoiceIInv
  <2>2. Market!TypeOK
    <3>1. DOMAIN Market!Mapped = {"new", "accepted", "canceled"}
      BY DEF Market!Mapped
    <3>2. \A e \in Events : mi_tries[e].failed <= MaxAttempts
             /\ mi_tries[e].stalled <= MaxStalls + 1
      BY MarketAssumption DEF MarketIInv, MarketTypes, MarketBounds
    <3> QED
      BY <3>1, <3>2, MarketAssumption DEF MarketIInv, MarketTypes, Market!TypeOK, MarketBounds
  <2>3. Stripe!TypeOK
    <3>1. StripeState \subseteq Stripe!Data
      BY DEF StripeState, Stripe!Data
    <3>2. \A s \in Subs : se_stripe[s] = Stripe!NoSub
             \/ se_stripe[s] \in [cust : Subs, data : Stripe!Data]
      BY <3>1 DEF StripeIInv, StripeTypes
    <3>3. se_handler \in [Stripe!Numbers -> {Stripe!Idle} \cup
            [step : {"retrieve", "find", "write", "done"}, data : Stripe!Data,
             key : {"sub", "cust", "org", "none"}]]
      BY <3>1 DEF StripeIInv, StripeTypes
    <3> QED
      BY <3>2, <3>3 DEF StripeIInv, StripeTypes, StripeAnswered, Stripe!TypeOK
  <2>4. Refunds!TypeOK
    BY DEF RefundIInv
  <2>5. Courses!TypeOK
    BY DEF CourseIInv
  <2> QED
    BY <2>1, <2>2, <2>3, <2>4, <2>5 DEF TypeOK
<1> QED
  BY <1>1, <1>2, <1>3, PTL DEF Spec
================================================================================
