----------------------------- MODULE WorkersProofs -----------------------------
(***************************************************************************)
(* The workers, proved as the composition runs them.                       *)
(* The published menu: whoever reads it is shown every edit that was due   *)
(* (MenuIInv), and every edit reaches the agent, has a job that will bring *)
(* it, or is noted as lost (MenuAgentInv).  The recordings: the minutes of *)
(* a call are billed once (CallIInv).  The tenant: what is bought is       *)
(* known, and an active location can be called (TenantIInv); what is       *)
(* bought and cloned is paid for by attempts (TenantCapped), so that the   *)
(* counters keep within their types.  The outbox has a module of its own.  *)
(***************************************************************************)
EXTENDS SyncProofs, Sums

\* A reader between its stamp and its answer, and one that has no stamp.
MenuAsking == {"look", "query", "store", "have"}
MenuReader == [pc : MenuAsking, stamp : Menu!Stamps, due : Nat, clears : Nat, menu : Nat,
               late : BOOLEAN]
MenuAway   == [pc : {"idle", "uploaded", "embedded"}]

MenuTypeInv ==
    /\ mp_menu \in Nat /\ mp_due \in Nat /\ mp_clears \in Nat
    /\ mp_clock \in 1..MaxClock /\ mp_stamp \in Menu!Stamps
    /\ mp_stamped \in [Menu!Stamps -> 0..2]
    /\ mp_cache \in [Menu!Stamps -> [menu : Nat, kept : BOOLEAN, late : BOOLEAN]]
    /\ mp_edit \in [Editors -> {Menu!Idle}
                                \cup [pc : {"bump"}, menu : Nat, since : Nat \ {0}]
                                \cup [pc : {"get", "remove", "add"}, menu : Nat]]
    /\ mp_import \in {Menu!Idle} \cup [pc : {"clear"}, menu : Nat]
    /\ mp_read \in [Menu!Actors -> MenuReader \cup MenuAway]

\* What is due was committed, and a reader knows of nothing later.
MenuDueIsPast ==
    /\ mp_due <= mp_menu
    /\ \A e \in Editors : Menu!Editing(e, "bump") => mp_edit[e].menu <= mp_menu
    /\ mp_import.pc = "clear" => mp_import.menu <= mp_menu
    /\ \A a \in Menu!Actors : mp_read[a].pc \in MenuAsking =>
         mp_read[a].due <= mp_due /\ mp_read[a].clears <= mp_clears

\* No stamp is used, by a reader or an entry, before it was set.
MenuStampsAreSet ==
    /\ mp_stamp = 0 \/ mp_stamped[mp_stamp] >= 1
    /\ \A t \in Menu!Stamps : mp_cache[t].kept => t = 0 \/ mp_stamped[t] >= 1
    /\ \A a \in Menu!Actors : mp_read[a].pc \in MenuAsking =>
         mp_read[a].stamp = 0 \/ mp_stamped[mp_read[a].stamp] >= 1

\* An entry under a stamp set once serves who will look it up, and who is about to.
MenuEntriesServe ==
    \A t \in Menu!Stamps : mp_cache[t].kept /\ ~mp_cache[t].late /\ mp_stamped[t] < 2 =>
        /\ mp_stamp = t => mp_due <= mp_cache[t].menu
        /\ \A a \in Menu!Actors : Menu!Reading(a, "look") /\ mp_read[a].stamp = t =>
             mp_read[a].due <= mp_cache[t].menu

\* So will the entry a reader is about to store, unless the cache was cleared.
MenuStoresWillServe ==
    \A a \in Menu!Actors : Menu!Reading(a, "store") /\ ~Menu!Tied(a)
       /\ mp_read[a].clears = mp_clears =>
        /\ mp_stamp = mp_read[a].stamp => mp_due <= mp_read[a].menu
        /\ \A b \in Menu!Actors : Menu!Reading(b, "look")
                /\ mp_read[b].stamp = mp_read[a].stamp =>
             mp_read[b].due <= mp_read[a].menu

MenuRowsAreFresh ==
    \A a \in Menu!Actors : Menu!Reading(a, "store") => mp_read[a].due <= mp_read[a].menu

MenuIInv ==
    /\ MenuTypeInv /\ MenuDueIsPast /\ MenuStampsAreSet
    /\ MenuEntriesServe /\ MenuStoresWillServe
    /\ MenuRowsAreFresh /\ Menu!ReadsAreFresh
--------------------------------------------------------------------------------
\* The invariant holds before the first edit.
LEMMA MenuInitIInv == ASSUME MenuBounds, Menu!Init PROVE MenuIInv
<1>1. MenuTypeInv
  BY DEF MenuBounds, Menu!Init, MenuTypeInv, Menu!Stamps, Menu!NoEntry, Menu!Idle, MenuAway
<1>2. \A a \in Menu!Actors : mp_read[a].pc = "idle"
  BY DEF Menu!Init, Menu!Idle
<1>3. MenuDueIsPast /\ MenuStampsAreSet
  BY <1>2, Z3 DEF Menu!Init, MenuDueIsPast, MenuStampsAreSet, Menu!Editing, Menu!Idle,
     MenuAsking, Menu!NoEntry, Menu!Stamps
<1>4. MenuEntriesServe
  BY DEF Menu!Init, MenuEntriesServe, Menu!NoEntry
<1>5. MenuStoresWillServe /\ MenuRowsAreFresh /\ Menu!ReadsAreFresh
  BY <1>2 DEF MenuStoresWillServe, MenuRowsAreFresh, Menu!ReadsAreFresh, Menu!Reading
<1> QED BY <1>1, <1>3, <1>4, <1>5 DEF MenuIInv

\* What a reader that has a stamp holds.
LEMMA MenuAskingReads ==
    ASSUME MenuTypeInv, NEW a \in Menu!Actors, mp_read[a].pc \in MenuAsking
    PROVE  mp_read[a] \in MenuReader
BY DEF MenuTypeInv, MenuAsking, MenuReader, MenuAway

\* Steps that touch neither the readers nor the cache.
LEMMA MenuStillReads ==
    ASSUME MenuIInv, MenuTypeInv', MenuDueIsPast',
           UNCHANGED <<mp_stamp, mp_stamped, mp_clears, mp_cache, mp_due, mp_read>>
    PROVE  MenuIInv'
<1>1. MenuStampsAreSet' /\ MenuEntriesServe'
  BY DEF MenuIInv, MenuStampsAreSet, MenuEntriesServe, Menu!Reading
<1>2. MenuStoresWillServe' /\ MenuRowsAreFresh' /\ Menu!ReadsAreFresh'
  BY DEF MenuIInv, MenuStoresWillServe, MenuRowsAreFresh, Menu!ReadsAreFresh,
     Menu!Reading, Menu!Tied
<1> QED BY <1>1, <1>2 DEF MenuIInv

\* A reader is done, or its call has failed.
LEMMA MenuLeaves ==
    ASSUME MenuIInv, NEW p \in Menu!Actors, NEW r \in MenuAway,
              mp_read' = [mp_read EXCEPT ![p] = r],
           UNCHANGED <<mp_menu, mp_clock, mp_stamp, mp_stamped, mp_clears, mp_cache,
           mp_due, mp_edit, mp_import>>
    PROVE  MenuIInv'
<1>1. \A b \in Menu!Actors \ {p} : mp_read'[b] = mp_read[b]
  BY DEF MenuIInv, MenuTypeInv
<1>2. mp_read'[p] = r /\ r.pc \notin MenuAsking
  BY DEF MenuIInv, MenuTypeInv, MenuAway, MenuAsking
<1>3. MenuTypeInv'
  BY DEF MenuIInv, MenuTypeInv
<1>4. \A b \in Menu!Actors : mp_read'[b].pc \in MenuAsking => b # p /\ mp_read'[b] = mp_read[b]
  BY <1>1, <1>2
<1>5. \A b \in Menu!Actors : \A pc \in MenuAsking : Menu!Reading(b, pc)' => b # p
         /\ mp_read'[b] = mp_read[b]
  BY <1>4 DEF Menu!Reading
<1>6. MenuDueIsPast' /\ MenuStampsAreSet'
  BY <1>4 DEF MenuIInv, MenuDueIsPast, MenuStampsAreSet, Menu!Editing
<1>7. MenuEntriesServe'
  BY <1>5 DEF MenuIInv, MenuEntriesServe, Menu!Reading, MenuAsking
<1>8. MenuStoresWillServe' /\ MenuRowsAreFresh' /\ Menu!ReadsAreFresh'
  BY <1>5 DEF MenuIInv, MenuStoresWillServe, MenuRowsAreFresh, Menu!ReadsAreFresh,
     Menu!Reading, MenuAsking, Menu!Tied
<1> QED BY <1>3, <1>6, <1>7, <1>8 DEF MenuIInv
--------------------------------------------------------------------------------
\* A reader takes the stamp: what is under it, or will be, is as new as what is due.
LEMMA MenuReadStampKeeps ==
    ASSUME MenuIInv, NEW a \in Menu!Actors, Menu!ReadStamp(a),
           UNCHANGED <<mp_menu, mp_clock, mp_stamp, mp_stamped, mp_clears, mp_cache,
           mp_due, mp_edit, mp_import>>
    PROVE  MenuIInv'
<1> DEFINE new == [pc |-> "look", stamp |-> mp_stamp, due |-> mp_due, clears |-> mp_clears,
                   menu |-> 0, late |-> FALSE]
<1>1. mp_read' = [mp_read EXCEPT ![a] = new]
  BY DEF Menu!ReadStamp
<1>2. new \in MenuReader /\ new.pc = "look" /\ new.stamp = mp_stamp /\ new.due = mp_due
        /\ new.clears = mp_clears
  BY DEF MenuIInv, MenuTypeInv, MenuReader, MenuAsking
<1> HIDE DEF new
<1>3. mp_read'[a] = new /\ \A b \in Menu!Actors \ {a} : mp_read'[b] = mp_read[b]
  BY <1>1 DEF MenuIInv, MenuTypeInv
<1>4. MenuTypeInv'
  BY <1>1, <1>2 DEF MenuIInv, MenuTypeInv
<1>5. MenuDueIsPast'
  BY <1>2, <1>3 DEF MenuIInv, MenuTypeInv, MenuDueIsPast, Menu!Editing
<1>6. MenuStampsAreSet'
  BY <1>2, <1>3 DEF MenuIInv, MenuStampsAreSet
<1>7. MenuEntriesServe'
  BY <1>2, <1>3 DEF MenuIInv, MenuEntriesServe, Menu!Reading
<1>8. MenuStoresWillServe' /\ MenuRowsAreFresh' /\ Menu!ReadsAreFresh'
  BY <1>2, <1>3 DEF MenuIInv, MenuStoresWillServe, MenuRowsAreFresh, Menu!ReadsAreFresh,
     Menu!Reading, Menu!Tied
<1> QED BY <1>4, <1>5, <1>6, <1>7, <1>8 DEF MenuIInv

\* A hit is as new as what was due, unless the stamp is tied or the entry late.
LEMMA MenuLookKeeps ==
    ASSUME MenuIInv, NEW a \in Menu!Actors, Menu!Look(a)
    PROVE  MenuIInv'
<1> DEFINE entry == mp_cache[mp_read[a].stamp]
           new == [mp_read[a] EXCEPT !.pc   = IF entry.kept THEN "have" ELSE "query",
                                     !.menu = entry.menu, !.late = entry.late]
<1>1. mp_read[a] \in MenuReader /\ mp_read[a].pc = "look"
  BY MenuAskingReads DEF Menu!Look, Menu!Reading, MenuIInv, MenuAsking
<1>2. mp_read[a].stamp \in Menu!Stamps /\ entry \in [menu : Nat, kept : BOOLEAN, late : BOOLEAN]
  BY <1>1 DEF MenuReader, MenuIInv, MenuTypeInv
<1>3. /\ new \in MenuReader /\ new.pc = IF entry.kept THEN "have" ELSE "query"
      /\ new.menu = entry.menu /\ new.late = entry.late
      /\ new.stamp = mp_read[a].stamp /\ new.due = mp_read[a].due
      /\ new.clears = mp_read[a].clears
  BY <1>1, <1>2 DEF MenuReader, MenuAsking
<1>4. mp_read' = [mp_read EXCEPT ![a] = new]
  BY DEF Menu!Look
<1>5. UNCHANGED <<mp_menu, mp_clock, mp_stamp, mp_stamped, mp_clears, mp_cache, mp_due,
         mp_edit, mp_import>>
  BY DEF Menu!Look
<1> HIDE DEF new
<1>6. mp_read'[a] = new /\ \A b \in Menu!Actors \ {a} : mp_read'[b] = mp_read[b]
  BY <1>4 DEF MenuIInv, MenuTypeInv
<1>7. MenuTypeInv'
  BY <1>3, <1>4, <1>5 DEF MenuIInv, MenuTypeInv
<1>8. MenuDueIsPast' /\ MenuStampsAreSet'
  BY <1>1, <1>3, <1>5, <1>6 DEF MenuIInv, MenuDueIsPast, MenuStampsAreSet, Menu!Editing,
     MenuAsking
<1>9. MenuEntriesServe' /\ MenuStoresWillServe' /\ MenuRowsAreFresh'
  BY <1>3, <1>5, <1>6 DEF MenuIInv, MenuEntriesServe, MenuStoresWillServe,
     MenuRowsAreFresh, Menu!Reading, Menu!Tied
<1>10. entry.kept => entry.menu >= mp_read[a].due \/ Menu!Tied(a) \/ entry.late
  <2> SUFFICES ASSUME entry.kept, ~Menu!Tied(a), ~entry.late PROVE mp_read[a].due <= entry.menu
    BY <1>1, <1>2 DEF MenuReader
  <2>1. mp_stamped[mp_read[a].stamp] < 2
    BY <1>2 DEF Menu!Tied, MenuIInv, MenuTypeInv
  <2> QED BY <1>1, <1>2, <2>1 DEF MenuIInv, MenuEntriesServe, Menu!Reading
<1>11. Menu!ReadsAreFresh'
  BY <1>3, <1>5, <1>6, <1>10 DEF MenuIInv, Menu!ReadsAreFresh, Menu!Reading, Menu!Tied
<1> QED BY <1>7, <1>8, <1>9, <1>11 DEF MenuIInv

\* The rows hold all that was committed, so all that is due.
LEMMA MenuQueryKeeps ==
    ASSUME MenuIInv, NEW a \in Menu!Actors, Menu!Query(a)
    PROVE  MenuIInv'
<1> DEFINE new == [mp_read[a] EXCEPT !.pc = "store", !.menu = mp_menu]
<1>1. mp_read[a] \in MenuReader /\ mp_read[a].pc = "query"
  BY MenuAskingReads DEF Menu!Query, Menu!Reading, MenuIInv, MenuAsking
<1>2. /\ new \in MenuReader /\ new.pc = "store" /\ new.menu = mp_menu
      /\ new.stamp = mp_read[a].stamp /\ new.due = mp_read[a].due
      /\ new.clears = mp_read[a].clears
  BY <1>1 DEF MenuReader, MenuAsking, MenuIInv, MenuTypeInv
<1>3. mp_read' = [mp_read EXCEPT ![a] = new]
  BY DEF Menu!Query
<1>4. UNCHANGED <<mp_menu, mp_clock, mp_stamp, mp_stamped, mp_clears, mp_cache, mp_due,
         mp_edit, mp_import>>
  BY DEF Menu!Query
<1> HIDE DEF new
<1>5. mp_read'[a] = new /\ \A b \in Menu!Actors \ {a} : mp_read'[b] = mp_read[b]
  BY <1>3 DEF MenuIInv, MenuTypeInv
<1>6. MenuTypeInv'
  BY <1>2, <1>3, <1>4 DEF MenuIInv, MenuTypeInv
<1>7. MenuDueIsPast' /\ MenuStampsAreSet'
  BY <1>1, <1>2, <1>4, <1>5 DEF MenuIInv, MenuDueIsPast, MenuStampsAreSet, Menu!Editing,
     MenuAsking
<1>8. MenuEntriesServe' /\ Menu!ReadsAreFresh'
  BY <1>2, <1>4, <1>5 DEF MenuIInv, MenuEntriesServe, Menu!ReadsAreFresh, Menu!Reading,
     Menu!Tied
<1>9. mp_due <= mp_menu /\ \A b \in Menu!Actors : mp_read[b].pc \in MenuAsking
         => mp_read[b].due <= mp_menu
  <2>1. mp_due <= mp_menu
    BY DEF MenuIInv, MenuDueIsPast
  <2>2. ASSUME NEW b \in Menu!Actors, mp_read[b].pc \in MenuAsking
        PROVE mp_read[b].due <= mp_menu
    BY <2>1, <2>2, MenuAskingReads DEF MenuIInv, MenuTypeInv, MenuDueIsPast, MenuReader
  <2> QED BY <2>1, <2>2
<1>10. MenuRowsAreFresh'
  BY <1>1, <1>2, <1>5, <1>9 DEF MenuIInv, MenuRowsAreFresh, Menu!Reading, MenuAsking
<1>11. MenuStoresWillServe'
  BY <1>2, <1>4, <1>5, <1>9 DEF MenuIInv, MenuStoresWillServe, Menu!Reading, Menu!Tied,
     MenuAsking
<1> QED BY <1>6, <1>7, <1>8, <1>10, <1>11 DEF MenuIInv

\* What is stored serves who looks under its stamp, or is late.
LEMMA MenuStoreKeeps ==
    ASSUME MenuIInv, NEW a \in Menu!Actors, Menu!Store(a)
    PROVE  MenuIInv'
<1> DEFINE new == [mp_read[a] EXCEPT !.pc = "have"]
           t == mp_read[a].stamp
<1>1. mp_read[a] \in MenuReader /\ mp_read[a].pc = "store"
  BY MenuAskingReads DEF Menu!Store, Menu!Reading, MenuIInv, MenuAsking
<1>2. /\ new \in MenuReader /\ new.pc = "have" /\ new.menu = mp_read[a].menu
      /\ new.stamp = t /\ new.due = mp_read[a].due /\ new.clears = mp_read[a].clears
  BY <1>1 DEF MenuReader, MenuAsking
<1>3. /\ t \in Menu!Stamps /\ Menu!Entry(a) \in [menu : Nat, kept : BOOLEAN, late : BOOLEAN]
      /\ Menu!Entry(a).menu = mp_read[a].menu
      /\ ~Menu!Entry(a).late => mp_read[a].clears = mp_clears
  BY <1>1 DEF Menu!Entry, MenuReader
<1>4. /\ mp_read' = [mp_read EXCEPT ![a] = new]
           /\ mp_cache' = [mp_cache EXCEPT ![t] = Menu!Entry(a)]
      /\ UNCHANGED <<mp_menu, mp_clock, mp_stamp, mp_stamped, mp_clears, mp_due, mp_edit,
              mp_import>>
  BY DEF Menu!Store
<1> HIDE DEF new
<1>5. mp_read'[a] = new /\ \A b \in Menu!Actors \ {a} : mp_read'[b] = mp_read[b]
  BY <1>4 DEF MenuIInv, MenuTypeInv
<1>6. mp_cache'[t] = Menu!Entry(a) /\ \A u \in Menu!Stamps \ {t} : mp_cache'[u] = mp_cache[u]
  BY <1>3, <1>4 DEF MenuIInv, MenuTypeInv
<1> HIDE DEF t
<1>7. MenuTypeInv'
  BY <1>2, <1>3, <1>4 DEF MenuIInv, MenuTypeInv
<1>8. MenuDueIsPast'
  BY <1>1, <1>2, <1>4, <1>5 DEF MenuIInv, MenuDueIsPast, Menu!Editing, MenuAsking
<1>9. MenuStampsAreSet'
  BY <1>1, <1>2, <1>4, <1>5, <1>6 DEF MenuIInv, MenuStampsAreSet, MenuAsking, t
<1>10. ~Menu!Entry(a).late /\ mp_stamped[t] < 2 =>
         /\ mp_stamp = t => mp_due <= Menu!Entry(a).menu
         /\ \A b \in Menu!Actors : Menu!Reading(b, "look") /\ mp_read[b].stamp = t =>
              mp_read[b].due <= Menu!Entry(a).menu
  BY <1>1, <1>3 DEF MenuIInv, MenuStoresWillServe, Menu!Reading, Menu!Tied, t
<1>11. MenuEntriesServe'
  BY <1>2, <1>4, <1>5, <1>6, <1>10 DEF MenuIInv, MenuEntriesServe, Menu!Reading
<1>12. MenuStoresWillServe' /\ MenuRowsAreFresh'
  BY <1>2, <1>4, <1>5 DEF MenuIInv, MenuStoresWillServe, MenuRowsAreFresh, Menu!Reading,
     Menu!Tied
<1>13. mp_read[a].menu >= mp_read[a].due
  BY <1>1 DEF MenuIInv, MenuRowsAreFresh, Menu!Reading, MenuReader
<1>14. Menu!ReadsAreFresh'
  BY <1>2, <1>4, <1>5, <1>13 DEF MenuIInv, Menu!ReadsAreFresh, Menu!Reading, Menu!Tied
<1> QED BY <1>7, <1>8, <1>9, <1>11, <1>12, <1>14 DEF MenuIInv

\* A stamp that was used before is tied, and one that was not has no entry and no
\* reader: in neither case does anybody owe the edit that is due now.
LEMMA MenuBumpKeeps ==
    ASSUME MenuBounds, MenuIInv, NEW e \in Editors, Menu!Bump(e)
    PROVE  MenuIInv'
<1>1. mp_edit[e] \in [pc : {"bump"}, menu : Nat, since : Nat \ {0}]
  BY DEF Menu!Bump, Menu!Editing, MenuIInv, MenuTypeInv, Menu!Idle
<1>2. PICK t \in mp_edit[e].since..mp_clock :
        mp_stamp' = t /\ mp_stamped' = [mp_stamped EXCEPT ![t] = IF @ = 0 THEN 1 ELSE 2]
  BY DEF Menu!Bump
<1>3. t \in Menu!Stamps /\ t # 0
  BY <1>1 DEF MenuIInv, MenuTypeInv, MenuBounds, Menu!Stamps
<1>4. /\ mp_stamped'[t] = IF mp_stamped[t] = 0 THEN 1 ELSE 2
      /\ \A u \in Menu!Stamps \ {t} : mp_stamped'[u] = mp_stamped[u]
  BY <1>2, <1>3 DEF MenuIInv, MenuTypeInv
<1>5. UNCHANGED <<mp_menu, mp_clock, mp_clears, mp_cache, mp_import, mp_read>>
  BY DEF Menu!Bump
<1>6. mp_due' \in Nat /\ mp_due <= mp_due' /\ mp_due' <= mp_menu
  BY <1>1 DEF Menu!Bump, MenuIInv, MenuTypeInv, MenuDueIsPast, Menu!Editing
<1>7. MenuTypeInv'
  <2>1. mp_edit' \in [Editors -> {Menu!Idle}
                                \cup [pc : {"bump"}, menu : Nat, since : Nat \ {0}]
                                \cup [pc : {"get", "remove", "add"}, menu : Nat]]
    BY <1>1 DEF Menu!Bump, MenuIInv, MenuTypeInv
  <2>2. mp_stamped' \in [Menu!Stamps -> 0..2]
    BY <1>2, <1>3 DEF MenuIInv, MenuTypeInv
  <2> QED BY <1>2, <1>3, <1>5, <1>6, <2>1, <2>2 DEF MenuIInv, MenuTypeInv
<1>8. MenuDueIsPast'
  <2>1. ASSUME NEW d \in Editors, Menu!Editing(d, "bump")' PROVE mp_edit'[d].menu <= mp_menu
    <3>1. mp_edit' = [mp_edit EXCEPT ![e] = [pc |-> "get", menu |-> mp_edit[e].menu]]
      BY DEF Menu!Bump
    <3>2. d # e /\ mp_edit'[d] = mp_edit[d]
      BY <2>1, <3>1 DEF Menu!Editing, MenuIInv, MenuTypeInv
    <3> QED BY <2>1, <3>2 DEF MenuIInv, MenuDueIsPast, Menu!Editing
  <2>2. ASSUME NEW a \in Menu!Actors, mp_read[a].pc \in MenuAsking
        PROVE mp_read[a].due <= mp_due'
    BY <1>6, <2>2, MenuAskingReads DEF MenuIInv, MenuTypeInv, MenuDueIsPast, MenuReader
  <2> QED BY <1>5, <1>6, <2>1, <2>2 DEF MenuIInv, MenuDueIsPast
<1> mp_stamped \in [Menu!Stamps -> 0..2]
  BY DEF MenuIInv, MenuTypeInv
<1>9. \A u \in Menu!Stamps : mp_stamped[u] >= 1 => mp_stamped'[u] >= 1
  BY <1>4
<1>10. MenuStampsAreSet'
  <2>1. ASSUME NEW a \in Menu!Actors, mp_read[a].pc \in MenuAsking
        PROVE  mp_read[a].stamp = 0 \/ mp_stamped'[mp_read[a].stamp] >= 1
    BY <1>9, <2>1, MenuAskingReads DEF MenuIInv, MenuStampsAreSet, MenuReader
  <2> QED BY <1>2, <1>4, <1>5, <1>9, <2>1 DEF MenuIInv, MenuStampsAreSet
<1>11. \A u \in Menu!Stamps : mp_stamped'[u] < 2 => mp_stamped[u] < 2
          /\ (u = t => mp_stamped[u] = 0)
  BY <1>4
<1>12. ~mp_cache[t].kept \/ mp_stamped'[t] = 2
  BY <1>3, <1>4 DEF MenuIInv, MenuStampsAreSet
<1>13. MenuEntriesServe'
  BY <1>2, <1>3, <1>5, <1>11, <1>12 DEF MenuIInv, MenuEntriesServe, Menu!Reading
<1>14. ASSUME NEW a \in Menu!Actors, mp_read[a].pc \in MenuAsking
       PROVE  Menu!Tied(a) => mp_stamped'[mp_read[a].stamp] = 2
  BY <1>4, <1>14, MenuAskingReads DEF Menu!Tied, MenuReader, MenuIInv
<1>15. ASSUME NEW a \in Menu!Actors, mp_read[a].pc \in MenuAsking, mp_read[a].stamp = t
       PROVE  mp_stamped'[t] = 2
  BY <1>3, <1>4, <1>15 DEF MenuIInv, MenuStampsAreSet
<1>16. MenuStoresWillServe'
  BY <1>2, <1>5, <1>14, <1>15 DEF MenuIInv, MenuStoresWillServe, Menu!Reading, Menu!Tied,
     MenuAsking
<1>17. MenuRowsAreFresh' /\ Menu!ReadsAreFresh'
  BY <1>5, <1>14 DEF MenuIInv, MenuRowsAreFresh, Menu!ReadsAreFresh, Menu!Reading,
     Menu!Tied, MenuAsking
<1> QED BY <1>7, <1>8, <1>10, <1>13, <1>16, <1>17 DEF MenuIInv

\* Nothing is kept, and what a reader of before the clear will store is late.
LEMMA MenuImportClearKeeps ==
    ASSUME MenuBounds, MenuIInv, Menu!ImportClear
    PROVE  MenuIInv'
<1>1. mp_import \in [pc : {"clear"}, menu : Nat] /\ mp_import' = Menu!Idle
  BY DEF Menu!ImportClear, MenuIInv, MenuTypeInv
<1>2. /\ mp_stamp' = 0 /\ mp_cache' = [t \in Menu!Stamps |-> Menu!NoEntry]
           /\ mp_clears' = mp_clears + 1
      /\ UNCHANGED <<mp_menu, mp_clock, mp_stamped, mp_edit, mp_read>>
  BY DEF Menu!ImportClear
<1>3. mp_due' \in Nat /\ mp_due <= mp_due' /\ mp_due' <= mp_menu
  BY <1>1 DEF Menu!ImportClear, MenuIInv, MenuTypeInv, MenuDueIsPast
<1>4. \A t \in Menu!Stamps : ~mp_cache'[t].kept
  BY <1>2 DEF Menu!NoEntry
<1>5. MenuTypeInv'
  <2>1. mp_cache' \in [Menu!Stamps -> [menu : Nat, kept : BOOLEAN, late : BOOLEAN]]
    BY <1>2 DEF Menu!NoEntry
  <2>2. mp_stamp' \in Menu!Stamps /\ mp_clears' \in Nat
    BY <1>2 DEF MenuIInv, MenuTypeInv, Menu!Stamps, MenuBounds
  <2> QED BY <1>1, <1>2, <1>3, <2>1, <2>2 DEF MenuIInv, MenuTypeInv
<1>6. ASSUME NEW a \in Menu!Actors, mp_read[a].pc \in MenuAsking
      PROVE  mp_read[a].due <= mp_due' /\ mp_read[a].clears < mp_clears'
  BY <1>2, <1>3, <1>6, MenuAskingReads DEF MenuIInv, MenuTypeInv, MenuDueIsPast, MenuReader
<1>7. MenuDueIsPast'
  <2>1. ASSUME NEW a \in Menu!Actors, mp_read[a].pc \in MenuAsking
        PROVE mp_read[a].clears <= mp_clears'
    BY <1>2, <2>1, <1>6, MenuAskingReads DEF MenuIInv, MenuTypeInv, MenuReader
  <2> QED BY <1>1, <1>2, <1>3, <1>6, <2>1 DEF MenuIInv, MenuDueIsPast, Menu!Editing, Menu!Idle
<1>8. MenuStampsAreSet' /\ MenuEntriesServe'
  BY <1>2, <1>4 DEF MenuIInv, MenuStampsAreSet, MenuEntriesServe
<1>9. \A a \in Menu!Actors : mp_read[a].pc \in MenuAsking => mp_read[a].clears # mp_clears'
  BY <1>2, <1>6, MenuAskingReads DEF MenuIInv, MenuTypeInv, MenuReader
<1>10. MenuStoresWillServe'
  BY <1>2, <1>9 DEF MenuStoresWillServe, Menu!Reading, MenuAsking
<1>11. MenuRowsAreFresh' /\ Menu!ReadsAreFresh'
  BY <1>2 DEF MenuIInv, MenuRowsAreFresh, Menu!ReadsAreFresh, Menu!Reading, Menu!Tied
<1> QED BY <1>5, <1>7, <1>8, <1>10, <1>11 DEF MenuIInv
--------------------------------------------------------------------------------
\* The editors' steps that leave the cache alone.
LEMMA MenuEditorsKeep ==
    ASSUME MenuBounds, MenuIInv, NEW e \in Editors,
           Menu!Commit(e) \/ Menu!Flush(e) \/ Menu!GetJob(e) \/ Menu!RemoveJob(e)
              \/ Menu!AddJob(e) \/ Menu!EditDies(e)
    PROVE  MenuIInv'
<1> DEFINE Edits == {Menu!Idle} \cup [pc : {"bump"}, menu : Nat, since : Nat \ {0}]
                          \cup [pc : {"get", "remove", "add"}, menu : Nat]
<1>1. UNCHANGED <<mp_clock, mp_stamp, mp_stamped, mp_clears, mp_cache, mp_due, mp_import,
         mp_read>>
  BY DEF Menu!Commit, Menu!Flush, Menu!GetJob, Menu!RemoveJob, Menu!AddJob, Menu!EditDies
<1>2. mp_menu' \in Nat /\ mp_menu <= mp_menu'
  BY DEF Menu!Commit, Menu!Flush, Menu!GetJob, Menu!RemoveJob, Menu!AddJob, Menu!EditDies,
     MenuIInv, MenuTypeInv
<1>3. \E r \in Edits : /\ mp_edit' = [mp_edit EXCEPT ![e] = r]
                       /\ r.pc = "bump" => r.menu <= mp_menu'
  <2>1. CASE Menu!Commit(e) \/ Menu!Flush(e)
    <3>1. mp_clock \in Nat \ {0} /\ mp_menu \in Nat
      BY DEF MenuIInv, MenuTypeInv, MenuBounds
    <3>2. CASE Menu!Commit(e)
      <4> DEFINE r == [pc |-> "bump", menu |-> mp_menu + 1, since |-> mp_clock]
      <4>1. r \in Edits /\ r.menu <= mp_menu + 1
        BY <3>1
      <4> QED BY <3>2, <4>1 DEF Menu!Commit
    <3>3. CASE Menu!Flush(e)
      <4> DEFINE r == [pc |-> "bump", menu |-> 0, since |-> mp_clock]
      <4>1. r \in Edits /\ r.menu <= mp_menu
        BY <3>1
      <4> QED BY <3>3, <4>1 DEF Menu!Flush
    <3> QED BY <2>1, <3>2, <3>3
  <2>2. CASE Menu!GetJob(e) \/ Menu!RemoveJob(e)
    <3>1. PICK pc \in {"remove", "add"} : mp_edit' = [mp_edit EXCEPT ![e].pc = pc]
      BY <2>2 DEF Menu!GetJob, Menu!RemoveJob, Menu!EditTo
    <3>2. mp_edit[e] \in [pc : {"get", "remove", "add"}, menu : Nat]
      BY <2>2 DEF Menu!GetJob, Menu!RemoveJob, Menu!Editing, MenuIInv, MenuTypeInv,
         Menu!Idle
    <3> DEFINE r == [mp_edit[e] EXCEPT !.pc = pc]
    <3>3. r \in Edits /\ r.pc = pc
      BY <3>2
    <3> QED BY <3>1, <3>3
  <2>3. CASE Menu!AddJob(e) \/ Menu!EditDies(e)
    <3>1. mp_edit' = [mp_edit EXCEPT ![e] = Menu!Idle]
      BY <2>3 DEF Menu!AddJob, Menu!EditDies, Menu!Ended
    <3>2. Menu!Idle \in Edits /\ Menu!Idle.pc # "bump"
      BY DEF Menu!Idle
    <3> HIDE DEF Edits
    <3> QED BY <3>1, <3>2
  <2> QED BY <2>1, <2>2, <2>3
<1>4. MenuTypeInv'
  BY <1>1, <1>2, <1>3 DEF MenuIInv, MenuTypeInv
<1>5. MenuDueIsPast'
  <2>1. ASSUME NEW d \in Editors, Menu!Editing(d, "bump")' PROVE mp_edit'[d].menu <= mp_menu'
    <3>1. mp_edit[d].pc = "bump" => mp_edit[d].menu \in Nat /\ mp_edit[d].menu <= mp_menu'
      BY <1>2 DEF MenuIInv, MenuTypeInv, MenuDueIsPast, Menu!Editing, Menu!Idle
    <3> QED BY <1>3, <2>1, <3>1 DEF Menu!Editing, MenuIInv, MenuTypeInv
  <2>2. mp_due <= mp_menu' /\ (mp_import.pc = "clear" => mp_import.menu <= mp_menu')
    BY <1>2 DEF MenuIInv, MenuTypeInv, MenuDueIsPast, Menu!Idle
  <2> QED BY <1>1, <2>1, <2>2 DEF MenuIInv, MenuDueIsPast
<1> QED BY <1>1, <1>4, <1>5, MenuStillReads

\* The steps of the clock, the import and the job that leave the readers alone.
LEMMA MenuOthersKeep ==
    ASSUME MenuBounds, MenuIInv,
    Menu!Tick \/ Menu!ImportCommit \/ Menu!StartJob \/ UNCHANGED Menu!vars
    PROVE  MenuIInv'
<1>1. UNCHANGED <<mp_stamp, mp_stamped, mp_clears, mp_cache, mp_due, mp_edit, mp_read>>
  BY DEF Menu!Tick, Menu!ImportCommit, Menu!StartJob, Menu!vars
<1>2. /\ mp_menu' \in Nat /\ mp_menu <= mp_menu' /\ mp_clock' \in 1..MaxClock
      /\ mp_import' \in {Menu!Idle} \cup [pc : {"clear"}, menu : Nat]
      /\ mp_import'.pc = "clear" => mp_import'.menu <= mp_menu'
  <2>1. CASE Menu!ImportCommit
    BY <2>1 DEF Menu!ImportCommit, MenuIInv, MenuTypeInv
  <2>2. CASE Menu!Tick
    BY <2>2 DEF Menu!Tick, MenuIInv, MenuTypeInv, MenuDueIsPast, MenuBounds
  <2>3. CASE Menu!StartJob \/ UNCHANGED Menu!vars
    BY <2>3 DEF Menu!StartJob, Menu!vars, MenuIInv, MenuTypeInv, MenuDueIsPast
  <2> QED BY <2>1, <2>2, <2>3
<1>3. MenuTypeInv'
  BY <1>1, <1>2 DEF MenuIInv, MenuTypeInv
<1>4. ASSUME NEW e \in Editors, Menu!Editing(e, "bump") PROVE mp_edit[e].menu <= mp_menu'
  BY <1>2, <1>4 DEF MenuIInv, MenuTypeInv, MenuDueIsPast, Menu!Editing, Menu!Idle
<1>5. MenuDueIsPast'
  BY <1>1, <1>2, <1>4 DEF MenuIInv, MenuTypeInv, MenuDueIsPast, Menu!Editing
<1> QED BY <1>1, <1>3, <1>5, MenuStillReads

\* The steps that end a reading, or that a publisher takes after it.
LEMMA MenuPublishersKeep ==
    ASSUME MenuIInv,
           \/ \E g \in Guests : Menu!Answer(g)
           \/ \E p \in Menu!Publishers : Menu!Upload(p) \/ Menu!Embed(p) \/ Menu!Linked(p)
           \/ Menu!PressFails \/ Menu!JobRetries \/ Menu!JobGivesUp
    PROVE  MenuIInv'
<1>1. UNCHANGED <<mp_menu, mp_clock, mp_stamp, mp_stamped, mp_clears, mp_cache, mp_due,
         mp_edit, mp_import>>
  BY DEF Menu!Answer, Menu!Upload, Menu!Embed, Menu!Linked, Menu!PressFails,
     Menu!JobRetries, Menu!JobGivesUp
<1>2. Menu!Idle \in MenuAway /\ [pc |-> "uploaded"] \in MenuAway
  BY DEF Menu!Idle, MenuAway
<1>3. "job" \in Menu!Actors /\ "manual" \in Menu!Actors /\ Menu!Publishers \subseteq Menu!Actors
        /\ Guests \subseteq Menu!Actors
  BY DEF Menu!Actors, Menu!Publishers
<1>4. CASE \E p \in Menu!Publishers : Menu!Embed(p)
  <2> PICK p \in Menu!Publishers : Menu!Embed(p)
    BY <1>4
  <2>1. mp_read[p] \in MenuAway
    BY <1>3 DEF Menu!Embed, Menu!Reading, MenuIInv, MenuTypeInv, MenuReader, MenuAsking
  <2> DEFINE r == [mp_read[p] EXCEPT !.pc = "embedded"]
  <2>2. r \in MenuAway
    BY <2>1 DEF MenuAway
  <2>3. mp_read' = [mp_read EXCEPT ![p] = r]
    BY DEF Menu!Embed
  <2> HIDE DEF r
  <2> QED BY <1>1, <1>3, <2>2, <2>3, MenuLeaves
<1>5. CASE ~\E p \in Menu!Publishers : Menu!Embed(p)
  <2>1. PICK p \in Menu!Actors, r \in MenuAway : mp_read' = [mp_read EXCEPT ![p] = r]
    BY <1>2, <1>3, <1>5 DEF Menu!Answer, Menu!Upload, Menu!Linked, Menu!PressFails,
       Menu!JobRetries, Menu!JobGivesUp
  <2> QED BY <1>1, <2>1, MenuLeaves
<1> QED BY <1>4, <1>5

\* Every step of the menu keeps the invariant.
LEMMA MenuNextIInv == ASSUME MenuBounds, MenuIInv, [Menu!Next]_(Menu!vars) PROVE MenuIInv'
<1>1. CASE Menu!Tick \/ Menu!ImportCommit \/ Menu!StartJob \/ UNCHANGED Menu!vars
  BY <1>1, MenuOthersKeep
<1>2. ASSUME NEW e \in Editors,
             Menu!Commit(e) \/ Menu!Flush(e) \/ Menu!GetJob(e) \/ Menu!RemoveJob(e)
                \/ Menu!AddJob(e) \/ Menu!EditDies(e)
      PROVE  MenuIInv'
  BY <1>2, MenuEditorsKeep
<1>3. ASSUME NEW e \in Editors, Menu!Bump(e) PROVE MenuIInv'
  BY <1>3, MenuBumpKeeps
<1>4. CASE Menu!ImportClear
  BY <1>4, MenuImportClearKeeps
<1>5. ASSUME NEW a \in Menu!Actors, Menu!Look(a) \/ Menu!Query(a) \/ Menu!Store(a)
      PROVE MenuIInv'
  BY <1>5, MenuLookKeeps, MenuQueryKeeps, MenuStoreKeeps
<1>6. ASSUME NEW a \in Menu!Actors, Menu!ReadStamp(a),
             UNCHANGED <<mp_menu, mp_clock, mp_stamp, mp_stamped, mp_clears, mp_cache,
             mp_due, mp_edit, mp_import>>
      PROVE  MenuIInv'
  BY <1>6, MenuReadStampKeeps
<1>7. CASE (\E g \in Guests : Menu!Ask(g)) \/ Menu!Press \/ Menu!JobReads
  BY <1>6, <1>7 DEF Menu!Ask, Menu!Press, Menu!JobReads, Menu!Actors, Menu!Publishers
<1>8. CASE \/ \E g \in Guests : Menu!Answer(g)
           \/ \E p \in Menu!Publishers : Menu!Upload(p) \/ Menu!Embed(p) \/ Menu!Linked(p)
           \/ Menu!PressFails \/ Menu!JobRetries \/ Menu!JobGivesUp
  BY <1>8, MenuPublishersKeep
<1> QED BY <1>1, <1>2, <1>3, <1>4, <1>5, <1>7, <1>8 DEF Menu!Next

\* Whatever editors, readers, publishers and imports do, whoever asks for the menu
\* (getMenuByOrg) is shown every edit whose stamp was set before, but for two stamps
\* of one millisecond and what was read on both sides of a clear.
THEOREM MenuReadsAreFresh == ASSUME MenuBounds PROVE Menu!Spec => []Menu!ReadsAreFresh
<1>1. Menu!Init => MenuIInv
  BY MenuInitIInv
<1>2. MenuIInv /\ [Menu!Next]_(Menu!vars) => MenuIInv'
  BY MenuNextIInv
<1>3. MenuIInv => Menu!ReadsAreFresh
  BY DEF MenuIInv
<1> QED BY <1>1, <1>2, <1>3, PTL DEF Menu!Spec
--------------------------------------------------------------------------------
\* The composition starts as the menu does, and each of its steps is one of the menu's
\* or leaves it alone.
LEMMA MenuStarts == Init => Menu!Init
  BY DEF Init

LEMMA MenuSteps == [Next]_vars => [Menu!Next]_(Menu!vars)
  BY DEF Next, SyncNext, TenantNext, MenuNext, CallNext,
     vars, MenuVars, Menu!vars

\* The cached menu among the other workers: what MenuReadsAreFresh says, of every
\* behaviour of the composition.
THEOREM ReadsAreFreshAll == Spec => []ReadsAreFresh
<1>1. Init => MenuIInv
  BY MenuStarts, MenuAssumption, MenuInitIInv
<1>2. MenuIInv /\ [Next]_vars => MenuIInv'
  BY MenuSteps, MenuAssumption, MenuNextIInv
<1>3. MenuIInv => ReadsAreFresh
  BY DEF ReadsAreFresh, MenuIInv
<1> QED
  BY <1>1, <1>2, <1>3, PTL DEF Spec
--------------------------------------------------------------------------------
(***************************************************************************)
(* The published menu on its way to the agent                              *)
(***************************************************************************)
\* The job at work is the one that reads, and what a request has behind it is due or lost.
MenuJobType ==
    /\ mp_job \in [state : {"none", "delayed", "active", "failed"}, failed : Nat, died : Nat]
    /\ mp_bucket \in Nat /\ mp_agent \in Nat

MenuJobReads == mp_read["job"].pc # "idle" => mp_job.state = "active"

MenuBehind(v) ==
    \/ v <= mp_due \/ v \in mp_dropped
    \/ \E e \in Editors : Menu!Editing(e, "bump") /\ mp_edit[e].menu = v
    \/ mp_import.pc = "clear" /\ mp_import.menu = v
MenuHeardOf == \A v \in 1..mp_menu : MenuBehind(v)

\* The request of edit v is over.
MenuOver(v) ==
    /\ \A e \in Editors : mp_edit[e].pc # "idle" => mp_edit[e].menu # v
    /\ mp_import.pc # "idle" => mp_import.menu # v

MenuAgentInv == MenuJobType /\ MenuJobReads /\ MenuHeardOf /\ Menu!EditsReachTheAgent
--------------------------------------------------------------------------------
\* The invariants of the agent hold before the first edit.
LEMMA MenuInitAgent == ASSUME MenuBounds, Menu!Init PROVE MenuAgentInv
<1>1. MenuJobType /\ MenuJobReads
  BY DEF Menu!Init, Menu!NoJob, Menu!Idle, MenuJobType, MenuJobReads, Menu!Actors,
     Menu!Publishers
<1>2. 1..mp_menu = {}
  BY DEF Menu!Init
<1>3. MenuHeardOf /\ Menu!EditsReachTheAgent
  BY <1>2 DEF MenuHeardOf, Menu!EditsReachTheAgent, Menu!Missed
<1> QED
  BY <1>1, <1>3 DEF MenuAgentInv

\* No edit is missed that was not, but for those that are noted.
LEMMA MenuNoneMissed ==
    ASSUME Menu!EditsReachTheAgent,
           mp_dropped \subseteq mp_dropped',
           \A v \in 1..mp_menu' :
              v > mp_agent' /\ ~Menu!JobBrings(v)' /\ MenuOver(v)' /\ v \notin mp_dropped' =>
                 v \in 1..mp_menu /\ v > mp_agent /\ ~Menu!JobBrings(v) /\ MenuOver(v)
    PROVE  Menu!EditsReachTheAgent'
<1> SUFFICES ASSUME NEW v \in Menu!Missed' PROVE v \in mp_dropped'
  BY DEF Menu!EditsReachTheAgent
<1>1. v \in 1..mp_menu' /\ v > mp_agent' /\ ~Menu!JobBrings(v)' /\ MenuOver(v)'
  BY DEF Menu!Missed, MenuOver
<1>2. v \in 1..mp_menu /\ v > mp_agent /\ ~Menu!JobBrings(v) /\ MenuOver(v) => v \in Menu!Missed
  BY DEF Menu!Missed, MenuOver
<1> QED
  BY <1>1, <1>2 DEF Menu!EditsReachTheAgent

\* What is noted as lost is not missed.
LEMMA MenuNoted == ASSUME Menu!Missed' \subseteq mp_dropped' PROVE Menu!EditsReachTheAgent'
BY DEF Menu!EditsReachTheAgent

\* What is behind a request stays so, if its stamp is set, or its loss noted, when it goes on.
LEMMA MenuBehindKeeps ==
    ASSUME MenuHeardOf, MenuIInv, mp_due' \in Nat, mp_due <= mp_due', mp_menu' = mp_menu,
           mp_dropped \subseteq mp_dropped',
           \A e \in Editors : Menu!Editing(e, "bump") =>
              \/ Menu!Editing(e, "bump")' /\ mp_edit'[e].menu = mp_edit[e].menu
              \/ mp_edit[e].menu <= mp_due' \/ mp_edit[e].menu \in mp_dropped' \cup {0},
           mp_import.pc = "clear" => mp_import' = mp_import \/ mp_import.menu <= mp_due'
    PROVE  MenuHeardOf'
<1> SUFFICES ASSUME NEW v \in 1..mp_menu PROVE MenuBehind(v)'
  BY DEF MenuHeardOf
<1>1. MenuBehind(v) /\ v \in Nat /\ v # 0
  BY DEF MenuHeardOf, MenuIInv, MenuTypeInv
<1>2. CASE v <= mp_due \/ v \in mp_dropped
  BY <1>1, <1>2 DEF MenuBehind, MenuIInv, MenuTypeInv
<1>3. CASE \E e \in Editors : Menu!Editing(e, "bump") /\ mp_edit[e].menu = v
  BY <1>1, <1>3 DEF MenuBehind
<1>4. CASE mp_import.pc = "clear" /\ mp_import.menu = v
  BY <1>1, <1>4 DEF MenuBehind
<1> QED
  BY <1>1, <1>2, <1>3, <1>4 DEF MenuBehind

\* The editors' requests.
LEMMA MenuCommitHeard ==
    ASSUME MenuBounds, MenuIInv, MenuAgentInv, NEW e \in Editors, Menu!Commit(e)
    PROVE  MenuAgentInv'
<1> USE DEF MenuAgentInv
<1>1. /\ mp_menu' = mp_menu + 1 /\ mp_menu \in Nat /\ mp_edit[e].pc = "idle"
      /\ mp_edit' = [mp_edit EXCEPT ![e]
              = [pc |-> "bump", menu |-> mp_menu + 1, since |-> mp_clock]]
      /\ UNCHANGED <<mp_due, mp_import, mp_read, mp_job, mp_bucket, mp_agent, mp_dropped>>
  BY DEF Menu!Commit, Menu!Editing, MenuIInv, MenuTypeInv
<1>2. /\ mp_edit'[e].pc = "bump" /\ mp_edit'[e].menu = mp_menu + 1
      /\ \A d \in Editors \ {e} : mp_edit'[d] = mp_edit[d]
  BY <1>1 DEF MenuIInv, MenuTypeInv
<1>3. MenuJobType' /\ MenuJobReads'
  BY <1>1 DEF MenuJobType, MenuJobReads
<1>4. MenuHeardOf'
  <2> SUFFICES ASSUME NEW v \in 1..(mp_menu + 1) PROVE MenuBehind(v)'
    BY <1>1 DEF MenuHeardOf
  <2>1. CASE v = mp_menu + 1
    BY <1>2, <2>1 DEF MenuBehind, Menu!Editing
  <2>2. CASE v \in 1..mp_menu
    <3>1. MenuBehind(v)
      BY <2>2 DEF MenuHeardOf
    <3> QED
      BY <1>1, <1>2, <3>1 DEF MenuBehind, Menu!Editing
  <2> QED
    BY <1>1, <2>1, <2>2
<1>5. Menu!EditsReachTheAgent'
  <2> SUFFICES ASSUME NEW v \in 1..mp_menu', MenuOver(v)', ~Menu!JobBrings(v)'
               PROVE  v \in 1..mp_menu /\ ~Menu!JobBrings(v) /\ MenuOver(v)
    BY <1>1, MenuNoneMissed
  <2>1. v \in 1..mp_menu
    BY <1>1, <1>2 DEF MenuOver
  <2>2. MenuOver(v) /\ ~Menu!JobBrings(v)
    BY <1>1, <1>2 DEF MenuOver, Menu!JobBrings, Menu!Editing, Menu!Reading
  <2> QED
    BY <2>1, <2>2
<1> QED
  BY <1>3, <1>4, <1>5

\* An import commits: its edit is behind the import.
LEMMA MenuImportHeard ==
    ASSUME MenuBounds, MenuIInv, MenuAgentInv, Menu!ImportCommit
    PROVE  MenuAgentInv'
<1> USE DEF MenuAgentInv
<1>1. /\ mp_menu' = mp_menu + 1 /\ mp_menu \in Nat /\ mp_import.pc = "idle"
      /\ mp_import'.pc = "clear" /\ mp_import'.menu = mp_menu + 1
      /\ UNCHANGED <<mp_due, mp_edit, mp_read, mp_job, mp_bucket, mp_agent, mp_dropped>>
  BY DEF Menu!ImportCommit, Menu!Idle, MenuIInv, MenuTypeInv
<1>2. MenuJobType' /\ MenuJobReads'
  BY <1>1 DEF MenuJobType, MenuJobReads
<1>3. MenuHeardOf'
  <2> SUFFICES ASSUME NEW v \in 1..(mp_menu + 1) PROVE MenuBehind(v)'
    BY <1>1 DEF MenuHeardOf
  <2>1. CASE v = mp_menu + 1
    BY <1>1, <2>1 DEF MenuBehind
  <2>2. CASE v \in 1..mp_menu
    <3>1. MenuBehind(v)
      BY <2>2 DEF MenuHeardOf
    <3> QED
      BY <1>1, <3>1 DEF MenuBehind, Menu!Editing
  <2> QED
    BY <1>1, <2>1, <2>2
<1>4. Menu!EditsReachTheAgent'
  <2> SUFFICES ASSUME NEW v \in 1..mp_menu', MenuOver(v)', ~Menu!JobBrings(v)'
               PROVE  v \in 1..mp_menu /\ ~Menu!JobBrings(v) /\ MenuOver(v)
    BY <1>1, MenuNoneMissed
  <2>1. v \in 1..mp_menu
    BY <1>1 DEF MenuOver
  <2>2. MenuOver(v) /\ ~Menu!JobBrings(v)
    BY <1>1 DEF MenuOver, Menu!JobBrings, Menu!Editing, Menu!Reading
  <2> QED
    BY <2>1, <2>2
<1> QED
  BY <1>2, <1>3, <1>4

\* A request goes on, to the queue and to its end, or dies.
LEMMA MenuEditorsHeard ==
    ASSUME MenuBounds, MenuIInv, MenuIInv', MenuAgentInv, NEW e \in Editors,
           Menu!Flush(e) \/ Menu!Bump(e) \/ Menu!GetJob(e) \/ Menu!RemoveJob(e)
              \/ Menu!AddJob(e) \/ Menu!EditDies(e)
    PROVE  MenuAgentInv'
<1> USE DEF MenuAgentInv
<1>0. /\ UNCHANGED <<mp_menu, mp_import, mp_read, mp_bucket, mp_agent>>
      /\ mp_dropped \subseteq mp_dropped' /\ mp_menu \in Nat
      /\ mp_edit[e].pc # "idle" => mp_edit[e].menu \in Nat
      /\ mp_due \in Nat /\ mp_due' \in Nat
  BY DEF Menu!Flush, Menu!Bump, Menu!GetJob, Menu!RemoveJob, Menu!AddJob, Menu!EditDies,
         MenuIInv, MenuTypeInv, Menu!Idle
<1>1. PICK r : mp_edit' = [mp_edit EXCEPT ![e] = r]
  BY DEF Menu!Flush, Menu!Bump, Menu!GetJob, Menu!RemoveJob, Menu!AddJob, Menu!EditDies,
         Menu!EditTo, Menu!Ended
<1>2. mp_edit'[e] = r /\ \A d \in Editors \ {e} : mp_edit'[d] = mp_edit[d]
  BY <1>1 DEF MenuIInv, MenuTypeInv
<1>3. /\ mp_due <= mp_due'
      /\ Menu!Editing(e, "bump") =>
              mp_edit[e].menu <= mp_due' \/ mp_edit[e].menu \in mp_dropped' \cup {0}
      /\ Menu!Editing(e, "bump") => Menu!Bump(e) \/ Menu!EditDies(e)
  BY <1>0 DEF Menu!Flush, Menu!Bump, Menu!GetJob, Menu!RemoveJob, Menu!AddJob, Menu!EditDies,
          Menu!Editing
<1>4. MenuHeardOf'
  <2>1. \A d \in Editors : Menu!Editing(d, "bump") =>
              \/ Menu!Editing(d, "bump")' /\ mp_edit'[d].menu = mp_edit[d].menu
              \/ mp_edit[d].menu <= mp_due' \/ mp_edit[d].menu \in mp_dropped' \cup {0}
    BY <1>2, <1>3 DEF Menu!Editing
  <2> QED
    BY <1>0, <1>3, <2>1, MenuBehindKeeps
<1>5. MenuJobType'
  BY <1>0 DEF Menu!Flush, Menu!Bump, Menu!GetJob, Menu!RemoveJob, Menu!AddJob, Menu!EditDies,
          MenuJobType, Menu!NoJob
<1>6. MenuJobReads'
  BY <1>0 DEF Menu!Flush, Menu!Bump, Menu!GetJob, Menu!RemoveJob, Menu!AddJob, Menu!EditDies,
          MenuJobReads, MenuJobType, Menu!NoJob
\* A request that goes on keeps its edit.
<1>7. ASSUME NEW v \in 1..mp_menu, MenuOver(v)',
             mp_edit[e].pc # "idle" => mp_edit[e].menu # v
      PROVE  MenuOver(v)
  BY <1>0, <1>2, <1>7 DEF MenuOver
<1>8. CASE Menu!Flush(e)
  <2>1. mp_edit[e].pc = "idle" /\ UNCHANGED <<mp_job>>
    BY <1>8 DEF Menu!Flush, Menu!Editing
  <2>2. \A v \in 1..mp_menu : Menu!JobBrings(v) => Menu!JobBrings(v)'
    BY <1>0, <1>2, <2>1 DEF Menu!JobBrings, Menu!Editing, Menu!Reading
  <2> QED
    BY <1>0, <1>4, <1>5, <1>6, <1>7, <2>1, <2>2, MenuNoneMissed
<1>9. CASE Menu!Bump(e) \/ Menu!GetJob(e) \/ Menu!RemoveJob(e)
  <2>1. /\ r.menu = mp_edit[e].menu /\ r.pc # "idle"
             /\ mp_edit[e].pc \in {"bump", "get", "remove"}
        /\ mp_job' = mp_job
                \/ (mp_job.state # "active" /\ mp_job'.state = "none" /\ r.pc = "add")
    BY <1>0, <1>2, <1>9
       DEF Menu!Bump, Menu!GetJob, Menu!RemoveJob, Menu!Editing, Menu!EditTo, Menu!NoJob,
       MenuIInv, MenuTypeInv, Menu!Idle
  <2>2. \A v \in 1..mp_menu : Menu!JobBrings(v) => Menu!JobBrings(v)'
    BY <1>0, <1>2, <2>1 DEF Menu!JobBrings, Menu!Editing, Menu!Reading
  <2>3. \A v \in 1..mp_menu : MenuOver(v)' => MenuOver(v)
    BY <1>0, <1>2, <1>7, <2>1 DEF MenuOver
  <2> QED
    BY <1>0, <1>4, <1>5, <1>6, <2>2, <2>3, MenuNoneMissed
<1>10. CASE Menu!AddJob(e)
  <2>1. CASE mp_job.state = "none"
    <3>1. mp_job'.state = "delayed"
      BY <1>10, <2>1 DEF Menu!AddJob, Menu!NoJob
    <3>2. \A v \in 1..mp_menu : Menu!JobBrings(v)'
      BY <3>1 DEF Menu!JobBrings
    <3> QED
      BY <1>0, <1>4, <1>5, <1>6, <3>2, MenuNoneMissed
  <2>2. CASE mp_job.state # "none"
    <3>1. mp_job' = mp_job
             /\ mp_dropped' = mp_dropped \cup (Menu!Missed' \cap {mp_edit[e].menu})
      BY <1>10, <2>2 DEF Menu!AddJob
    <3>2. \A v \in 1..mp_menu : Menu!JobBrings(v) => Menu!JobBrings(v)'
      BY <1>0, <2>2, <3>1 DEF Menu!JobBrings, Menu!Reading
    <3>3. Menu!Missed' \ {mp_edit[e].menu} \subseteq Menu!Missed
      BY <1>0, <1>7, <3>2 DEF Menu!Missed, MenuOver
    <3>4. Menu!Missed' \subseteq mp_dropped'
      BY <3>1, <3>3 DEF Menu!EditsReachTheAgent
    <3> QED
      BY <1>4, <1>5, <1>6, <3>4, MenuNoted
  <2> QED
    BY <2>1, <2>2
<1>11. CASE Menu!EditDies(e)
  <2>1. Menu!Missed' \subseteq mp_dropped'
    BY <1>11 DEF Menu!EditDies
  <2> QED
    BY <1>4, <1>5, <1>6, <2>1, MenuNoted
<1> QED
  BY <1>8, <1>9, <1>10, <1>11

\* The clock, the start of the job and the clear of an import.
LEMMA MenuOthersHeard ==
    ASSUME MenuBounds, MenuIInv, MenuIInv', MenuAgentInv,
           Menu!Tick \/ Menu!StartJob \/ Menu!ImportClear \/ UNCHANGED Menu!vars
    PROVE  MenuAgentInv'
<1> USE DEF MenuAgentInv
<1>0. mp_due \in Nat /\ mp_due' \in Nat
  BY DEF MenuIInv, MenuTypeInv
<1>1. CASE Menu!Tick \/ Menu!StartJob \/ UNCHANGED Menu!vars
  <2>1. /\ UNCHANGED <<mp_menu, mp_due, mp_edit, mp_import, mp_read, mp_bucket, mp_agent,
             mp_dropped>>
        /\ \/ mp_job' = mp_job
           \/ mp_job.state = "delayed" /\ mp_job' = [mp_job EXCEPT !.state = "active"]
    BY <1>1 DEF Menu!Tick, Menu!StartJob, Menu!vars
  <2>2. MenuJobType' /\ MenuJobReads'
    BY <2>1 DEF MenuJobType, MenuJobReads
  <2>3. MenuHeardOf'
    BY <2>1 DEF MenuHeardOf, MenuBehind, Menu!Editing
  <2>4. \A v \in 1..mp_menu : Menu!JobBrings(v) => Menu!JobBrings(v)'
    BY <2>1 DEF Menu!JobBrings, Menu!Editing, Menu!Reading, MenuJobType, MenuJobReads
  <2>5. \A v \in 1..mp_menu : MenuOver(v)' => MenuOver(v)
    BY <2>1 DEF MenuOver
  <2> QED
    BY <2>1, <2>2, <2>3, <2>4, <2>5, MenuNoneMissed
<1>2. CASE Menu!ImportClear
  <2>1. /\ UNCHANGED <<mp_menu, mp_edit, mp_read, mp_bucket, mp_agent, mp_job>>
        /\ mp_dropped' = mp_dropped \cup Menu!Missed'
                /\ mp_import \in [pc : {"clear"}, menu : Nat]
        /\ mp_due' = IF mp_import.menu > mp_due THEN mp_import.menu ELSE mp_due
    BY <1>2 DEF Menu!ImportClear, Menu!Loses, MenuIInv, MenuTypeInv
  <2>2. MenuJobType' /\ MenuJobReads'
    BY <2>1 DEF MenuJobType, MenuJobReads
  <2>3. mp_due <= mp_due' /\ mp_import.menu <= mp_due'
    BY <1>0, <2>1
  <2>4. \A e \in Editors : Menu!Editing(e, "bump") =>
          Menu!Editing(e, "bump")' /\ mp_edit'[e].menu = mp_edit[e].menu
    BY <2>1 DEF Menu!Editing
  <2>5. MenuHeardOf'
    BY <1>0, <2>1, <2>3, <2>4, MenuBehindKeeps
  <2> QED
    BY <2>1, <2>2, <2>5, MenuNoted
<1> QED
  BY <1>1, <1>2

\* The readers: a guest or the button touches nothing of the job's.
LEMMA MenuReadersHeard ==
    ASSUME MenuBounds, MenuIInv, MenuAgentInv, NEW a \in Menu!Actors, NEW r,
           mp_read' = [mp_read EXCEPT ![a] = r],
           UNCHANGED <<mp_menu, mp_due, mp_edit, mp_import, mp_job, mp_bucket, mp_agent>>,
           a = "job" => mp_job.state = "active",
           \/ mp_dropped' = mp_dropped \cup Menu!Missed'
           \/ /\ mp_dropped' = mp_dropped
              /\ a = "job" => \A v \in 1..mp_menu : v \notin mp_dropped /\ MenuOver(v)
                      /\ Menu!JobBrings(v)
                                => v <= mp_agent \/ Menu!JobBrings(v)'
    PROVE  MenuAgentInv'
<1> USE DEF MenuAgentInv
<1> DEFINE Brings == \A v \in 1..mp_menu : v \notin mp_dropped /\ MenuOver(v)
       /\ Menu!JobBrings(v)
                        => v <= mp_agent \/ Menu!JobBrings(v)'
<1>1. MenuJobType' /\ MenuJobReads'
  BY DEF MenuJobType, MenuJobReads, MenuIInv, MenuTypeInv
<1>2. mp_dropped \subseteq mp_dropped'
  OBVIOUS
<1>3. MenuHeardOf'
  BY <1>2 DEF MenuHeardOf, MenuBehind, Menu!Editing
<1>4. CASE mp_dropped' = mp_dropped /\ (a = "job" => Brings)
  <2>1. a # "job" => mp_read'["job"] = mp_read["job"]
    BY DEF MenuIInv, MenuTypeInv
  <2>2. a # "job" => \A v \in 1..mp_menu : Menu!JobBrings(v) => Menu!JobBrings(v)'
    BY <2>1 DEF Menu!JobBrings, Menu!Editing, Menu!Reading
  <2>3. \A v \in 1..mp_menu : MenuOver(v)' => MenuOver(v)
    BY DEF MenuOver
  <2>4. ASSUME NEW v \in 1..mp_menu, v > mp_agent, ~Menu!JobBrings(v)', MenuOver(v)',
               v \notin mp_dropped
        PROVE  ~Menu!JobBrings(v) /\ MenuOver(v)
    <3>1. MenuOver(v)
      BY <2>3, <2>4
    <3>2. ~(v <= mp_agent)
      BY <2>4 DEF MenuIInv, MenuTypeInv, MenuJobType
    <3> QED
      BY <1>4, <2>2, <2>4, <3>1, <3>2
  <2>5. Menu!EditsReachTheAgent'
    BY <1>2, <1>4, <2>4, MenuNoneMissed
  <2> QED
    BY <1>1, <1>3, <2>5
<1>5. CASE mp_dropped' = mp_dropped \cup Menu!Missed'
  BY <1>1, <1>3, <1>5, MenuNoted
<1> QED
  BY <1>4, <1>5

\* A reader reads: the job, if it goes on, has read what it will bring.
LEMMA MenuLooksHeard ==
    ASSUME MenuBounds, MenuIInv, MenuAgentInv, NEW a \in Menu!Actors,
           Menu!Look(a) \/ Menu!Query(a) \/ Menu!Store(a)
    PROVE  MenuAgentInv'
<1> DEFINE entry == mp_cache[mp_read[a].stamp]
           look  == [mp_read[a] EXCEPT !.pc = IF entry.kept THEN "have" ELSE "query",
                                       !.menu = entry.menu, !.late = entry.late]
           query == [mp_read[a] EXCEPT !.pc = "store", !.menu = mp_menu]
           store == [mp_read[a] EXCEPT !.pc = "have"]
<1>0. /\ mp_read[a].pc \in {"look", "query", "store"} /\ mp_read[a] \in MenuReader
      /\ UNCHANGED <<mp_menu, mp_due, mp_edit, mp_import, mp_job, mp_bucket, mp_agent>>
  BY MenuAskingReads DEF Menu!Look, Menu!Query, Menu!Store, Menu!Reading, MenuIInv, MenuAsking
<1>1. a = "job" => mp_job.state = "active"
  BY <1>0 DEF MenuAgentInv, MenuJobReads
<1>2. CASE Menu!Look(a)
  <2>1. mp_read' = [mp_read EXCEPT ![a] = look] /\ mp_read[a].pc = "look"
    BY <1>2 DEF Menu!Look, Menu!Reading
  <2>2. /\ entry \in [menu : Nat, kept : BOOLEAN, late : BOOLEAN] /\ mp_read[a].due \in Nat
        /\ look.menu = entry.menu /\ look.pc \in {"have", "query"}
    BY <1>0 DEF MenuReader, MenuIInv, MenuTypeInv
  <2>3. mp_read'[a] = look
    BY <2>1 DEF MenuIInv, MenuTypeInv
  <2>4. \/ mp_dropped' = mp_dropped \cup Menu!Missed'
        \/ mp_dropped' = mp_dropped /\ (a = "job" => mp_read[a].due <= entry.menu)
    BY <1>2, <2>2 DEF Menu!Look, Menu!Loses
  <2> HIDE DEF look, entry
  <2>5. ASSUME a = "job", mp_read[a].due <= entry.menu
        PROVE  \A v \in 1..mp_menu : Menu!JobBrings(v) => Menu!JobBrings(v)'
    BY <1>0, <1>1, <2>1, <2>2, <2>3, <2>5 DEF Menu!JobBrings, Menu!Reading
  <2> QED
    BY <1>0, <1>1, <2>1, <2>4, <2>5, MenuReadersHeard
<1>3. CASE Menu!Query(a)
  <2>1. mp_read' = [mp_read EXCEPT ![a] = query] /\ mp_dropped' = mp_dropped
    BY <1>3 DEF Menu!Query
  <2>2. query.pc = "store" /\ query.menu = mp_menu
    BY <1>0 DEF MenuReader
  <2>3. mp_read'[a] = query
    BY <2>1 DEF MenuIInv, MenuTypeInv
  <2> HIDE DEF query
  <2>4. a = "job" => \A v \in 1..mp_menu : Menu!JobBrings(v)'
    BY <1>0, <1>1, <2>2, <2>3 DEF Menu!JobBrings, Menu!Reading, MenuIInv, MenuTypeInv
  <2> QED
    BY <1>0, <1>1, <2>1, <2>4, MenuReadersHeard
<1>4. CASE Menu!Store(a)
  <2>1. mp_read' = [mp_read EXCEPT ![a] = store] /\ mp_dropped' = mp_dropped
           /\ mp_read[a].pc = "store"
    BY <1>4 DEF Menu!Store, Menu!Reading
  <2>2. store.pc = "have" /\ store.menu = mp_read[a].menu
    BY <1>0 DEF MenuReader
  <2>3. mp_read'[a] = store
    BY <2>1 DEF MenuIInv, MenuTypeInv
  <2> HIDE DEF store
  <2>4. a = "job" => \A v \in 1..mp_menu : Menu!JobBrings(v) => Menu!JobBrings(v)'
    BY <1>0, <1>1, <2>1, <2>2, <2>3 DEF Menu!JobBrings, Menu!Reading
  <2> QED
    BY <1>0, <1>1, <2>1, <2>4, MenuReadersHeard
<1> QED
  BY <1>2, <1>3, <1>4

\* A reading begins: the stamp's due says what it will bring.
LEMMA MenuStampsHeard ==
    ASSUME MenuBounds, MenuIInv, MenuAgentInv,
           (\E g \in Guests : Menu!Ask(g)) \/ Menu!Press \/ Menu!JobReads
    PROVE  MenuAgentInv'
<1> DEFINE new == [pc |-> "look", stamp |-> mp_stamp, due |-> mp_due, clears |-> mp_clears,
                   menu |-> 0, late |-> FALSE]
<1>1. PICK a \in Menu!Actors :
        /\ mp_read' = [mp_read EXCEPT ![a] = new]
        /\ a = "job" => mp_job.state = "active" /\ mp_read[a].pc = "idle"
        /\ UNCHANGED <<mp_menu, mp_due, mp_edit, mp_import, mp_job, mp_bucket, mp_agent,
                mp_dropped>>
  BY DEF Menu!Ask, Menu!Press, Menu!JobReads, Menu!ReadStamp, Menu!Reading, Menu!Actors,
     Menu!Publishers,
         MenuBounds
<1>2. mp_read'[a] = new
  BY <1>1 DEF MenuIInv, MenuTypeInv
<1>3. ASSUME a = "job", NEW v \in 1..mp_menu, v \notin mp_dropped, MenuOver(v)
      PROVE  Menu!JobBrings(v)'
  <2>1. v <= mp_due
    BY <1>3 DEF MenuAgentInv, MenuHeardOf, MenuBehind, MenuOver, Menu!Editing
  <2>2. mp_read'["job"].pc = "look" /\ mp_read'["job"].due = mp_due
    BY <1>2, <1>3
  <2> QED
    BY <1>1, <1>3, <2>1, <2>2 DEF Menu!JobBrings, Menu!Reading, MenuIInv, MenuTypeInv
<1> HIDE DEF new
<1> QED
  BY <1>1, <1>3, MenuReadersHeard

\* The job is at work while the publisher it is reads, uploads or embeds.
LEMMA MenuPublishersHeard ==
    ASSUME MenuBounds, MenuIInv, MenuAgentInv,
           \/ \E g \in Guests : Menu!Answer(g)
           \/ \E p \in Menu!Publishers : Menu!Upload(p) \/ Menu!Embed(p) \/ Menu!Linked(p)
           \/ Menu!PressFails \/ Menu!JobRetries \/ Menu!JobGivesUp
    PROVE  MenuAgentInv'
<1> USE DEF MenuAgentInv
<1>0. /\ UNCHANGED <<mp_menu, mp_due, mp_edit, mp_import>>
      /\ mp_dropped \subseteq mp_dropped' /\ mp_menu \in Nat
      /\ "job" \in Menu!Actors /\ "manual" \in Menu!Actors
              /\ Menu!Publishers = {"job", "manual"}
      /\ Guests \subseteq Menu!Actors
  BY DEF Menu!Answer, Menu!Upload, Menu!Embed, Menu!Linked, Menu!PressFails, Menu!JobRetries,
         Menu!JobGivesUp, Menu!Loses, Menu!Actors, Menu!Publishers, MenuIInv, MenuTypeInv
<1>1. MenuHeardOf'
  BY <1>0 DEF MenuHeardOf, MenuBehind, Menu!Editing
<1>2. \A v \in 1..mp_menu : MenuOver(v)' => MenuOver(v)
  BY <1>0 DEF MenuOver
<1>3. CASE (\E g \in Guests : Menu!Answer(g)) \/ Menu!PressFails
  <2>1. PICK a \in Menu!Actors : a # "job" /\ mp_read' = [mp_read EXCEPT ![a] = Menu!Idle]
    BY <1>0, <1>3 DEF Menu!Answer, Menu!PressFails, MenuBounds
  <2>2. UNCHANGED <<mp_menu, mp_due, mp_edit, mp_import, mp_job, mp_bucket, mp_agent,
           mp_dropped>>
    BY <1>3 DEF Menu!Answer, Menu!PressFails
  <2> QED
    BY <2>1, <2>2, MenuReadersHeard
<1>4. ASSUME NEW p \in Menu!Publishers, Menu!Upload(p) PROVE MenuAgentInv'
  <2>1. /\ mp_read[p].pc = "have" /\ mp_bucket' = mp_read[p].menu
        /\ mp_read' = [mp_read EXCEPT ![p] = [pc |-> "uploaded"]]
        /\ UNCHANGED <<mp_job, mp_agent>>
        /\ IF mp_read[p].menu < mp_bucket THEN Menu!Loses ELSE mp_dropped' = mp_dropped
    BY <1>4 DEF Menu!Upload, Menu!Reading
  <2>2. p \in Menu!Actors /\ mp_read[p] \in MenuReader /\ mp_read[p].menu \in Nat
           /\ mp_bucket \in Nat
    BY <1>0, <2>1, MenuAskingReads DEF MenuIInv, MenuAsking, MenuReader, MenuJobType
  <2>3. mp_read'[p].pc = "uploaded" /\ \A b \in Menu!Actors \ {p} : mp_read'[b] = mp_read[b]
    BY <2>1, <2>2 DEF MenuIInv, MenuTypeInv
  <2>4. MenuJobType' /\ MenuJobReads'
    BY <1>0, <2>1, <2>2, <2>3 DEF MenuJobType, MenuJobReads
  <2>5. CASE mp_read[p].menu >= mp_bucket
    <3>1. \A v \in 1..mp_menu : Menu!JobBrings(v) => Menu!JobBrings(v)'
      BY <1>0, <2>1, <2>2, <2>3, <2>5 DEF Menu!JobBrings, Menu!Editing, Menu!Reading
    <3> QED
      BY <1>0, <1>1, <1>2, <2>1, <2>4, <3>1, MenuNoneMissed
  <2>6. CASE mp_read[p].menu < mp_bucket
    BY <1>1, <2>1, <2>4, <2>6, MenuNoted DEF Menu!Loses
  <2> QED
    BY <2>2, <2>5, <2>6
<1>5. ASSUME NEW p \in Menu!Publishers, Menu!Embed(p) PROVE MenuAgentInv'
  <2>1. /\ mp_read[p].pc = "uploaded" /\ mp_agent' = mp_bucket
        /\ mp_read' = [mp_read EXCEPT ![p].pc = "embedded"]
        /\ UNCHANGED <<mp_job, mp_bucket>>
        /\ IF mp_bucket < mp_agent THEN Menu!Loses ELSE mp_dropped' = mp_dropped
    BY <1>5 DEF Menu!Embed, Menu!Reading
  <2>2. p \in Menu!Actors /\ mp_read[p] \in MenuAway /\ mp_agent \in Nat /\ mp_bucket \in Nat
    BY <1>0, <2>1 DEF MenuIInv, MenuTypeInv, MenuAsking, MenuReader, MenuJobType
  <2>3. mp_read'[p].pc = "embedded" /\ \A b \in Menu!Actors \ {p} : mp_read'[b] = mp_read[b]
    BY <2>1, <2>2 DEF MenuIInv, MenuTypeInv, MenuAway
  <2>4. MenuJobType' /\ MenuJobReads'
    BY <1>0, <2>1, <2>2, <2>3 DEF MenuJobType, MenuJobReads
  <2>5. CASE mp_bucket >= mp_agent
    <3>1. \A v \in 1..mp_menu : Menu!JobBrings(v) => Menu!JobBrings(v)' \/ v <= mp_agent'
      BY <1>0, <2>1, <2>2, <2>3, <2>5 DEF Menu!JobBrings, Menu!Editing, Menu!Reading
    <3>2. ASSUME NEW v \in 1..mp_menu, v > mp_agent', ~Menu!JobBrings(v)', MenuOver(v)'
          PROVE  v > mp_agent /\ ~Menu!JobBrings(v) /\ MenuOver(v)
      BY <1>2, <2>1, <2>2, <2>5, <3>1, <3>2
    <3>3. Menu!EditsReachTheAgent'
      BY <1>0, <3>2, MenuNoneMissed
    <3> QED
      BY <1>1, <2>4, <3>3
  <2>6. CASE mp_bucket < mp_agent
    BY <1>1, <2>1, <2>4, <2>6, MenuNoted DEF Menu!Loses
  <2> QED
    BY <2>2, <2>5, <2>6
<1>6. ASSUME NEW p \in Menu!Publishers, Menu!Linked(p) PROVE MenuAgentInv'
  <2>1. /\ mp_read[p].pc = "embedded" /\ mp_job' = IF p = "job" THEN Menu!NoJob ELSE mp_job
        /\ mp_read' = [mp_read EXCEPT ![p] = Menu!Idle]
        /\ UNCHANGED <<mp_bucket, mp_agent, mp_dropped>>
    BY <1>6 DEF Menu!Linked, Menu!Reading
  <2>2. p \in Menu!Actors
    BY <1>0
  <2>3. mp_read'[p].pc = "idle" /\ \A b \in Menu!Actors \ {p} : mp_read'[b] = mp_read[b]
    BY <2>1, <2>2 DEF MenuIInv, MenuTypeInv, Menu!Idle
  <2>4. MenuJobType' /\ MenuJobReads'
    BY <1>0, <2>1, <2>3 DEF MenuJobType, MenuJobReads, Menu!NoJob
  <2>5. p = "job" => mp_job.state = "active"
    BY <2>1 DEF MenuJobReads
  <2>6. \A v \in 1..mp_menu : Menu!JobBrings(v) => Menu!JobBrings(v)'
    BY <1>0, <2>1, <2>3, <2>5 DEF Menu!JobBrings, Menu!Editing, Menu!Reading
  <2> QED
    BY <1>0, <1>1, <1>2, <2>1, <2>4, <2>6, MenuNoneMissed
<1>7. CASE Menu!JobRetries
  <2>1. /\ \/ mp_job' = [mp_job EXCEPT !.state = "delayed", !.failed = @ + 1]
           \/ mp_job' = [mp_job EXCEPT !.state = "delayed", !.died = @ + 1]
        /\ mp_read' = [mp_read EXCEPT !["job"] = Menu!Idle]
        /\ UNCHANGED <<mp_bucket, mp_agent, mp_dropped>>
    BY <1>7 DEF Menu!JobRetries
  <2>2. mp_job'.state = "delayed" /\ MenuJobType'
    <3>1. mp_job.failed + 1 \in Nat /\ mp_job.died + 1 \in Nat
      BY DEF MenuJobType
    <3>2. CASE mp_job' = [mp_job EXCEPT !.state = "delayed", !.failed = @ + 1]
      BY <2>1, <3>1, <3>2 DEF MenuJobType
    <3>3. CASE mp_job' = [mp_job EXCEPT !.state = "delayed", !.died = @ + 1]
      BY <2>1, <3>1, <3>3 DEF MenuJobType
    <3> QED
      BY <2>1, <3>2, <3>3
  <2>3. MenuJobReads'
    BY <1>0, <2>1 DEF MenuJobReads, MenuIInv, MenuTypeInv, Menu!Idle
  <2>4. \A v \in 1..mp_menu : Menu!JobBrings(v)'
    BY <2>2 DEF Menu!JobBrings
  <2> QED
    BY <1>0, <1>1, <2>1, <2>2, <2>3, <2>4, MenuNoneMissed
<1>8. CASE Menu!JobGivesUp
  <2>1. /\ mp_job' = [Menu!NoJob EXCEPT !.state = "failed"] /\ Menu!Loses
        /\ mp_read' = [mp_read EXCEPT !["job"] = Menu!Idle]
        /\ UNCHANGED <<mp_bucket, mp_agent>>
    BY <1>8 DEF Menu!JobGivesUp
  <2>2. MenuJobType'
    BY <2>1 DEF MenuJobType, Menu!NoJob
  <2>3. MenuJobReads'
    BY <1>0, <2>1 DEF MenuJobReads, MenuIInv, MenuTypeInv, Menu!Idle
  <2> QED
    BY <1>1, <2>1, <2>2, <2>3, MenuNoted DEF Menu!Loses
<1> QED
  BY <1>3, <1>4, <1>5, <1>6, <1>7, <1>8

\* Every step keeps the invariants of the agent.
LEMMA MenuNextAgent ==
    ASSUME MenuBounds, MenuIInv, MenuAgentInv, [Menu!Next]_(Menu!vars) PROVE MenuAgentInv'
<1>0. MenuIInv'
  BY MenuNextIInv
<1>1. CASE Menu!Tick \/ Menu!StartJob \/ Menu!ImportClear \/ UNCHANGED Menu!vars
  BY <1>0, <1>1, MenuOthersHeard
<1>2. CASE Menu!ImportCommit
  BY <1>2, MenuImportHeard
<1>3. ASSUME NEW e \in Editors,
             \/ Menu!Commit(e) \/ Menu!Flush(e) \/ Menu!Bump(e) \/ Menu!GetJob(e)
             \/ Menu!RemoveJob(e) \/ Menu!AddJob(e) \/ Menu!EditDies(e)
      PROVE  MenuAgentInv'
  BY <1>0, <1>3, MenuCommitHeard, MenuEditorsHeard
<1>4. ASSUME NEW a \in Menu!Actors, Menu!Look(a) \/ Menu!Query(a) \/ Menu!Store(a)
      PROVE  MenuAgentInv'
  BY <1>4, MenuLooksHeard
<1>5. CASE (\E g \in Guests : Menu!Ask(g)) \/ Menu!Press \/ Menu!JobReads
  BY <1>5, MenuStampsHeard
<1>6. CASE \/ \E g \in Guests : Menu!Answer(g)
           \/ \E p \in Menu!Publishers : Menu!Upload(p) \/ Menu!Embed(p) \/ Menu!Linked(p)
           \/ Menu!PressFails \/ Menu!JobRetries \/ Menu!JobGivesUp
  BY <1>6, MenuPublishersHeard
<1> QED
  BY <1>1, <1>2, <1>3, <1>4, <1>5, <1>6 DEF Menu!Next

\* An edit whose request is over is in the agent, or a job will bring it, or it was noted
\* as lost by one of the named mishaps, for every number of editors, readers and imports.
THEOREM MenuEditsReachTheAgent == ASSUME MenuBounds PROVE Menu!Spec => []Menu!EditsReachTheAgent
<1> DEFINE Inv == MenuIInv /\ MenuAgentInv
<1>1. Menu!Init => Inv
  BY MenuInitIInv, MenuInitAgent
<1>2. Inv /\ [Menu!Next]_(Menu!vars) => Inv'
  BY MenuNextIInv, MenuNextAgent
<1>3. Inv => Menu!EditsReachTheAgent
  BY DEF MenuAgentInv
<1> QED BY <1>1, <1>2, <1>3, PTL DEF Menu!Spec
--------------------------------------------------------------------------------
\* What has been counted is within its bound, and what is anywhere was committed.
MenuCounts ==
    /\ mp_menu \in 0..MaxEdits /\ mp_asked \in 0..MaxAsked /\ mp_mishaps \in 0..MaxMishaps
    /\ mp_job \in [ state : {"none", "delayed", "active", "failed"},
                     failed : 0..(MaxAttempts - 1), died : 0..MaxStalls ]
    /\ mp_clears + (IF mp_import.pc = "clear" THEN 1 ELSE 0) <= mp_menu

MenuClocks ==
    /\ mp_stamp <= mp_clock
    /\ \A e \in Editors : Menu!Editing(e, "bump") => mp_edit[e].since <= mp_clock

MenuPast ==
    /\ mp_bucket <= mp_menu /\ mp_agent <= mp_menu /\ mp_dropped \subseteq 1..mp_menu
    /\ \A t \in Menu!Stamps : mp_cache[t].menu <= mp_menu
    /\ \A e \in Editors : mp_edit[e].pc # "idle" => mp_edit[e].menu <= mp_menu
    /\ \A a \in Menu!Actors : mp_read[a].pc \in MenuAsking => mp_read[a].menu <= mp_menu

MenuTight == MenuCounts /\ MenuClocks /\ MenuPast
--------------------------------------------------------------------------------
\* What a step makes of each variable.
LEMMA MenuMoves ==
    ASSUME Menu!Next
    PROVE  /\ mp_asked' = mp_asked \/ (mp_asked < MaxAsked /\ mp_asked' = mp_asked + 1)
           /\ mp_mishaps' = mp_mishaps
                   \/ (mp_mishaps < MaxMishaps /\ mp_mishaps' = mp_mishaps + 1)
           /\ mp_menu' = mp_menu \/ (mp_menu < MaxEdits /\ mp_menu' = mp_menu + 1)
           /\ Menu!ImportCommit \/ Menu!ImportClear \/ UNCHANGED <<mp_clears, mp_import>>
           /\ mp_clock' \in {mp_clock, mp_clock + 1}
           /\ (\E e \in Editors : Menu!Bump(e)) \/ mp_stamp' \in {mp_stamp, 0}
           /\ \/ mp_edit' = mp_edit
              \/ \E e \in Editors :
                   \/ Menu!Commit(e) \/ Menu!Flush(e) \/ Menu!Bump(e) \/ Menu!GetJob(e)
                   \/ Menu!RemoveJob(e) \/ Menu!AddJob(e) \/ Menu!EditDies(e)
           /\ \/ mp_cache' = mp_cache \/ mp_cache' = [t \in Menu!Stamps |-> Menu!NoEntry]
              \/ \E a \in Menu!Actors : Menu!Store(a)
           /\ \/ Menu!JobRetries
              \/ mp_job' \in {mp_job, Menu!NoJob, [Menu!NoJob EXCEPT !.state = "delayed"],
                             [mp_job EXCEPT !.state = "active"],
                                [Menu!NoJob EXCEPT !.state = "failed"]}
           /\ \/ mp_dropped' \subseteq mp_dropped \cup Menu!Missed'
              \/ \E e \in Editors : mp_edit[e].pc = "bump" /\
                   mp_dropped' = mp_dropped \cup Menu!Missed' \cup ({mp_edit[e].menu} \ {0})
           /\ \/ UNCHANGED <<mp_bucket, mp_agent>>
              \/ mp_bucket' = mp_bucket /\ mp_agent' = mp_bucket
              \/ \E p \in Menu!Publishers :
                   mp_read[p].pc = "have" /\ mp_bucket' = mp_read[p].menu
                      /\ mp_agent' = mp_agent
           /\ \/ mp_read' = mp_read
              \/ \E a \in Menu!Actors :
                   \/ Menu!ReadStamp(a) \/ Menu!Look(a) \/ Menu!Query(a) \/ Menu!Store(a)
                           \/ Menu!Embed(a)
                   \/ mp_read' \in {[mp_read EXCEPT ![a] = Menu!Idle],
                           [mp_read EXCEPT ![a] = [pc |-> "uploaded"]]}
<1> USE DEF Menu!Next, Menu!Tick, Menu!Commit, Menu!Flush, Menu!Bump, Menu!GetJob,
       Menu!RemoveJob,
        Menu!AddJob, Menu!EditDies, Menu!ImportCommit, Menu!ImportClear, Menu!Look, Menu!Query,
        Menu!Store, Menu!Ask, Menu!Answer, Menu!Press, Menu!StartJob, Menu!JobReads,
           Menu!Upload,
        Menu!Embed, Menu!Linked, Menu!PressFails, Menu!JobRetries, Menu!JobGivesUp,
        Menu!Mishap, Menu!Loses, Menu!Editing, Menu!Reading
<1>1. mp_asked' = mp_asked \/ (mp_asked < MaxAsked /\ mp_asked' = mp_asked + 1)
  OBVIOUS
<1>2. mp_mishaps' = mp_mishaps \/ (mp_mishaps < MaxMishaps /\ mp_mishaps' = mp_mishaps + 1)
  OBVIOUS
<1>3. mp_menu' = mp_menu \/ (mp_menu < MaxEdits /\ mp_menu' = mp_menu + 1)
  OBVIOUS
<1>4. Menu!ImportCommit \/ Menu!ImportClear \/ UNCHANGED <<mp_clears, mp_import>>
  OBVIOUS
<1>5. mp_clock' \in {mp_clock, mp_clock + 1}
  OBVIOUS
<1>6. (\E e \in Editors : Menu!Bump(e)) \/ mp_stamp' \in {mp_stamp, 0}
  OBVIOUS
<1>7. \/ mp_edit' = mp_edit
      \/ \E e \in Editors :
           \/ Menu!Commit(e) \/ Menu!Flush(e) \/ Menu!Bump(e) \/ Menu!GetJob(e)
           \/ Menu!RemoveJob(e) \/ Menu!AddJob(e) \/ Menu!EditDies(e)
  OBVIOUS
<1>8. \/ mp_cache' = mp_cache \/ mp_cache' = [t \in Menu!Stamps |-> Menu!NoEntry]
      \/ \E a \in Menu!Actors : Menu!Store(a)
  OBVIOUS
<1>9. \/ Menu!JobRetries
      \/ mp_job' \in {mp_job, Menu!NoJob, [Menu!NoJob EXCEPT !.state = "delayed"],
                     [mp_job EXCEPT !.state = "active"], [Menu!NoJob EXCEPT !.state = "failed"]}
  OBVIOUS
<1>10. \/ mp_dropped' \subseteq mp_dropped \cup Menu!Missed'
       \/ \E e \in Editors : mp_edit[e].pc = "bump" /\
            mp_dropped' = mp_dropped \cup Menu!Missed' \cup ({mp_edit[e].menu} \ {0})
  OBVIOUS
<1>11. \/ UNCHANGED <<mp_bucket, mp_agent>>
       \/ mp_bucket' = mp_bucket /\ mp_agent' = mp_bucket
       \/ \E p \in Menu!Publishers :
            mp_read[p].pc = "have" /\ mp_bucket' = mp_read[p].menu /\ mp_agent' = mp_agent
  OBVIOUS
<1>12. \/ mp_read' = mp_read
       \/ \E a \in Menu!Actors :
            \/ Menu!ReadStamp(a) \/ Menu!Look(a) \/ Menu!Query(a) \/ Menu!Store(a)
                    \/ Menu!Embed(a)
            \/ mp_read' \in {[mp_read EXCEPT ![a] = Menu!Idle],
                    [mp_read EXCEPT ![a] = [pc |-> "uploaded"]]}
  <2>1. /\ "job" \in Menu!Actors /\ "manual" \in Menu!Actors
        /\ Menu!Publishers \subseteq Menu!Actors /\ Guests \subseteq Menu!Actors
    BY DEF Menu!Actors, Menu!Publishers
  <2> QED
    BY <2>1
<1> QED
  BY <1>1, <1>2, <1>3, <1>4, <1>5, <1>6, <1>7, <1>8, <1>9, <1>10, <1>11, <1>12

\* Every step keeps the counts.
LEMMA MenuCountsStep ==
    ASSUME MenuBounds, MenuIInv, MenuCounts, Menu!Next
    PROVE  MenuCounts'
<1> DEFINE Jobs == [ state : {"none", "delayed", "active", "failed"},
                     failed : 0..(MaxAttempts - 1), died : 0..MaxStalls ]
<1>1. mp_asked' \in 0..MaxAsked /\ mp_mishaps' \in 0..MaxMishaps
  BY MenuMoves DEF MenuCounts, MenuBounds
<1>2. mp_job' \in Jobs
  <2>1. 0 \in 0..(MaxAttempts - 1) /\ 0 \in 0..MaxStalls
    BY DEF MenuBounds
  <2>2. mp_job \in Jobs
    BY DEF MenuCounts
  <2>3. CASE Menu!JobRetries
    <3>1. \/ mp_job.failed + 1 < MaxAttempts
               /\ mp_job' = [mp_job EXCEPT !.state = "delayed", !.failed = @ + 1]
          \/ mp_job.died < MaxStalls
                  /\ mp_job' = [mp_job EXCEPT !.state = "delayed", !.died = @ + 1]
      BY <2>3 DEF Menu!JobRetries
    <3>2. mp_job.failed + 1 < MaxAttempts => mp_job.failed + 1 \in 0..(MaxAttempts - 1)
      BY <2>2 DEF MenuBounds
    <3>3. mp_job.died < MaxStalls => mp_job.died + 1 \in 0..MaxStalls
      BY <2>2 DEF MenuBounds
    <3>4. CASE mp_job.failed + 1 < MaxAttempts
             /\ mp_job' = [mp_job EXCEPT !.state = "delayed", !.failed = @ + 1]
      BY <2>2, <3>2, <3>4
    <3>5. CASE mp_job.died < MaxStalls
             /\ mp_job' = [mp_job EXCEPT !.state = "delayed", !.died = @ + 1]
      BY <2>2, <3>3, <3>5
    <3> QED
      BY <3>1, <3>4, <3>5
  <2> QED
    BY <2>1, <2>2, <2>3, MenuMoves DEF Menu!NoJob
<1>3. mp_menu' \in 0..MaxEdits
         /\ mp_clears' + (IF mp_import'.pc = "clear" THEN 1 ELSE 0) <= mp_menu'
  <2>1. mp_menu \in 0..MaxEdits /\ MaxEdits \in Nat /\ mp_clears \in Nat
    BY DEF MenuCounts, MenuBounds, MenuIInv, MenuTypeInv
  <2>2. CASE Menu!ImportCommit
    BY <2>1, <2>2 DEF MenuCounts, Menu!Idle, Menu!ImportCommit
  <2>3. CASE Menu!ImportClear
    BY <2>1, <2>3 DEF MenuCounts, Menu!Idle, MenuIInv, MenuTypeInv, Menu!ImportClear
  <2>4. CASE UNCHANGED <<mp_clears, mp_import>>
    BY <2>1, <2>4, MenuMoves DEF MenuCounts
  <2> QED
    BY <2>2, <2>3, <2>4, MenuMoves
<1> QED
  BY <1>1, <1>2, <1>3 DEF MenuCounts

\* What an editor's step makes of its request.
LEMMA MenuEditStep ==
    ASSUME MenuBounds, MenuIInv, MenuTight, Menu!Next
    PROVE  \A e \in Editors :
             /\ mp_edit'[e].pc # "idle" => mp_edit'[e].menu \in Nat
                     /\ mp_edit'[e].menu <= mp_menu'
             /\ mp_edit'[e].pc = "bump" => mp_edit'[e].since \in Nat
                     /\ mp_edit'[e].since <= mp_clock'
<1> DEFINE Fine(r) ==
      /\ r.pc # "idle" => r.menu \in Nat /\ r.menu <= mp_menu'
      /\ r.pc = "bump" => r.since \in Nat /\ r.since <= mp_clock'
<1>0. mp_menu \in Nat /\ mp_clock \in Nat /\ mp_menu' \in {mp_menu, mp_menu + 1}
         /\ mp_clock' \in {mp_clock, mp_clock + 1}
  <2>1. mp_menu \in Nat /\ mp_clock \in Nat
    BY DEF MenuIInv, MenuTypeInv, MenuBounds
  <2> QED
    BY <2>1, MenuMoves
<1>1. \A e \in Editors : Fine(mp_edit[e])
  BY <1>0 DEF MenuIInv, MenuTypeInv, MenuTight, MenuPast, MenuClocks, Menu!Editing, Menu!Idle
<1>2. ASSUME NEW e \in Editors,
             \/ Menu!Commit(e) \/ Menu!Flush(e) \/ Menu!Bump(e) \/ Menu!GetJob(e)
             \/ Menu!RemoveJob(e) \/ Menu!AddJob(e) \/ Menu!EditDies(e)
      PROVE  \E r : mp_edit' = [mp_edit EXCEPT ![e] = r] /\ Fine(r)
  <2>1. CASE Menu!Commit(e)
    <3> DEFINE r == [pc |-> "bump", menu |-> mp_menu + 1, since |-> mp_clock]
    <3>1. mp_edit' = [mp_edit EXCEPT ![e] = r] /\ Fine(r)
      BY <1>0, <2>1 DEF Menu!Commit
    <3> QED
      BY <3>1
  <2>2. CASE Menu!Flush(e)
    <3> DEFINE r == [pc |-> "bump", menu |-> 0, since |-> mp_clock]
    <3>1. mp_edit' = [mp_edit EXCEPT ![e] = r] /\ Fine(r)
      BY <1>0, <2>2 DEF Menu!Flush
    <3> QED
      BY <3>1
  <2>3. CASE Menu!Bump(e)
    <3> DEFINE r == [pc |-> "get", menu |-> mp_edit[e].menu]
    <3>1. mp_edit' = [mp_edit EXCEPT ![e] = r] /\ Fine(r)
      BY <1>1, <2>3 DEF Menu!Bump, Menu!Editing
    <3> QED
      BY <3>1
  <2>4. CASE Menu!GetJob(e) \/ Menu!RemoveJob(e)
    <3>1. PICK pc \in {"remove", "add"} : mp_edit' = [mp_edit EXCEPT ![e].pc = pc]
      BY <2>4 DEF Menu!GetJob, Menu!RemoveJob, Menu!EditTo
    <3>2. mp_edit[e] \in [pc : {"get", "remove", "add"}, menu : Nat]
      BY <2>4 DEF Menu!GetJob, Menu!RemoveJob, Menu!Editing, MenuIInv, MenuTypeInv, Menu!Idle
    <3> DEFINE r == [mp_edit[e] EXCEPT !.pc = pc]
    <3>3. mp_edit' = [mp_edit EXCEPT ![e] = r]
      BY <3>1
    <3>4. Fine(r)
      BY <1>1, <3>2
    <3> QED
      BY <3>3, <3>4
  <2>5. CASE Menu!AddJob(e) \/ Menu!EditDies(e)
    <3>1. mp_edit' = [mp_edit EXCEPT ![e] = Menu!Idle] /\ Fine(Menu!Idle)
      BY <2>5 DEF Menu!AddJob, Menu!EditDies, Menu!Ended, Menu!Idle
    <3> QED
      BY <3>1
  <2> QED
    BY <1>2, <2>1, <2>2, <2>3, <2>4, <2>5
<1> HIDE DEF Fine
<1>3. ASSUME NEW e \in Editors, NEW r, mp_edit' = [mp_edit EXCEPT ![e] = r], Fine(r)
      PROVE  \A d \in Editors : Fine(mp_edit'[d])
  BY <1>1, <1>3 DEF MenuIInv, MenuTypeInv
<1>4. ASSUME mp_edit' = mp_edit PROVE \A d \in Editors : Fine(mp_edit'[d])
  BY <1>1, <1>4
<1>5. \/ mp_edit' = mp_edit
      \/ \E e \in Editors :
             \/ Menu!Commit(e) \/ Menu!Flush(e) \/ Menu!Bump(e) \/ Menu!GetJob(e)
             \/ Menu!RemoveJob(e) \/ Menu!AddJob(e) \/ Menu!EditDies(e)
  BY MenuMoves
<1>6. \A d \in Editors : Fine(mp_edit'[d])
  BY <1>2, <1>3, <1>4, <1>5
<1> QED
  BY <1>6 DEF Fine

\* Every step keeps the clocks.
LEMMA MenuClocksStep ==
    ASSUME MenuBounds, MenuIInv, MenuTight, Menu!Next
    PROVE  MenuClocks'
<1>1. \A e \in Editors : mp_edit'[e].pc = "bump" => mp_edit'[e].since <= mp_clock'
  BY MenuEditStep
<1>2. mp_stamp \in Nat /\ mp_clock \in Nat /\ mp_stamp <= mp_clock
  BY DEF MenuIInv, MenuTypeInv, MenuTight, MenuClocks, Menu!Stamps, MenuBounds
<1>3. CASE \E e \in Editors : Menu!Bump(e)
  <2>1. PICK e \in Editors : Menu!Bump(e)
    BY <1>3
  <2>2. mp_edit[e].since \in Nat
    BY <2>1 DEF Menu!Bump, Menu!Editing, MenuIInv, MenuTypeInv, Menu!Idle
  <2>3. mp_stamp' <= mp_clock'
    BY <1>2, <2>1, <2>2 DEF Menu!Bump
  <2> QED
    BY <1>1, <2>3 DEF MenuClocks, Menu!Editing
<1>4. CASE ~\E e \in Editors : Menu!Bump(e)
  <2>1. mp_stamp' \in {mp_stamp, 0} /\ mp_clock' \in {mp_clock, mp_clock + 1}
    BY <1>4, MenuMoves
  <2> QED
    BY <1>1, <1>2, <2>1 DEF MenuClocks, Menu!Editing
<1> QED
  BY <1>3, <1>4

\* What a reader holds after its step was committed before it.
LEMMA MenuReadStep ==
    ASSUME MenuBounds, MenuIInv, MenuTight, Menu!Next
    PROVE  /\ \A t \in Menu!Stamps : mp_cache'[t].menu <= mp_menu
           /\ \A a \in Menu!Actors : mp_read'[a].pc \in MenuAsking
                   => mp_read'[a].menu <= mp_menu
<1>0. /\ mp_menu \in Nat /\ mp_read \in [Menu!Actors -> MenuReader \cup MenuAway]
      /\ mp_cache \in [Menu!Stamps -> [menu : Nat, kept : BOOLEAN, late : BOOLEAN]]
      /\ \A a \in Menu!Actors : mp_read[a].pc \in MenuAsking => mp_read[a].menu <= mp_menu
      /\ \A t \in Menu!Stamps : mp_cache[t].menu <= mp_menu
  BY DEF MenuIInv, MenuTypeInv, MenuTight, MenuPast
<1>1. CASE mp_cache' = mp_cache \/ mp_cache' = [t \in Menu!Stamps |-> Menu!NoEntry]
  <2>1. \A t \in Menu!Stamps : mp_cache'[t].menu <= mp_menu
    BY <1>0, <1>1 DEF Menu!NoEntry
  <2> DEFINE Fine(r) == r.pc \in MenuAsking => r.menu <= mp_menu
  <2>2. ASSUME NEW a \in Menu!Actors, NEW r, mp_read' = [mp_read EXCEPT ![a] = r], Fine(r)
        PROVE  \A b \in Menu!Actors : Fine(mp_read'[b])
    <3>1. \A b \in Menu!Actors : mp_read'[b] = IF b = a THEN r ELSE mp_read[b]
      BY <1>0, <2>2
    <3> QED
      BY <1>0, <2>2, <3>1
  <2>3. \/ mp_read' = mp_read
        \/ \E a \in Menu!Actors : \/ Menu!ReadStamp(a) \/ Menu!Look(a) \/ Menu!Query(a)
                                 \/ mp_read' = [mp_read EXCEPT ![a] = Menu!Idle]
                                 \/ mp_read' = [mp_read EXCEPT ![a] = [pc |-> "uploaded"]]
                                 \/ Menu!Embed(a)
                                 \/ Menu!Store(a)
    <3>1. "job" \in Menu!Actors /\ "manual" \in Menu!Actors
             /\ Menu!Publishers \subseteq Menu!Actors
          /\ Guests \subseteq Menu!Actors
      BY DEF Menu!Actors, Menu!Publishers
    <3> QED
      BY <3>1, MenuMoves
  <2>4. ASSUME NEW a \in Menu!Actors, mp_read[a].pc \in MenuAsking
        PROVE mp_read[a] \in MenuReader
    BY <1>0, <2>4 DEF MenuReader, MenuAway, MenuAsking
  <2>5. ASSUME NEW a \in Menu!Actors, Menu!ReadStamp(a)
        PROVE \A b \in Menu!Actors : Fine(mp_read'[b])
    <3> DEFINE r == [pc |-> "look", stamp |-> mp_stamp, due |-> mp_due, clears |-> mp_clears,
                     menu |-> 0, late |-> FALSE]
    <3>1. mp_read' = [mp_read EXCEPT ![a] = r] /\ Fine(r)
      BY <1>0, <2>5 DEF Menu!ReadStamp
    <3> QED
      BY <2>2, <3>1
  <2>6. ASSUME NEW a \in Menu!Actors, Menu!Look(a)
        PROVE \A b \in Menu!Actors : Fine(mp_read'[b])
    <3> DEFINE entry == mp_cache[mp_read[a].stamp]
               r == [mp_read[a] EXCEPT !.pc = IF entry.kept THEN "have" ELSE "query",
                                       !.menu = entry.menu, !.late = entry.late]
    <3>1. mp_read[a] \in MenuReader
      BY <2>4, <2>6 DEF Menu!Look, Menu!Reading, MenuAsking
    <3>2. mp_read' = [mp_read EXCEPT ![a] = r] /\ r.menu = entry.menu /\ entry.menu <= mp_menu
      BY <1>0, <2>6, <3>1 DEF Menu!Look, MenuReader
    <3> QED
      BY <2>2, <3>2
  <2>7. ASSUME NEW a \in Menu!Actors, Menu!Query(a)
        PROVE \A b \in Menu!Actors : Fine(mp_read'[b])
    <3> DEFINE r == [mp_read[a] EXCEPT !.pc = "store", !.menu = mp_menu]
    <3>1. mp_read[a] \in MenuReader
      BY <2>4, <2>7 DEF Menu!Query, Menu!Reading, MenuAsking
    <3>2. mp_read' = [mp_read EXCEPT ![a] = r] /\ r.menu = mp_menu
      BY <2>7, <3>1 DEF Menu!Query, MenuReader
    <3> QED
      BY <1>0, <2>2, <3>2
  <2>8. ASSUME NEW a \in Menu!Actors, Menu!Embed(a)
        PROVE \A b \in Menu!Actors : Fine(mp_read'[b])
    <3> DEFINE r == [mp_read[a] EXCEPT !.pc = "embedded"]
    <3>1. mp_read[a] \in MenuAway
      BY <1>0, <2>8 DEF Menu!Embed, Menu!Reading, MenuReader, MenuAsking
    <3>2. mp_read' = [mp_read EXCEPT ![a] = r] /\ r.pc = "embedded"
      BY <2>8, <3>1 DEF Menu!Embed, MenuAway
    <3>3. Fine(r)
      BY <3>2 DEF MenuAsking
    <3> QED
      BY <2>2, <3>2, <3>3
  <2>9. ASSUME NEW a \in Menu!Actors, Menu!Store(a)
        PROVE \A b \in Menu!Actors : Fine(mp_read'[b])
    <3> DEFINE r == [mp_read[a] EXCEPT !.pc = "have"]
    <3>1. mp_read[a] \in MenuReader /\ mp_read[a].pc \in MenuAsking
      BY <2>4, <2>9 DEF Menu!Store, Menu!Reading, MenuAsking
    <3>2. mp_read' = [mp_read EXCEPT ![a] = r] /\ r.menu = mp_read[a].menu
      BY <2>9, <3>1 DEF Menu!Store, MenuReader
    <3> QED
      BY <1>0, <2>2, <3>1, <3>2
  <2>10. Fine(Menu!Idle) /\ Fine([pc |-> "uploaded"])
    BY DEF Menu!Idle, MenuAsking
  <2>11. mp_read' = mp_read => \A b \in Menu!Actors : Fine(mp_read'[b])
    BY <1>0
  <2> HIDE DEF Fine
  <2>12. \A b \in Menu!Actors : Fine(mp_read'[b])
    BY <2>2, <2>3, <2>5, <2>6, <2>7, <2>8, <2>9, <2>10, <2>11
  <2> QED
    BY <2>1, <2>12 DEF Fine
<1>2. ASSUME NEW a \in Menu!Actors, Menu!Store(a)
      PROVE  /\ \A t \in Menu!Stamps : mp_cache'[t].menu <= mp_menu
             /\ \A b \in Menu!Actors : mp_read'[b].pc \in MenuAsking
                     => mp_read'[b].menu <= mp_menu
  <2> DEFINE r == [mp_read[a] EXCEPT !.pc = "have"]
  <2>1. mp_read[a] \in MenuReader /\ mp_read[a].pc \in MenuAsking
    BY <1>0, <1>2 DEF Menu!Store, Menu!Reading, MenuReader, MenuAway, MenuAsking
  <2>2. mp_read' = [mp_read EXCEPT ![a] = r] /\ r.menu = mp_read[a].menu
           /\ mp_read[a].menu <= mp_menu
    BY <1>0, <1>2, <2>1 DEF Menu!Store, MenuReader
  <2>3. mp_cache' = [mp_cache EXCEPT ![mp_read[a].stamp] = Menu!Entry(a)]
           /\ Menu!Entry(a).menu = mp_read[a].menu
    BY <1>2 DEF Menu!Store, Menu!Entry
  <2> HIDE DEF r
  <2>4. \A b \in Menu!Actors : mp_read'[b] = IF b = a THEN r ELSE mp_read[b]
    BY <1>0, <2>2
  <2> QED
    BY <1>0, <2>2, <2>3, <2>4
<1>3. (\E a \in Menu!Actors : Menu!Store(a)) \/ mp_cache' = mp_cache
         \/ mp_cache' = [t \in Menu!Stamps |-> Menu!NoEntry]
  BY MenuMoves
<1> QED
  BY <1>1, <1>2, <1>3

\* Nothing newer than the last commit is anywhere.
LEMMA MenuPastStep ==
    ASSUME MenuBounds, MenuIInv, MenuJobType, MenuTight, Menu!Next
    PROVE  MenuPast'
<1>0. mp_menu \in Nat /\ mp_menu' \in {mp_menu, mp_menu + 1}
  <2>1. mp_menu \in Nat
    BY DEF MenuIInv, MenuTypeInv
  <2> QED
    BY <2>1, MenuMoves
<1>1. \A e \in Editors : mp_edit'[e].pc # "idle" => mp_edit'[e].menu <= mp_menu'
  BY MenuEditStep
<1>2. /\ \A t \in Menu!Stamps : mp_cache'[t].menu <= mp_menu'
      /\ \A a \in Menu!Actors : mp_read'[a].pc \in MenuAsking => mp_read'[a].menu <= mp_menu'
  <2>1. MenuIInv'
    BY MenuNextIInv
  <2>2. \A t \in Menu!Stamps : mp_cache'[t].menu \in Nat
    BY <2>1 DEF MenuIInv, MenuTypeInv
  <2>3. \A a \in Menu!Actors : mp_read'[a].pc \in MenuAsking => mp_read'[a].menu \in Nat
    BY <2>1 DEF MenuIInv, MenuTypeInv, MenuReader, MenuAway, MenuAsking
  <2> QED
    BY <1>0, <2>2, <2>3, MenuReadStep
<1>3. Menu!Missed' \subseteq 1..mp_menu'
  BY DEF Menu!Missed
<1>4. mp_dropped' \subseteq 1..mp_menu'
  <2>1. mp_dropped \subseteq 1..mp_menu' /\ 1..mp_menu \subseteq 1..mp_menu'
    BY <1>0 DEF MenuTight, MenuPast
  <2>2. \A e \in Editors : mp_edit[e].pc = "bump"
           => {mp_edit[e].menu} \ {0} \subseteq 1..mp_menu'
    BY <1>0 DEF MenuTight, MenuPast, MenuIInv, MenuTypeInv, Menu!Idle
  <2>3. \/ mp_dropped' \subseteq mp_dropped \cup Menu!Missed'
        \/ \E e \in Editors : mp_edit[e].pc = "bump" /\
              mp_dropped' = mp_dropped \cup Menu!Missed' \cup ({mp_edit[e].menu} \ {0})
    BY MenuMoves
  <2> QED
    BY <1>3, <2>1, <2>2, <2>3
<1>5. mp_bucket' \in Nat /\ mp_bucket' <= mp_menu' /\ mp_agent' \in Nat /\ mp_agent' <= mp_menu'
  <2>1. mp_bucket \in Nat /\ mp_agent \in Nat /\ mp_bucket <= mp_menu /\ mp_agent <= mp_menu
    BY DEF MenuTight, MenuPast, MenuJobType
  <2>2. \/ UNCHANGED <<mp_bucket, mp_agent>>
        \/ mp_bucket' = mp_bucket /\ mp_agent' = mp_bucket
        \/ \E p \in Menu!Publishers : mp_read[p].pc = "have" /\ mp_bucket' = mp_read[p].menu
                /\ mp_agent' = mp_agent
    BY MenuMoves
  <2>3. \A p \in Menu!Publishers : mp_read[p].pc = "have" => mp_read[p].menu \in Nat
           /\ mp_read[p].menu <= mp_menu
    BY DEF MenuTight, MenuPast, MenuAsking, Menu!Actors, MenuIInv, MenuTypeInv, MenuReader,
       MenuAway
  <2> QED
    BY <1>0, <2>1, <2>2, <2>3
<1> QED
  BY <1>1, <1>2, <1>4, <1>5 DEF MenuPast

\* The bounds hold before the first edit.
LEMMA MenuInitTight == ASSUME MenuBounds, Menu!Init PROVE MenuTight
<1>1. \A a \in Menu!Actors : mp_read[a].pc = "idle"
  BY DEF Menu!Init, Menu!Idle
<1>2. MenuCounts
  BY DEF Menu!Init, MenuBounds, MenuCounts, Menu!Idle, Menu!NoJob
<1>3. MenuClocks
  BY DEF Menu!Init, MenuClocks, Menu!Editing, Menu!Idle
<1>4. MenuPast
  BY <1>1 DEF Menu!Init, MenuPast, Menu!Idle, Menu!NoEntry, MenuAsking
<1> QED
  BY <1>2, <1>3, <1>4 DEF MenuTight

\* Every step keeps the bounds.
LEMMA MenuNextTight ==
    ASSUME MenuBounds, MenuIInv, MenuJobType, MenuTight, [Menu!Next]_(Menu!vars)
    PROVE  MenuTight'
<1>1. CASE Menu!Next
  <2>1. MenuCounts'
    BY <1>1, MenuCountsStep DEF MenuTight
  <2> QED
    BY <1>1, <2>1, MenuClocksStep, MenuPastStep DEF MenuTight
<1>2. CASE UNCHANGED Menu!vars
  BY <1>2 DEF Menu!vars, MenuTight, MenuCounts, MenuClocks, MenuPast, Menu!Editing
<1> QED
  BY <1>1, <1>2

\* The type invariant of MenuPublish is the parts together.
LEMMA MenuTypeIsOK == ASSUME MenuBounds, MenuIInv, MenuJobType, MenuTight PROVE Menu!TypeOK
<1>1. /\ mp_menu \in 0..MaxEdits /\ mp_clock \in 1..MaxClock /\ mp_stamp \in 0..mp_clock
      /\ mp_due \in 0..mp_menu /\ mp_clears \in 0..mp_menu
      /\ mp_asked \in 0..MaxAsked /\ mp_mishaps \in 0..MaxMishaps
      /\ mp_bucket \in 0..mp_menu /\ mp_agent \in 0..mp_menu /\ mp_dropped \subseteq 1..mp_menu
  BY DEF MenuIInv, MenuTypeInv, MenuDueIsPast, MenuJobType, MenuTight, MenuCounts,
     MenuClocks, MenuPast,
         Menu!Stamps, MenuBounds
<1>2. mp_cache \in [Menu!Stamps -> [menu : 0..mp_menu, kept : BOOLEAN, late : BOOLEAN]]
  <2>1. \A t \in Menu!Stamps :
           mp_cache[t] \in [menu : 0..mp_menu, kept : BOOLEAN, late : BOOLEAN]
    BY DEF MenuIInv, MenuTypeInv, MenuTight, MenuPast
  <2> QED
    BY <2>1 DEF MenuIInv, MenuTypeInv
<1>3. /\ \A e \in Editors : mp_edit[e].pc \in {"idle", "bump", "get", "remove", "add"}
      /\ mp_import.pc \in {"idle", "clear"}
  BY DEF MenuIInv, MenuTypeInv, Menu!Idle
<1>4. \A a \in Menu!Actors : mp_read[a].pc \in {"idle", "look", "query", "store", "have",
                                                 "uploaded", "embedded"}
  BY DEF MenuIInv, MenuTypeInv, MenuReader, MenuAway, MenuAsking
<1>5. /\ mp_job \in [state : {"none", "delayed", "active", "failed"},
                failed : 0..(MaxAttempts - 1), died : 0..MaxStalls]
      /\ mp_stamped \in [Menu!Stamps -> 0..2]
  BY DEF MenuTight, MenuCounts, MenuIInv, MenuTypeInv
<1> QED
  BY <1>1, <1>2, <1>3, <1>4, <1>5 DEF Menu!TypeOK

\* What MenuEditsReachTheAgent says, of every behaviour of the composition.
THEOREM EditsReachTheAgentAll == Spec => []EditsReachTheAgent
<1> DEFINE Inv == MenuIInv /\ MenuAgentInv
<1>1. Init => Inv
  BY MenuStarts, MenuAssumption, MenuInitIInv, MenuInitAgent
<1>2. Inv /\ [Next]_vars => Inv'
  BY MenuSteps, MenuAssumption, MenuNextIInv, MenuNextAgent
<1>3. Inv => EditsReachTheAgent
  BY DEF EditsReachTheAgent, MenuAgentInv
<1> QED
  BY <1>1, <1>2, <1>3, PTL DEF Spec
--------------------------------------------------------------------------------
\* If there is one worker, it has one job, and took it because its recording was not
\* uploaded.
CallOneAtWork == Workers = 1 => \A s, t \in Call!AtWork : s = t

CallWorkIsDue ==
    Workers = 1 =>
        \A s \in Slots :
            rc_task[s] # None /\ rc_task[s].stage \in {"fetch", "stored", "failing"}
                => ~Call!Uploaded(rc_row[rc_task[s].id])

\* The minutes are then billed once for what is uploaded, and once each time it was taken back.
CallCharged ==
    Workers = 1 => \A i \in Call!Ids :
        rc_billed[i] + rc_owing[i] <= rc_lifted[i] + (IF Call!Uploaded(rc_row[i]) THEN 1 ELSE 0)

CallIInv == Call!TypeOK /\ CallOneAtWork /\ CallWorkIsDue /\ CallCharged

\* The parts of a step that an invariant of the call depends on.
LEMMA CallUpsertTypes ==
    ASSUME CallBounds, Call!TypeOK, NEW i \in Call!Ids,
              NEW x \in {"completed", "failed", "uploaded"},
           NEW a \in BOOLEAN, Call!Upsert(i, x, a)
    PROVE  /\ rc_row' \in [Call!Ids -> Call!Row \cup {None}] /\ rc_born' \in Nat
           /\ \A j \in Call!Ids : j # i => rc_row'[j] = rc_row[j]
           /\ rc_row'[i] # None /\ rc_row'[i].status = x /\ (a => rc_row'[i].audio)
<1> DEFINE r == rc_row[i]
           n == Call!New(x, a)
           u == [r EXCEPT !.status = x, !.audio = @ \/ a]
<1>1. r \in Call!Row \cup {None}
  BY DEF Call!TypeOK
<1>2. n \in Call!Row /\ n.status = x /\ n.audio = a
  BY DEF Call!New, Call!Row, Call!TypeOK
<1>3. r \in Call!Row => u \in Call!Row /\ u.status = x /\ (a => u.audio)
  BY DEF Call!Row
<1>4. rc_row' = [rc_row EXCEPT ![i] = IF r = None THEN n ELSE u]
  BY DEF Call!Upsert
<1> HIDE DEF n, u
<1>5. rc_born' \in Nat
  BY DEF Call!Upsert, Call!TypeOK
<1> QED
  BY <1>1, <1>2, <1>3, <1>4, <1>5 DEF Call!TypeOK, CallBounds

\* A new job waits; one that goes on keeps its id.
LEMMA CallAddTypes ==
    ASSUME CallBounds, Call!TypeOK, NEW i \in Call!Ids, Call!Add(i)
    PROVE  /\ rc_task' \in [Slots -> Call!Task \cup {None}]
           /\ \A s \in Slots : rc_task'[s] # None /\ rc_task'[s].stage # "waiting"
                   => rc_task'[s] = rc_task[s]
<1>1. PICK s \in Slots :
        rc_task[s] = None /\
        rc_task' = [rc_task EXCEPT ![s] = [id |-> i, failed |-> 0, stage |-> "waiting"]]
  BY DEF Call!Add
<1>2. [id |-> i, failed |-> 0, stage |-> "waiting"] \in Call!Task
  BY DEF Call!Task, CallBounds
<1> QED
  BY <1>1, <1>2 DEF Call!TypeOK

\* A job that goes on keeps its id, and only it changes.
LEMMA CallGotoTypes ==
    ASSUME CallBounds, Call!TypeOK, NEW s \in Slots, rc_task[s] # None,
           NEW x \in {"waiting", "fetch", "stored", "failing", "saved"}, Call!Goto(s, x)
    PROVE  /\ rc_task' \in [Slots -> Call!Task \cup {None}]
           /\ \A t \in Slots : t # s => rc_task'[t] = rc_task[t]
           /\ rc_task'[s] # None /\ rc_task'[s].id = rc_task[s].id /\ rc_task'[s].stage = x
           /\ rc_task[s] \in Call!Task /\ rc_task[s].id \in Call!Ids
<1>1. rc_task[s] \in Call!Task
  BY DEF Call!TypeOK
<1>2. [rc_task[s] EXCEPT !.stage = x] \in Call!Task
  BY <1>1 DEF Call!Task
<1> QED
  BY <1>1, <1>2 DEF Call!TypeOK, Call!Goto, Call!Task, CallBounds

\* The invariant holds before the first event.
LEMMA CallInitIInv == ASSUME CallBounds, Call!Init PROVE CallIInv
<1> USE DEF Call!Init
<1>1. Call!TypeOK
  BY DEF Call!TypeOK, Call!Idle, Call!Still, Call!Row
<1>2. CallOneAtWork /\ CallWorkIsDue /\ CallCharged
  BY DEF CallOneAtWork, CallWorkIsDue, CallCharged, Call!AtWork, Call!Uploaded
<1> QED
  BY <1>1, <1>2 DEF CallIInv

\* A step that takes on no work and changes no row.
LEMMA CallQuietKeeps ==
    ASSUME CallIInv, Call!TypeOK', UNCHANGED <<rc_row, rc_owing, rc_billed, rc_lifted>>,
           \A s \in Slots : rc_task'[s] # None /\ rc_task'[s].stage # "waiting"
              => rc_task'[s] = rc_task[s]
    PROVE  CallIInv'
BY DEF CallIInv, CallOneAtWork, CallWorkIsDue, CallCharged, Call!AtWork, Call!Uploaded

\* A step of others than the worker that writes rows, and counts what it takes back.
LEMMA CallRowsKeep ==
    ASSUME CallIInv, Call!TypeOK', UNCHANGED <<rc_task, rc_owing, rc_billed>>,
           \A i \in Call!Ids :
             /\ Call!Uploaded(rc_row'[i]) => Call!Uploaded(rc_row[i])
             /\ rc_lifted'[i] = rc_lifted[i] +
                  (IF Call!Uploaded(rc_row[i]) /\ ~Call!Uploaded(rc_row'[i]) THEN 1 ELSE 0)
    PROVE  CallIInv'
<1>1. CallOneAtWork'
  BY DEF CallIInv, CallOneAtWork, Call!AtWork
<1>2. CallWorkIsDue'
  BY DEF CallIInv, CallWorkIsDue, Call!TypeOK, Call!Task
<1>3. CallCharged'
  BY DEF CallIInv, CallCharged, Call!TypeOK
<1> QED
  BY <1>1, <1>2, <1>3 DEF CallIInv

\* The event of the call, and staff who ask for an import, add a job.
LEMMA CallEventsKeep ==
    ASSUME CallBounds, CallIInv,
           Call!Saved \/ Call!SavedAdds \/ \E i \in Call!Ids : Call!Ask(i)
    PROVE  CallIInv'
<1> USE DEF CallIInv
<1>1. CASE Call!Saved
  <2>1. Call!TypeOK'
    BY <1>1 DEF Call!Saved, Call!TypeOK, Call!ledger
  <2> QED
    BY <1>1, <2>1, CallQuietKeeps DEF Call!Saved, Call!ledger
<1>2. ASSUME NEW i \in Call!Ids, Call!Add(i), rc_event' \in {"done", rc_event},
             rc_bounds' = rc_bounds \/ Call!Use("asked"),
             UNCHANGED <<rc_row, rc_object, rc_threads, rc_sync, rc_sweep, rc_owing, rc_billed,
                         rc_lifted, rc_born>>
      PROVE  CallIInv'
  <2>1. /\ rc_task' \in [Slots -> Call!Task \cup {None}]
        /\ \A s \in Slots : rc_task'[s] # None /\ rc_task'[s].stage # "waiting"
                => rc_task'[s] = rc_task[s]
    BY <1>2, CallAddTypes
  <2>2. rc_bounds' \in [syncs : Nat, asked : Nat, deletes : Nat, deaths : Nat]
    BY <1>2 DEF Call!TypeOK, Call!Use
  <2>3. Call!TypeOK'
    BY <1>2, <2>1, <2>2 DEF Call!TypeOK
  <2> QED
    BY <1>2, <2>1, <2>3, CallQuietKeeps
<1>3. CASE Call!SavedAdds
  <2>1. "session" \in Call!Ids
    BY DEF Call!Ids
  <2> QED
    BY <1>2, <1>3, <2>1 DEF Call!SavedAdds, Call!ledger
<1> QED
  BY <1>1, <1>2, <1>3 DEF Call!Ask, Call!ledger

\* The sync takes a recording back when it writes over a row that is uploaded.
LEMMA CallSyncKeeps ==
    ASSUME CallBounds, CallIInv, NEW s \in Syncs, Call!Conversations(s)
    PROVE  CallIInv'
<1> USE DEF CallIInv
<1> DEFINE Stage == {"idle", "thread", "look", "write", "attach"}
           One == [stage : Stage, thread : BOOLEAN, found : Call!Row \cup {None}]
<1>0. /\ rc_sync \in [Syncs -> One] /\ "conversation" \in Call!Ids
      /\ rc_row["conversation"] \in Call!Row \cup {None}
  BY DEF Call!TypeOK, Call!Ids
<1>idle. Call!Idle \in One
  BY DEF Call!Idle
<1>1. CASE Call!SyncStart(s) \/ Call!SyncThread(s) \/ Call!SyncLook(s)
  <2> DEFINE a == [Call!Idle EXCEPT !.stage = "thread", !.thread = rc_threads > 0]
             b == [rc_sync[s] EXCEPT !.stage = "look"]
             c == [rc_sync[s] EXCEPT !.stage = "write", !.found = rc_row["conversation"]]
  <2>5. a \in One /\ b \in One /\ c \in One
    <3>1. rc_sync[s] \in One
      BY <1>0
    <3>0. \A q \in BOOLEAN : [Call!Idle EXCEPT !.stage = "thread", !.thread = q] \in One
      BY DEF Call!Idle
    <3>2. a \in One
      <4>1. (rc_threads > 0) \in BOOLEAN
        BY DEF Call!TypeOK
      <4> HIDE DEF One
      <4> QED BY <3>0, <4>1, Zenon
    <3>3. b \in One
      BY <3>1
    <3>4. c \in One
      BY <1>0, <3>1
    <3> QED BY <3>2, <3>3, <3>4
  <2>6. rc_sync' \in {[rc_sync EXCEPT ![s] = a], [rc_sync EXCEPT ![s] = b],
           [rc_sync EXCEPT ![s] = c]}
    BY <1>0, <1>1 DEF Call!SyncStart, Call!SyncThread, Call!SyncLook, Call!SyncTo
  <2>1. rc_sync' \in [Syncs -> One]
    <3> HIDE DEF a, b, c, One
    <3> QED BY <1>0, <2>5, <2>6
  <2>2. rc_threads' \in Nat
           /\ rc_bounds' \in [syncs : Nat, asked : Nat, deletes : Nat, deaths : Nat]
    BY <1>1 DEF Call!SyncStart, Call!SyncThread, Call!SyncLook, Call!Use, Call!TypeOK
  <2>3. UNCHANGED <<rc_row, rc_object, rc_task, rc_event, rc_sweep, rc_owing, rc_billed,
           rc_lifted, rc_born>>
    BY <1>1 DEF Call!SyncStart, Call!SyncThread, Call!SyncLook, Call!ledger
  <2>4. Call!TypeOK'
    BY <2>1, <2>2, <2>3 DEF Call!TypeOK
  <2> QED
    BY <2>3, <2>4, CallQuietKeeps
<1>2. CASE Call!SyncUpdate(s)
  <2> DEFINE was == rc_row["conversation"]
             same == rc_sync[s].found # None /\ was # None /\ was.name = rc_sync[s].found.name
             now == [was EXCEPT !.status = "completed"]
  <2>1. /\ UNCHANGED <<rc_object, rc_threads, rc_task, rc_event, rc_sweep, rc_owing, rc_billed,
                       rc_born, rc_bounds>>
        /\ rc_row' = IF same THEN [rc_row EXCEPT !["conversation"] = now] ELSE rc_row
        /\ rc_lifted' = IF same /\ Call!Uploaded(was)
             THEN [rc_lifted EXCEPT !["conversation"] = @ + 1] ELSE rc_lifted
        /\ rc_sync' = [rc_sync EXCEPT ![s].stage = "attach"]
    BY <1>2 DEF Call!SyncUpdate, Call!SyncTo, Call!ledger
  <2>2. same => now \in Call!Row /\ now.status = "completed"
    BY <1>0 DEF Call!Row
  <2>3. rc_sync' \in [Syncs -> One]
    BY <1>0, <2>1
  <2> HIDE DEF now
  <2>4. /\ rc_row' \in [Call!Ids -> Call!Row \cup {None}]
        /\ \A i \in Call!Ids : i # "conversation" => rc_row'[i] = rc_row[i]
        /\ IF same THEN rc_row'["conversation"] = now ELSE rc_row' = rc_row
    BY <1>0, <2>1, <2>2 DEF Call!TypeOK
  <2>5. /\ rc_lifted' \in [Call!Ids -> Nat]
        /\ \A i \in Call!Ids : rc_lifted'[i] = rc_lifted[i] +
             (IF i = "conversation" /\ same /\ Call!Uploaded(was) THEN 1 ELSE 0)
    BY <1>0, <2>1 DEF Call!TypeOK
  <2>6. same => ~Call!Uploaded(now)
    BY <2>2 DEF Call!Uploaded
  <2>7. Call!TypeOK'
    BY <2>1, <2>3, <2>4, <2>5 DEF Call!TypeOK
  <2>8. \A i \in Call!Ids :
          /\ Call!Uploaded(rc_row'[i]) => Call!Uploaded(rc_row[i])
          /\ rc_lifted'[i] = rc_lifted[i] +
               (IF Call!Uploaded(rc_row[i]) /\ ~Call!Uploaded(rc_row'[i]) THEN 1 ELSE 0)
    BY <2>4, <2>5, <2>6
  <2> QED
    BY <2>1, <2>7, <2>8, CallRowsKeep
<1>3. CASE Call!SyncInsert(s)
  <2> DEFINE n == Call!New("completed", FALSE)
  <2>1. /\ UNCHANGED <<rc_object, rc_threads, rc_task, rc_event, rc_sweep, rc_owing, rc_billed,
                       rc_lifted, rc_bounds>>
        /\ \/ /\ rc_row["conversation"] = None
              /\ rc_row' = [rc_row EXCEPT !["conversation"] = n]
              /\ rc_born' = rc_born + 1
              /\ rc_sync' = [rc_sync EXCEPT ![s].stage = "attach"]
           \/ UNCHANGED <<rc_row, rc_born>> /\ rc_sync' = [rc_sync EXCEPT ![s] = Call!Idle]
    BY <1>3 DEF Call!SyncInsert, Call!SyncTo, Call!ledger
  <2>2. n \in Call!Row /\ n.status = "completed"
    BY DEF Call!New, Call!Row, Call!TypeOK
  <2> HIDE DEF n
  <2>3. rc_sync' \in [Syncs -> One]
    BY <1>0, <1>idle, <2>1
  <2>4. Call!TypeOK'
    BY <1>0, <2>1, <2>2, <2>3 DEF Call!TypeOK
  <2>5. \A i \in Call!Ids : Call!Uploaded(rc_row'[i]) <=> Call!Uploaded(rc_row[i])
    BY <1>0, <2>1, <2>2 DEF Call!Uploaded, Call!TypeOK
  <2>6. \A i \in Call!Ids :
          /\ Call!Uploaded(rc_row'[i]) => Call!Uploaded(rc_row[i])
          /\ rc_lifted'[i] = rc_lifted[i] +
               (IF Call!Uploaded(rc_row[i]) /\ ~Call!Uploaded(rc_row'[i]) THEN 1 ELSE 0)
    BY <2>1, <2>5 DEF Call!TypeOK
  <2> QED
    BY <2>1, <2>4, <2>6, CallRowsKeep
<1>4. CASE Call!SyncAttach(s)
  <2>1. /\ UNCHANGED <<rc_row, rc_object, rc_threads, rc_event, rc_sweep, rc_owing, rc_billed,
                       rc_lifted, rc_born, rc_bounds>>
        /\ rc_sync' = [rc_sync EXCEPT ![s] = Call!Idle]
        /\ Call!Add("conversation") \/ rc_task' = rc_task
    BY <1>4 DEF Call!SyncAttach, Call!ledger
  <2>2. rc_sync' \in [Syncs -> One]
    BY <1>0, <1>idle, <2>1
  <2>3. /\ rc_task' \in [Slots -> Call!Task \cup {None}]
        /\ \A t \in Slots : rc_task'[t] # None /\ rc_task'[t].stage # "waiting"
                => rc_task'[t] = rc_task[t]
    BY <1>0, <2>1, CallAddTypes DEF Call!TypeOK
  <2>4. Call!TypeOK'
    BY <2>1, <2>2, <2>3 DEF Call!TypeOK
  <2> QED
    BY <2>1, <2>3, <2>4, CallQuietKeeps
<1> QED
  BY <1>1, <1>2, <1>3, <1>4 DEF Call!Conversations

\* A soft deletion leaves the status of a row, and the sweep takes the row away.
LEMMA CallRetentionKeeps ==
    ASSUME CallBounds, CallIInv, NEW i \in Call!Ids, Call!Delete(i) \/ Call!Retention(i)
    PROVE  CallIInv'
<1> USE DEF CallIInv
<1> DEFINE One == [stage : {"idle", "object", "row", "thread"}, name : Nat]
<1>0. rc_row[i] \in Call!Row \cup {None} /\ rc_sweep \in [Call!Ids -> One] /\ Call!Still \in One
  BY DEF Call!TypeOK, Call!Still
<1>1. ASSUME NEW d \in {"recent", "old"}, rc_row[i] # None,
             rc_row' = [rc_row EXCEPT ![i].deleted = d],
             rc_bounds' = rc_bounds \/ Call!Use("deletes"),
             UNCHANGED <<rc_object, rc_threads, rc_task, rc_event, rc_sync, rc_sweep, rc_owing,
                         rc_billed, rc_lifted, rc_born>>
      PROVE  CallIInv'
  <2> DEFINE now == [rc_row[i] EXCEPT !.deleted = d]
  <2>1. now \in Call!Row /\ (Call!Uploaded(now) <=> Call!Uploaded(rc_row[i]))
    BY <1>0, <1>1 DEF Call!Row, Call!Uploaded, CallBounds
  <2>2. rc_row' = [rc_row EXCEPT ![i] = now]
    BY <1>1
  <2> HIDE DEF now
  <2>3. /\ rc_row' \in [Call!Ids -> Call!Row \cup {None}]
        /\ \A j \in Call!Ids : rc_row'[j] = IF j = i THEN now ELSE rc_row[j]
    BY <2>1, <2>2 DEF Call!TypeOK
  <2>4. rc_bounds' \in [syncs : Nat, asked : Nat, deletes : Nat, deaths : Nat]
    BY <1>1 DEF Call!Use, Call!TypeOK
  <2>5. Call!TypeOK'
    BY <1>1, <2>3, <2>4 DEF Call!TypeOK
  <2>6. \A j \in Call!Ids :
          /\ Call!Uploaded(rc_row'[j]) => Call!Uploaded(rc_row[j])
          /\ rc_lifted'[j] = rc_lifted[j] +
               (IF Call!Uploaded(rc_row[j]) /\ ~Call!Uploaded(rc_row'[j]) THEN 1 ELSE 0)
    BY <1>1, <2>1, <2>3 DEF Call!TypeOK
  <2> QED
    BY <1>1, <2>5, <2>6, CallRowsKeep
<1>2. CASE Call!Delete(i)
  BY <1>1, <1>2 DEF Call!Delete, Call!ledger
<1>3. CASE Call!Age(i)
  BY <1>1, <1>3 DEF Call!Age, Call!ledger
<1>4. CASE Call!SweepObject(i)
  <2>1. rc_sweep' \in [Call!Ids -> One] /\ rc_object' \subseteq Call!Ids
    BY <1>0, <1>4 DEF Call!SweepObject, Call!TypeOK
  <2>2. UNCHANGED <<rc_row, rc_threads, rc_task, rc_event, rc_sync, rc_owing, rc_billed,
           rc_lifted,
                    rc_born, rc_bounds>>
    BY <1>4 DEF Call!SweepObject, Call!ledger
  <2>3. Call!TypeOK'
    BY <2>1, <2>2 DEF Call!TypeOK
  <2> QED
    BY <2>2, <2>3, CallQuietKeeps
<1>5. CASE Call!SweepThread(i)
  <2>1. rc_sweep' \in [Call!Ids -> One] /\ rc_threads' \in Nat
    BY <1>0, <1>5 DEF Call!SweepThread, Call!TypeOK
  <2>2. UNCHANGED <<rc_row, rc_object, rc_task, rc_event, rc_sync, rc_owing, rc_billed,
           rc_lifted,
                    rc_born, rc_bounds>>
    BY <1>5 DEF Call!SweepThread, Call!ledger
  <2>3. Call!TypeOK'
    BY <2>1, <2>2 DEF Call!TypeOK
  <2> QED
    BY <2>2, <2>3, CallQuietKeeps
<1>6. CASE Call!SweepRow(i)
  <2> DEFINE same == rc_row[i] # None /\ rc_row[i].name = rc_sweep[i].name
  <2>1. /\ UNCHANGED <<rc_object, rc_threads, rc_task, rc_event, rc_sync, rc_owing, rc_billed,
                       rc_born, rc_bounds>>
        /\ rc_row' = IF same THEN [rc_row EXCEPT ![i] = None] ELSE rc_row
        /\ rc_lifted' = IF same /\ Call!Uploaded(rc_row[i])
             THEN [rc_lifted EXCEPT ![i] = @ + 1] ELSE rc_lifted
    BY <1>6 DEF Call!SweepRow, Call!ledger
  <2>2. rc_sweep' \in [Call!Ids -> One]
    BY <1>0, <1>6 DEF Call!SweepRow
  <2>3. /\ rc_row' \in [Call!Ids -> Call!Row \cup {None}] /\ rc_lifted' \in [Call!Ids -> Nat]
        /\ \A j \in Call!Ids :
             /\ rc_row'[j] = IF j = i /\ same THEN None ELSE rc_row[j]
             /\ rc_lifted'[j] = rc_lifted[j] +
                  (IF j = i /\ same /\ Call!Uploaded(rc_row[i]) THEN 1 ELSE 0)
    <3> HIDE DEF same
    <3> QED BY <2>1 DEF Call!TypeOK
  <2>4. Call!TypeOK'
    BY <2>1, <2>2, <2>3 DEF Call!TypeOK
  <2>5. ~Call!Uploaded(None)
    BY DEF Call!Uploaded
  <2>6. \A j \in Call!Ids :
          /\ Call!Uploaded(rc_row'[j]) => Call!Uploaded(rc_row[j])
          /\ rc_lifted'[j] = rc_lifted[j] +
               (IF Call!Uploaded(rc_row[j]) /\ ~Call!Uploaded(rc_row'[j]) THEN 1 ELSE 0)
    <3> HIDE DEF same
    <3> QED BY <2>3, <2>5
  <2> QED
    BY <2>1, <2>4, <2>6, CallRowsKeep
<1> QED
  BY <1>2, <1>3, <1>4, <1>5, <1>6 DEF Call!Retention

\* The sweep only reads; a death puts every job back, and forgets what was owed.
LEMMA CallSweepDieKeep ==
    ASSUME CallBounds, CallIInv, Call!Sweep \/ Call!Die
    PROVE  CallIInv'
<1> USE DEF CallIInv
<1> DEFINE One == [stage : {"idle", "object", "row", "thread"}, name : Nat]
<1>0. Call!Still \in One
         /\ Call!Idle \in [ stage : {"idle", "thread", "look", "write", "attach"},
                                         thread : BOOLEAN, found : Call!Row \cup {None} ]
  BY DEF Call!Still, Call!Idle
<1>1. CASE Call!Sweep
  <2> DEFINE due(i) == rc_row[i] # None /\ rc_row[i].deleted = "old"
             e(i) == [ stage |-> IF rc_row[i].audio THEN "object" ELSE "row",
                       name |-> rc_row[i].name ]
  <2>1. rc_sweep' = [i \in Call!Ids |-> IF due(i) THEN e(i) ELSE Call!Still]
    BY <1>1 DEF Call!Sweep
  <2>2. \A i \in Call!Ids : due(i) => e(i) \in One
    BY DEF Call!TypeOK, Call!Row
  <2>3. rc_sweep' \in [Call!Ids -> One]
    <3> HIDE DEF due, e, One
    <3> QED BY <1>0, <2>1, <2>2
  <2>4. UNCHANGED <<rc_row, rc_object, rc_threads, rc_task, rc_event, rc_sync, rc_owing,
           rc_billed,
                    rc_lifted, rc_born, rc_bounds>>
    BY <1>1 DEF Call!Sweep, Call!ledger
  <2>5. Call!TypeOK'
    BY <2>3, <2>4 DEF Call!TypeOK
  <2> QED
    BY <2>4, <2>5, CallQuietKeeps
<1>2. CASE Call!Die
  <2> DEFINE back(t) == [t EXCEPT !.stage = "waiting"]
  <2>1. /\ rc_task' = [s \in Slots |-> IF rc_task[s] = None THEN None ELSE back(rc_task[s])]
        /\ rc_event' = IF rc_event = "noted" THEN "lost" ELSE rc_event
        /\ rc_sync' = [s \in Syncs |-> Call!Idle]
        /\ rc_sweep' = [i \in Call!Ids |-> Call!Still]
        /\ rc_owing' = [i \in Call!Ids |-> 0]
        /\ UNCHANGED <<rc_row, rc_object, rc_threads, rc_billed, rc_lifted, rc_born>>
        /\ Call!Use("deaths")
    BY <1>2 DEF Call!Die
  <2>2. \A t \in Call!Task : back(t) \in Call!Task /\ back(t).stage = "waiting"
    BY DEF Call!Task
  <2>3. rc_task \in [Slots -> Call!Task \cup {None}]
    BY DEF Call!TypeOK
  <2>4. /\ rc_task' \in [Slots -> Call!Task \cup {None}]
        /\ \A s \in Slots : rc_task'[s] # None => rc_task'[s].stage = "waiting"
    <3> HIDE DEF back
    <3> QED BY <2>1, <2>2, <2>3
  <2>5. rc_bounds' \in [syncs : Nat, asked : Nat, deletes : Nat, deaths : Nat]
    BY <2>1 DEF Call!Use, Call!TypeOK
  <2>6. Call!TypeOK'
    BY <1>0, <2>1, <2>4, <2>5 DEF Call!TypeOK
  <2>7. CallOneAtWork' /\ CallWorkIsDue'
    BY <2>4 DEF CallOneAtWork, CallWorkIsDue, Call!AtWork
  <2>8. CallCharged'
    <3>1. \A i \in Call!Ids : rc_owing'[i] = 0 /\ rc_billed'[i] = rc_billed[i]
             /\ rc_owing[i] \in Nat /\ rc_billed[i] \in Nat
      BY <2>1 DEF Call!TypeOK
    <3>2. \A i \in Call!Ids :
            /\ rc_lifted[i] \in Nat /\ rc_lifted'[i] = rc_lifted[i]
            /\ Call!Uploaded(rc_row'[i]) <=> Call!Uploaded(rc_row[i])
      BY <2>1 DEF Call!TypeOK
    <3> QED
      BY <3>1, <3>2 DEF CallCharged
  <2> QED
    BY <2>6, <2>7, <2>8
<1> QED
  BY <1>1, <1>2

\* An insert of the minutes is written: what was owed is billed.
LEMMA CallChargeKeeps ==
    ASSUME CallBounds, CallIInv, NEW i \in Call!Ids, Call!Charge(i)
    PROVE  CallIInv'
<1> USE DEF CallIInv
<1>1. /\ rc_owing[i] > 0
      /\ rc_owing' = [rc_owing EXCEPT ![i] = @ - 1]
              /\ rc_billed' = [rc_billed EXCEPT ![i] = @ + 1]
      /\ UNCHANGED <<rc_row, rc_object, rc_threads, rc_task, rc_event, rc_sync, rc_sweep,
              rc_lifted,
                     rc_born, rc_bounds>>
  BY DEF Call!Charge
<1>2. /\ rc_owing' \in [Call!Ids -> Nat] /\ rc_billed' \in [Call!Ids -> Nat]
      /\ \A j \in Call!Ids : rc_billed'[j] + rc_owing'[j] = rc_billed[j] + rc_owing[j]
  <2>1. \A j \in Call!Ids : rc_owing[j] \in Nat /\ rc_billed[j] \in Nat
    BY DEF Call!TypeOK
  <2>2. \A j \in Call!Ids :
          /\ rc_owing'[j] = IF j = i THEN rc_owing[i] - 1 ELSE rc_owing[j]
          /\ rc_billed'[j] = IF j = i THEN rc_billed[i] + 1 ELSE rc_billed[j]
    BY <1>1 DEF Call!TypeOK
  <2>3. rc_owing[i] - 1 \in Nat /\ rc_billed[i] + 1 \in Nat
    BY <1>1, <2>1
  <2>4. rc_owing' \in [Call!Ids -> Nat] /\ rc_billed' \in [Call!Ids -> Nat]
    BY <1>1, <2>3 DEF Call!TypeOK
  <2> QED
    BY <2>1, <2>2, <2>4
<1>3. Call!TypeOK'
  BY <1>1, <1>2 DEF Call!TypeOK
<1>4. CallOneAtWork' /\ CallWorkIsDue'
  BY <1>1 DEF CallOneAtWork, CallWorkIsDue, Call!AtWork, Call!Uploaded
<1>5. CallCharged'
  BY <1>1, <1>2 DEF CallCharged, Call!Uploaded
<1> QED
  BY <1>3, <1>4, <1>5

\* The Cardinality of an instance is the Cardinality the library speaks of.
LEMMA CallCardinality == ASSUME NEW S PROVE Call!Cardinality(S) = Cardinality(S)
  BY DEF Call!Cardinality, Cardinality

\* The one worker takes a job when it has none.
LEMMA CallNoneAtWork ==
    ASSUME CallBounds, Workers = 1, Call!Cardinality(Call!AtWork) < Workers
    PROVE  Call!AtWork = {}
<1>1. IsFiniteSet(Call!AtWork)
  BY FS_Subset DEF Call!AtWork, CallBounds
<1>2. Call!Cardinality(Call!AtWork) = Cardinality(Call!AtWork)
         /\ Cardinality(Call!AtWork) \in Nat
  BY <1>1, CallCardinality, FS_CardinalityType
<1> QED
  BY <1>1, <1>2, FS_EmptySet

\* A job that is taken, goes on, is retried or is over.
LEMMA CallWorkKeeps ==
    ASSUME CallBounds, CallIInv, NEW s \in Slots, Call!Work(s)
    PROVE  CallIInv'
<1> USE DEF CallIInv
<1> DEFINE id == rc_task[s].id
<1>0. rc_task[s] # None /\ rc_task[s] \in Call!Task /\ id \in Call!Ids
  BY DEF Call!Work, Call!Take, Call!Fetch, Call!TranscriptFails, Call!Save, Call!Finish,
     Call!Fail,
         Call!TypeOK, Call!Task
\* A step that moves the job on and writes no row.
<1>1. ASSUME NEW x \in {"fetch", "stored", "failing"}, Call!Goto(s, x),
             rc_object' \subseteq Call!Ids,
             Workers = 1 => Call!AtWork \subseteq {s} /\ ~Call!Uploaded(rc_row[id]),
             UNCHANGED <<rc_row, rc_threads, rc_event, rc_sync, rc_sweep, rc_owing, rc_billed,
                         rc_lifted, rc_born, rc_bounds>>
      PROVE  CallIInv'
  <2>1. /\ rc_task' \in [Slots -> Call!Task \cup {None}]
        /\ \A t \in Slots : t # s => rc_task'[t] = rc_task[t]
        /\ rc_task'[s] # None /\ rc_task'[s].id = id
    BY <1>0, <1>1, CallGotoTypes
  <2>2. Call!TypeOK'
    BY <1>1, <2>1 DEF Call!TypeOK
  <2>3. CallOneAtWork'
    BY <1>1, <2>1 DEF CallOneAtWork, Call!AtWork
  <2>4. CallWorkIsDue'
    BY <1>1, <2>1 DEF CallWorkIsDue, Call!Uploaded
  <2>5. CallCharged'
    BY <1>1 DEF CallCharged, Call!Uploaded
  <2> QED
    BY <2>2, <2>3, <2>4, <2>5
\* A job that is over.
<1>2. ASSUME rc_task' = [rc_task EXCEPT ![s] = None],
             UNCHANGED <<rc_row, rc_object, rc_threads, rc_event, rc_sync, rc_sweep,
                rc_owing, rc_billed,
                         rc_lifted, rc_born, rc_bounds>>
      PROVE  CallIInv'
  <2>1. /\ rc_task' \in [Slots -> Call!Task \cup {None}]
        /\ \A t \in Slots : rc_task'[t] # None /\ rc_task'[t].stage # "waiting"
                => rc_task'[t] = rc_task[t]
    BY <1>2 DEF Call!TypeOK
  <2>2. Call!TypeOK'
    BY <1>2, <2>1 DEF Call!TypeOK
  <2> QED
    BY <1>2, <2>1, <2>2, CallQuietKeeps
<1>3. CASE Call!Take(s)
  <2>1. Workers = 1 => Call!AtWork \subseteq {s}
    BY <1>3, CallNoneAtWork DEF Call!Take
  <2>2. CASE rc_task' = [rc_task EXCEPT ![s] = None]
    BY <1>2, <1>3, <2>2 DEF Call!Take, Call!ledger
  <2>3. CASE ~Call!Uploaded(rc_row[id]) /\ Call!Goto(s, "fetch")
    <3>1. rc_object' \subseteq Call!Ids
      BY <1>3 DEF Call!Take, Call!TypeOK
    <3> QED
      BY <1>1, <1>3, <2>1, <2>3, <3>1 DEF Call!Take, Call!ledger
  <2> QED
    BY <1>3, <2>2, <2>3 DEF Call!Take
<1>4. CASE Call!Fetch(s) \/ Call!TranscriptFails(s)
  <2>1. s \in Call!AtWork /\ (Workers = 1 => ~Call!Uploaded(rc_row[id]))
    BY <1>0, <1>4 DEF Call!Fetch, Call!TranscriptFails, Call!AtWork, CallWorkIsDue
  <2>2. Workers = 1 => Call!AtWork \subseteq {s}
    BY <2>1 DEF CallOneAtWork
  <2>3. rc_object' \subseteq Call!Ids
    BY <1>0, <1>4 DEF Call!Fetch, Call!TranscriptFails, Call!TypeOK
  <2>4. Call!Goto(s, "stored") \/ Call!Goto(s, "failing")
    BY <1>4 DEF Call!Fetch, Call!TranscriptFails
  <2> QED
    BY <1>1, <1>4, <2>1, <2>2, <2>3, <2>4 DEF Call!Fetch, Call!TranscriptFails, Call!ledger
<1>5. CASE Call!Save(s)
  <2>1. /\ Call!Upsert(id, "uploaded", TRUE) /\ Call!Goto(s, "saved")
             /\ rc_task[s].stage = "stored"
        /\ rc_owing' = [rc_owing EXCEPT ![id] = @ + 1]
        /\ UNCHANGED <<rc_object, rc_threads, rc_event, rc_sync, rc_sweep, rc_billed, rc_lifted,
                       rc_bounds>>
    BY <1>5 DEF Call!Save
  <2>2. s \in Call!AtWork /\ (Workers = 1 => ~Call!Uploaded(rc_row[id]))
    BY <1>0, <2>1 DEF Call!AtWork, CallWorkIsDue
  <2>3. Workers = 1 => \A t \in Call!AtWork : t = s
    BY <2>2 DEF CallOneAtWork
  <2>4. /\ rc_task' \in [Slots -> Call!Task \cup {None}]
        /\ \A t \in Slots : t # s => rc_task'[t] = rc_task[t]
        /\ rc_task'[s].stage = "saved"
    BY <1>0, <2>1, CallGotoTypes
  <2>5. /\ rc_row' \in [Call!Ids -> Call!Row \cup {None}] /\ rc_born' \in Nat
        /\ \A j \in Call!Ids : j # id => rc_row'[j] = rc_row[j]
        /\ Call!Uploaded(rc_row'[id])
    BY <1>0, <2>1, CallUpsertTypes DEF Call!Uploaded
  <2>6. /\ rc_owing' \in [Call!Ids -> Nat]
        /\ \A j \in Call!Ids : rc_owing'[j] = rc_owing[j] + (IF j = id THEN 1 ELSE 0)
    BY <1>0, <2>1 DEF Call!TypeOK
  <2>7. Call!TypeOK'
    BY <2>1, <2>4, <2>5, <2>6 DEF Call!TypeOK
  <2>8. CallOneAtWork'
    BY <2>3, <2>4 DEF CallOneAtWork, Call!AtWork
  <2>9. CallWorkIsDue'
    BY <2>3, <2>4 DEF CallWorkIsDue, Call!AtWork
  <2>10. CallCharged'
    <3>1. \A j \in Call!Ids :
            rc_billed[j] \in Nat /\ rc_owing[j] \in Nat /\ rc_lifted[j] \in Nat
            /\ rc_billed'[j] = rc_billed[j] /\ rc_lifted'[j] = rc_lifted[j]
      BY <2>1 DEF Call!TypeOK
    <3> QED
      BY <1>0, <2>2, <2>5, <2>6, <3>1 DEF CallCharged
  <2> QED
    BY <2>7, <2>8, <2>9, <2>10
<1>6. CASE Call!Finish(s)
  BY <1>2, <1>6 DEF Call!Finish, Call!ledger
<1>7. CASE Call!Fail(s)
  <2> DEFINE again == [rc_task[s] EXCEPT !.failed = rc_task[s].failed + 1, !.stage = "waiting"]
  <2>1. /\ Call!Upsert(id, "failed", FALSE) /\ rc_task[s].stage = "failing"
        /\ UNCHANGED <<rc_object, rc_threads, rc_event, rc_sync, rc_sweep, rc_owing, rc_billed,
                       rc_lifted, rc_bounds>>
        /\ rc_task' = [rc_task EXCEPT ![s] =
             IF rc_task[s].failed + 1 = MaxAttempts THEN None ELSE again]
    BY <1>7 DEF Call!Fail, Call!ledger
  <2>2. ASSUME rc_task[s].failed + 1 # MaxAttempts
        PROVE  again \in Call!Task /\ again.stage = "waiting"
    <3>1. rc_task[s].failed \in 0 .. MaxAttempts - 1 /\ MaxAttempts \in Nat \ {0}
      BY <1>0 DEF Call!Task, CallBounds
    <3>2. rc_task[s].failed + 1 \in 0 .. MaxAttempts - 1
      BY <2>2, <3>1
    <3> QED
      BY <1>0, <3>2 DEF Call!Task
  <2>3. s \in Call!AtWork /\ (Workers = 1 => ~Call!Uploaded(rc_row[id]))
    BY <1>0, <2>1 DEF Call!AtWork, CallWorkIsDue
  <2>4. Workers = 1 => \A t \in Call!AtWork : t = s
    BY <2>3 DEF CallOneAtWork
  <2> HIDE DEF again
  <2>5. /\ rc_task' \in [Slots -> Call!Task \cup {None}]
        /\ Workers = 1 => \A t \in Slots :
                             rc_task'[t] # None => rc_task'[t].stage = "waiting"
    BY <2>1, <2>2, <2>4 DEF Call!TypeOK, Call!AtWork
  <2>6. /\ rc_row' \in [Call!Ids -> Call!Row \cup {None}] /\ rc_born' \in Nat
        /\ \A j \in Call!Ids : j # id => rc_row'[j] = rc_row[j]
        /\ ~Call!Uploaded(rc_row'[id])
    BY <1>0, <2>1, CallUpsertTypes DEF Call!Uploaded
  <2>7. Call!TypeOK'
    BY <2>1, <2>5, <2>6 DEF Call!TypeOK
  <2>8. CallOneAtWork' /\ CallWorkIsDue'
    BY <2>5 DEF CallOneAtWork, CallWorkIsDue, Call!AtWork
  <2>9. CallCharged'
    <3>1. UNCHANGED <<rc_billed, rc_owing, rc_lifted>>
      BY <2>1
    <3>2. Workers = 1 => \A j \in Call!Ids :
                             Call!Uploaded(rc_row'[j]) <=> Call!Uploaded(rc_row[j])
      BY <1>0, <2>3, <2>6
    <3> QED
      BY <3>1, <3>2 DEF CallCharged
  <2> QED
    BY <2>7, <2>8, <2>9
<1> QED
  BY <1>3, <1>4, <1>5, <1>6, <1>7 DEF Call!Work

\* Every step of the call keeps the invariant.
LEMMA CallNextIInv ==
    ASSUME CallBounds, CallIInv, [Call!Next]_(Call!vars) PROVE CallIInv'
<1>1. CASE UNCHANGED Call!vars
  BY <1>1 DEF CallIInv, Call!TypeOK, CallOneAtWork, CallWorkIsDue, CallCharged, Call!AtWork,
              Call!Uploaded, Call!vars, Call!ledger
<1>2. CASE Call!Next
  BY <1>2, CallEventsKeep, CallSyncKeeps, CallRetentionKeeps, CallSweepDieKeep, CallChargeKeeps,
     CallWorkKeeps DEF Call!Next
<1> QED
  BY <1>1, <1>2

\* BilledOnce is what is left when it is not said which row is uploaded.
LEMMA CallBilledOnce == ASSUME CallIInv, Workers = 1 PROVE Call!BilledOnce
BY DEF CallIInv, CallCharged, Call!BilledOnce, Call!TypeOK

\* The calls take a step of their own, or stand still.
LEMMA CallSteps == [Next]_vars => [Call!Next]_(Call!vars)
BY DEF Next, vars, SyncNext, TenantNext, MenuNext, CallNext, CallVars, Call!vars, Call!ledger

\* However often the import of a recording is queued, retried or taken from a worker that
\* died, one worker bills its minutes once, and again only after the row was taken back
\* from 'uploaded': the property of Recordings, for every number of jobs and attempts.
THEOREM CallIsBilledOnce == ASSUME CallBounds, Workers = 1 PROVE Call!Spec => []Call!BilledOnce
<1>1. Call!Init => CallIInv
  BY CallInitIInv
<1>2. CallIInv /\ [Call!Next]_(Call!vars) => CallIInv'
  BY CallNextIInv
<1>3. CallIInv => Call!BilledOnce
  BY CallBilledOnce
<1> QED BY <1>1, <1>2, <1>3, PTL DEF Call!Spec

\* However often the import of a recording is queued, retried or taken from a worker that
\* died, one worker bills its minutes once, and again only after the row was taken back
\* from 'uploaded': what run "workers" checks of two jobs, of every number of them.
THEOREM BilledOnceAll == ASSUME Workers = 1 PROVE Spec => []BilledOnce
<1>1. Init => CallIInv
  BY CallAssumption, CallInitIInv DEF Init
<1>2. CallIInv /\ [Next]_vars => CallIInv'
  BY CallSteps, CallAssumption, CallNextIInv
<1>3. CallIInv => BilledOnce
  BY CallBilledOnce DEF BilledOnce
<1> QED
  BY <1>1, <1>2, <1>3, PTL DEF Spec
--------------------------------------------------------------------------------
\* What the tenant has, asks for and runs.
TenantStep ==
    [ status : {"absent", "pending", "in_progress", "completed", "failed"},
      meta : SUBSET Tenant!MetaKeys ]
TenantRun ==
    [ pc : Tenant!RunStates \ {"none"}, job : SetupJobs,
      seen : [Tenant!StepNames -> TenantStep], at : 0..8, meta : SUBSET Tenant!MetaKeys ]
TenantAsk ==
    [pc : {"check", "mark", "org?", "org!", "reset", "add"}] \cup
    [pc : {"number", "agent", "org", "location"}, number : Nat, assistant : Nat]

TenantTypeInv ==
    /\ pv_reuse \in BOOLEAN
    /\ pv_org \in [status : {"provisioning", "active", "suspended", "archived"},
            deleted : BOOLEAN]
    /\ pv_loc \in [status : {"provisioning", "active", "archived"}, error : BOOLEAN,
                   assistant : Nat, number : Nat]
    /\ pv_step \in [Tenant!StepNames -> TenantStep]
    /\ pv_job \in [SetupJobs -> [state : Tenant!JobStates, failed : Nat, died : Nat,
            email : BOOLEAN]]
    /\ pv_run \in {Tenant!NoRun} \cup TenantRun
    /\ pv_ask \in {Tenant!NoAsk} \cup TenantAsk
    /\ pv_demands \in Nat /\ pv_invited \in Nat /\ pv_mishaps \in Nat
    /\ pv_vendor \in [ bought : Nat, cloned : Nat, agents : SUBSET Nat,
                       routed : {"none", "agent", "fallback"}, numbers : SUBSET Nat ]
    /\ pv_skipped \subseteq Tenant!StepNames

\* What is bought has a number of its own, and is bought for a location that has none.
TenantBuys ==
    /\ pv_vendor.numbers \subseteq 1..(pv_vendor.bought + 1)
    /\ pv_vendor.agents \subseteq 1..pv_vendor.cloned
    /\ pv_run.pc \in {"work", "ordered", "cloned", "done", "failing"} => pv_run.at \in 1..8
    /\ pv_run.pc = "ordered" => pv_run.at = 2 /\ pv_loc.number = Tenant!Nil
    /\ pv_run.pc = "cloned" => pv_run.at = 3 /\ pv_loc.assistant = Tenant!Nil
    /\ pv_run.pc = "cloned" => pv_vendor.cloned > 0
    /\ pv_reuse => pv_loc.number = Tenant!BaseNumber /\ Tenant!BaseNumber \in pv_vendor.numbers

\* The archive releases what it read, or what was written since is noted.
TenantArchives ==
    /\ pv_ask.pc = "number" =>
         pv_ask.number = pv_loc.number \/ <<"number", pv_loc.number>> \in pv_loose
    /\ pv_ask.pc \in {"number", "agent"} =>
         pv_ask.assistant = pv_loc.assistant \/ <<"agent", pv_loc.assistant>> \in pv_loose
    /\ pv_org.deleted \/ pv_ask.pc \in {"agent", "org", "location"} =>
         \/ pv_loc.number \notin pv_vendor.numbers \/ pv_loc.number = Tenant!BaseNumber
         \/ <<"number", pv_loc.number>> \in pv_loose
    /\ pv_org.deleted \/ pv_ask.pc \in {"org", "location"} =>
         \/ pv_loc.assistant \notin pv_vendor.agents
         \/ <<"agent", pv_loc.assistant>> \in pv_loose

\* What step s was to leave is there, or the operator skipped it.
TenantDone(s) ==
    /\ s = "purchase" => pv_loc.number # Tenant!Nil \/ "purchase" \in pv_skipped
    /\ s = "clone" => pv_loc.assistant # Tenant!Nil \/ "clone" \in pv_skipped
    /\ s = "assign" => pv_vendor.routed # "none" \/ "assign" \in pv_skipped
    /\ s = "invite" /\ pv_demands = 0 => pv_invited > 0

\* A step shown as over is done, as are those the attempt has behind it.
TenantBehind(i) ==
    \/ i < pv_run.at
    \/ i = pv_run.at /\ pv_run.pc \in {"next", "done"}
    \/ pv_run.pc \in {"activate", "finish"}

TenantOver(s) == s.status \in {"completed", "absent"}

TenantEquips ==
    /\ \A s \in Tenant!StepNames : TenantOver(pv_step[s]) => TenantDone(s)
    /\ pv_run.pc # "none" =>
         /\ \A s \in Tenant!StepNames : TenantOver(pv_run.seen[s]) => TenantDone(s)
         /\ \A i \in 1..8 : TenantBehind(i) => TenantDone(Tenant!Line[i])
    /\ pv_loc.status = "active" => \A s \in Tenant!StepNames : TenantDone(s)

\* Without the operator there is the first job alone, which has the address.
TenantFirst ==
    /\ pv_job[FirstJob].email
    /\ pv_demands = 0 =>
         /\ pv_ask = Tenant!NoAsk
         /\ \A j \in SetupJobs : j # FirstJob => pv_job[j].state = "none"
         /\ pv_run.pc # "none" => pv_run.job = FirstJob

TenantIInv ==
    /\ TenantTypeInv /\ TenantBuys /\ TenantArchives /\ TenantEquips /\ TenantFirst
    /\ Tenant!NothingBoughtTwice
--------------------------------------------------------------------------------
\* The lines of the list, and the steps.
LEMMA TenantLine ==
    /\ Tenant!Line[1] = "search" /\ Tenant!Line[2] = "purchase" /\ Tenant!Line[3] = "clone"
    /\ Tenant!Line[4] = "assign" /\ Tenant!Line[5] = "configure" /\ Tenant!Line[6] = "menu"
    /\ Tenant!Line[7] = "webhook" /\ Tenant!Line[8] = "invite"
    /\ Tenant!StepNames = { "search", "purchase", "clone", "assign", "configure", "menu",
                            "webhook", "invite" }
    /\ \A i \in 1..8 : Tenant!Line[i] \in Tenant!StepNames
    /\ \A s \in Tenant!StepNames : \E i \in 1..8 : s = Tenant!Line[i]
<1>1. 1..8 = {1, 2, 3, 4, 5, 6, 7, 8}
  OBVIOUS
<1>2. /\ Tenant!Line[1] = "search" /\ Tenant!Line[2] = "purchase" /\ Tenant!Line[3] = "clone"
      /\ Tenant!Line[4] = "assign" /\ Tenant!Line[5] = "configure" /\ Tenant!Line[6] = "menu"
      /\ Tenant!Line[7] = "webhook" /\ Tenant!Line[8] = "invite"
  BY DEF Tenant!Line
<1>3. Tenant!StepNames = { "search", "purchase", "clone", "assign", "configure", "menu",
                            "webhook", "invite" }
  BY <1>1, <1>2 DEF Tenant!StepNames
<1>4. \A i \in 1..8 : Tenant!Line[i] \in Tenant!StepNames
  BY DEF Tenant!StepNames
<1>5. \A s \in Tenant!StepNames : \E i \in 1..8 : s = Tenant!Line[i]
  BY DEF Tenant!StepNames
<1> QED
  BY <1>2, <1>3, <1>4, <1>5

\* What a step leaves as it was.
LEMMA TenantMoves ==
    ASSUME Tenant!Next
    PROVE  /\ pv_reuse' = pv_reuse
           /\ \/ pv_org' = pv_org \/ Tenant!ActivateOrg \/ Tenant!RetryOrg
              \/ Tenant!ArchiveOrg \/ \E s \in {"active", "suspended"} : Tenant!SetStatus(s)
           /\ \/ pv_loc' = pv_loc \/ Tenant!SaveNumber \/ Tenant!SaveAgent
              \/ Tenant!FailLocation \/ Tenant!ActivateLocation \/ Tenant!RetryMark
              \/ Tenant!ArchiveLocation \/ \E s \in Tenant!StepNames : Tenant!Sweep(s)
           /\ \/ pv_demands' = pv_demands
              \/ pv_demands' = pv_demands + 1 /\ pv_demands < MaxDemands
           /\ pv_invited' = pv_invited \/ Tenant!Invite \/ Tenant!MailFails
           /\ \/ pv_mishaps' = pv_mishaps
              \/ pv_mishaps' = pv_mishaps + 1 /\ pv_mishaps < MaxMishaps
           /\ \/ pv_skipped' = pv_skipped
              \/ \E s \in Tenant!StepNames : Tenant!SkipStep(s)
           /\ \/ pv_vendor' = pv_vendor \/ Tenant!BuyNumber \/ Tenant!CloneAgent
              \/ Tenant!Assign \/ Tenant!ReleaseNumber \/ Tenant!ReleaseAgent
           /\ \/ pv_job' = pv_job \/ (\E j \in SetupJobs : Tenant!Begin(j))
              \/ Tenant!FailLocation \/ Tenant!ActivateOrg \/ Tenant!WorkerDies
              \/ \E j \in SetupJobs : Tenant!RetryAdd(j)
           /\ \/ pv_ask' = pv_ask /\ pv_demands' = pv_demands
              \/ Tenant!Operator
           /\ \/ pv_step' = pv_step \/ Tenant!NextStep \/ Tenant!Complete \/ Tenant!StepFails
              \/ Tenant!MailFails \/ Tenant!AnswerLost \/ Tenant!RetryReset
              \/ \E s \in Tenant!StepNames :
                   Tenant!RetryStep(s) \/ Tenant!SkipStep(s) \/ Tenant!Sweep(s)
           /\ pv_run' = pv_run \/ Tenant!Worker \/ Tenant!WorkerDies
           /\ pv_loose \subseteq pv_loose'
<1> USE DEF Tenant!Next, Tenant!Worker, Tenant!Operator, Tenant!Begin, Tenant!NextStep,
        Tenant!Search, Tenant!KeepNumber, Tenant!BuyNumber, Tenant!SaveNumber,
        Tenant!KeepAgent, Tenant!CloneAgent, Tenant!SaveAgent, Tenant!Assign,
        Tenant!Configure, Tenant!Invite, Tenant!Complete, Tenant!StepFails,
        Tenant!MailFails, Tenant!AnswerLost, Tenant!FailLocation, Tenant!ActivateLocation,
        Tenant!ActivateOrg, Tenant!WorkerDies, Tenant!Retry, Tenant!RetryStep,
        Tenant!SkipStep, Tenant!RetryCheck, Tenant!RetryMark, Tenant!RetryReadOrg,
        Tenant!RetryOrg, Tenant!RetryReset, Tenant!RetryAdd, Tenant!Deprovision,
        Tenant!ReleaseNumber, Tenant!ReleaseAgent, Tenant!ArchiveOrg,
        Tenant!ArchiveLocation, Tenant!SetStatus, Tenant!Sweep, Tenant!Demand,
        Tenant!Mishap
<1>1. pv_reuse' = pv_reuse
  OBVIOUS
<1>2. \/ pv_org' = pv_org \/ Tenant!ActivateOrg \/ Tenant!RetryOrg
      \/ Tenant!ArchiveOrg \/ \E s \in {"active", "suspended"} : Tenant!SetStatus(s)
  OBVIOUS
<1>3. \/ pv_loc' = pv_loc \/ Tenant!SaveNumber \/ Tenant!SaveAgent
      \/ Tenant!FailLocation \/ Tenant!ActivateLocation \/ Tenant!RetryMark
      \/ Tenant!ArchiveLocation \/ \E s \in Tenant!StepNames : Tenant!Sweep(s)
  OBVIOUS
<1>4. pv_demands' = pv_demands \/ (pv_demands' = pv_demands + 1 /\ pv_demands < MaxDemands)
  OBVIOUS
<1>5. pv_invited' = pv_invited \/ Tenant!Invite \/ Tenant!MailFails
  OBVIOUS
<1>6. pv_mishaps' = pv_mishaps \/ (pv_mishaps' = pv_mishaps + 1 /\ pv_mishaps < MaxMishaps)
  OBVIOUS
<1>7. \/ pv_skipped' = pv_skipped
      \/ \E s \in Tenant!StepNames : Tenant!SkipStep(s)
  OBVIOUS
<1>8. \/ pv_vendor' = pv_vendor \/ Tenant!BuyNumber \/ Tenant!CloneAgent
      \/ Tenant!Assign \/ Tenant!ReleaseNumber \/ Tenant!ReleaseAgent
  OBVIOUS
<1>9. \/ pv_job' = pv_job \/ (\E j \in SetupJobs : Tenant!Begin(j))
      \/ Tenant!FailLocation \/ Tenant!ActivateOrg \/ Tenant!WorkerDies
      \/ \E j \in SetupJobs : Tenant!RetryAdd(j)
  OBVIOUS
<1>10. \/ pv_ask' = pv_ask /\ pv_demands' = pv_demands
       \/ Tenant!Operator
  OBVIOUS
<1>11. \/ pv_step' = pv_step \/ Tenant!NextStep \/ Tenant!Complete \/ Tenant!StepFails
       \/ Tenant!MailFails \/ Tenant!AnswerLost \/ Tenant!RetryReset
       \/ \E s \in Tenant!StepNames :
            Tenant!RetryStep(s) \/ Tenant!SkipStep(s) \/ Tenant!Sweep(s)
  OBVIOUS
<1>12. pv_run' = pv_run \/ Tenant!Worker \/ Tenant!WorkerDies
  OBVIOUS
<1>13. pv_loose \subseteq pv_loose'
  BY DEF Tenant!Note
<1> QED
  BY ZenonT(60), <1>1, <1>2, <1>3, <1>4, <1>5, <1>6, <1>7, <1>8, <1>9, <1>10, <1>11,
     <1>12, <1>13

\* There is a least one among some of the eight steps.
LEMMA TenantLeast ==
    ASSUME NEW S \in SUBSET (1..8), S # {}
    PROVE  \E k \in S : \A m \in S : k <= m
<1>1. CASE 1 \in S /\ S \subseteq 1..8
  BY <1>1
<1>2. CASE 2 \in S /\ S \subseteq 2..8
  BY <1>2
<1>3. CASE 3 \in S /\ S \subseteq 3..8
  BY <1>3
<1>4. CASE 4 \in S /\ S \subseteq 4..8
  BY <1>4
<1>5. CASE 5 \in S /\ S \subseteq 5..8
  BY <1>5
<1>6. CASE 6 \in S /\ S \subseteq 6..8
  BY <1>6
<1>7. CASE 7 \in S /\ S \subseteq 7..8
  BY <1>7
<1>8. S \subseteq 7..8 \/ \E k \in {1, 2, 3, 4, 5, 6} : k \in S /\ S \subseteq k..8
  <2>1. 1 \in S \/ S \subseteq 2..8
    OBVIOUS
  <2>2. S \subseteq 2..8 => 2 \in S \/ S \subseteq 3..8
    OBVIOUS
  <2>3. S \subseteq 3..8 => 3 \in S \/ S \subseteq 4..8
    OBVIOUS
  <2>4. S \subseteq 4..8 => 4 \in S \/ S \subseteq 5..8
    OBVIOUS
  <2>5. S \subseteq 5..8 => 5 \in S \/ S \subseteq 6..8
    OBVIOUS
  <2>6. S \subseteq 6..8 => 6 \in S \/ S \subseteq 7..8
    OBVIOUS
  <2> QED
    BY <2>1, <2>2, <2>3, <2>4, <2>5, <2>6
<1>9. CASE S \subseteq 8..8
  <2>1. PICK k \in S : TRUE
    OBVIOUS
  <2>2. \A m \in S : k <= m
    BY <1>9
  <2> QED
    BY <2>1, <2>2
<1>10. S \subseteq 7..8 => 7 \in S \/ S \subseteq 8..8
  OBVIOUS
<1> QED
  BY <1>1, <1>2, <1>3, <1>4, <1>5, <1>6, <1>7, <1>8, <1>9, <1>10

\* The next step of an attempt is the first one it saw open, or there is none.
LEMMA TenantPicks ==
    ASSUME TenantTypeInv, Tenant!NextStep
    PROVE  /\ pv_run \in TenantRun /\ pv_run.pc = "next"
           /\ \/ /\ pv_step' = pv_step /\ Tenant!RunTo("activate", {})
                 /\ \A k \in 1..8 : k > pv_run.at =>
                      TenantOver(pv_run.seen[Tenant!Line[k]])
              \/ \E i \in 1..8 :
                   /\ i > pv_run.at
                   /\ pv_step' = [pv_step EXCEPT ![Tenant!Line[i]].status = "in_progress"]
                   /\ pv_run' = [pv_run EXCEPT !.pc = "work", !.at = i,
                                   !.meta = pv_run.seen[Tenant!Line[i]].meta \ Tenant!Unread]
                   /\ \A k \in 1..8 : k > pv_run.at /\ k < i =>
                        TenantOver(pv_run.seen[Tenant!Line[k]])
<1>1. pv_run \in TenantRun /\ pv_run.pc = "next"
  BY DEF TenantTypeInv, Tenant!NextStep, Tenant!At, Tenant!Busy
<1>2. /\ pv_run.at \in 0..8
      /\ \A k \in 1..8 : pv_run.seen[Tenant!Line[k]] \in TenantStep
  BY <1>1, TenantLine DEF TenantRun
<1> DEFINE open == {i \in (pv_run.at + 1)..8 : pv_run.seen[Tenant!Line[i]].status
                                            \notin {"completed", "skipped", "absent"}}
<1>3. /\ open \subseteq 1..8 /\ open \in SUBSET Nat
      /\ \A k \in open : k > pv_run.at
      /\ \A k \in 1..8 : k > pv_run.at /\ k \notin open
              => TenantOver(pv_run.seen[Tenant!Line[k]])
  BY <1>2 DEF TenantOver, TenantStep
<1>4. IF open = {}
        THEN Tenant!RunTo("activate", {}) /\ UNCHANGED pv_step
        ELSE LET i == CHOOSE i \in open : \A k \in open : i <= k
             IN /\ pv_step' = [pv_step EXCEPT ![Tenant!Line[i]].status = "in_progress"]
                /\ pv_run' = [pv_run EXCEPT !.pc = "work", !.at = i,
                                !.meta = pv_run.seen[Tenant!Line[i]].meta \ Tenant!Unread]
  BY DEF Tenant!NextStep
<1> HIDE DEF open
<1>5. CASE open = {}
  BY <1>1, <1>3, <1>4, <1>5
<1>6. CASE open # {}
  <2> DEFINE i == CHOOSE i \in open : \A k \in open : i <= k
  <2>1. \E k \in open : \A m \in open : k <= m
    BY <1>3, <1>6, TenantLeast
  <2>2. i \in open /\ \A k \in open : i <= k
    BY <2>1
  <2>3. /\ pv_step' = [pv_step EXCEPT ![Tenant!Line[i]].status = "in_progress"]
        /\ pv_run' = [pv_run EXCEPT !.pc = "work", !.at = i,
                       !.meta = pv_run.seen[Tenant!Line[i]].meta \ Tenant!Unread]
    BY <1>4, <1>6
  <2> HIDE DEF i
  <2>4. /\ i \in 1..8 /\ i > pv_run.at
        /\ \A k \in 1..8 : k > pv_run.at /\ k < i => TenantOver(pv_run.seen[Tenant!Line[k]])
    <3>1. \A k \in open : ~(k < i)
      BY <1>3, <2>2
    <3> QED
      BY <1>3, <2>2, <3>1
  <2> QED
    BY <1>1, <2>3, <2>4
<1> QED
  BY <1>5, <1>6

\* Every step keeps the types of what it writes.
LEMMA TenantTypes ==
    ASSUME TenantTypeInv, TenantBuys, Tenant!Next
    PROVE  TenantTypeInv'
<1>0. TenantTypeInv
  OBVIOUS
<1>1. pv_reuse' \in BOOLEAN
  BY <1>0, TenantMoves DEF TenantTypeInv
<1>2. pv_org' \in [ status : {"provisioning", "active", "suspended", "archived"},
                    deleted : BOOLEAN ]
  <2> DEFINE Org == [ status : {"provisioning", "active", "suspended", "archived"},
                      deleted : BOOLEAN ]
  <2>1. pv_org \in Org
    BY <1>0 DEF TenantTypeInv
  <2>2. \A t \in {"provisioning", "active", "suspended"} : [pv_org EXCEPT !.status = t] \in Org
    BY <2>1
  <2>3. [status |-> "archived", deleted |-> TRUE] \in Org
    OBVIOUS
  <2>4. \/ pv_org' = pv_org \/ pv_org' = [status |-> "archived", deleted |-> TRUE]
        \/ \E t \in {"provisioning", "active", "suspended"} : pv_org'
                = [pv_org EXCEPT !.status = t]
    BY TenantMoves DEF Tenant!ActivateOrg, Tenant!RetryOrg, Tenant!ArchiveOrg, Tenant!SetStatus
  <2> HIDE DEF Org
  <2> QED
    BY <2>1, <2>2, <2>3, <2>4 DEF Org
<1>3. pv_loc' \in [ status : {"provisioning", "active", "archived"}, error : BOOLEAN,
                    assistant : Nat, number : Nat ]
  <2>1. pv_vendor.bought + 1 \in Nat /\ pv_vendor.cloned \in Nat
    BY <1>0 DEF TenantTypeInv
  <2> QED
    BY ZenonT(60), <1>0, <2>1, TenantMoves
       DEF TenantTypeInv, Tenant!SaveNumber, Tenant!SaveAgent,
      Tenant!FailLocation, Tenant!ActivateLocation, Tenant!RetryMark, Tenant!ArchiveLocation,
      Tenant!Sweep
<1>4. pv_demands' \in Nat /\ pv_invited' \in Nat /\ pv_mishaps' \in Nat
  BY <1>0, TenantMoves DEF TenantTypeInv, Tenant!Invite, Tenant!MailFails
<1>5. pv_skipped' \subseteq Tenant!StepNames
  BY <1>0, TenantMoves DEF TenantTypeInv, Tenant!SkipStep
<1>6. pv_vendor' \in [ bought : Nat, cloned : Nat, agents : SUBSET Nat,
                       routed : {"none", "agent", "fallback"}, numbers : SUBSET Nat ]
  <2> DEFINE Vendor == [ bought : Nat, cloned : Nat, agents : SUBSET Nat,
                         routed : {"none", "agent", "fallback"}, numbers : SUBSET Nat ]
  <2>1. pv_vendor \in Vendor
    BY <1>0 DEF TenantTypeInv
  <2>2. CASE Tenant!BuyNumber
    <3>1. /\ pv_vendor.bought + 1 \in Nat
          /\ pv_vendor.numbers \cup {pv_vendor.bought + 2} \in SUBSET Nat
      BY <2>1
    <3> QED
      BY <2>1, <2>2, <3>1 DEF Tenant!BuyNumber
  <2>3. CASE Tenant!CloneAgent
    <3>1. /\ pv_vendor.cloned + 1 \in Nat
          /\ pv_vendor.agents \cup {pv_vendor.cloned + 1} \in SUBSET Nat
      BY <2>1
    <3> QED
      BY <2>1, <2>3, <3>1 DEF Tenant!CloneAgent
  <2>4. CASE Tenant!Assign
    BY <2>1, <2>4 DEF Tenant!Assign
  <2>5. CASE Tenant!ReleaseNumber
    BY <2>1, <2>5 DEF Tenant!ReleaseNumber
  <2>6. CASE Tenant!ReleaseAgent
    BY <2>1, <2>6 DEF Tenant!ReleaseAgent
  <2> QED
    BY <2>1, <2>2, <2>3, <2>4, <2>5, <2>6, TenantMoves
<1>7. pv_job' \in [ SetupJobs -> [ state : Tenant!JobStates, failed : Nat, died : Nat,
                                    email : BOOLEAN ] ]
  <2> DEFINE Job == [ state : Tenant!JobStates, failed : Nat, died : Nat, email : BOOLEAN ]
  <2>1. pv_job \in [SetupJobs -> Job]
    BY <1>0 DEF TenantTypeInv
  <2>2. \A q \in Job : \A t \in {"waiting", "active", "done", "failed"} : \A n \in Nat :
          /\ [q EXCEPT !.state = t] \in Job
          /\ [q EXCEPT !.failed = n, !.state = t] \in Job
          /\ [q EXCEPT !.died = n, !.state = t] \in Job
    BY DEF Tenant!JobStates
  <2>3. ASSUME NEW j \in SetupJobs, NEW q \in Job
        PROVE [pv_job EXCEPT ![j] = q] \in [SetupJobs -> Job]
    BY <2>1
  <2>4. ASSUME NEW j \in SetupJobs
        PROVE  /\ pv_job[j] \in Job /\ pv_job[j].failed + 1 \in Nat
                    /\ pv_job[j].died + 1 \in Nat
    BY <2>1
  <2>5. pv_run # Tenant!NoRun => pv_run.job \in SetupJobs
    BY <1>0 DEF TenantTypeInv, TenantRun
  <2> SUFFICES pv_job' \in [SetupJobs -> Job]
    OBVIOUS
  <2> HIDE DEF Job
  <2>6. ASSUME NEW j \in SetupJobs, Tenant!Begin(j) PROVE pv_job' \in [SetupJobs -> Job]
    <3>1. pv_job' = [pv_job EXCEPT ![j] = [pv_job[j] EXCEPT !.state = "active"]]
      BY <2>1, <2>6 DEF Tenant!Begin
    <3> QED
      BY <3>1, <2>2, <2>3, <2>4
  <2>7. ASSUME NEW j \in SetupJobs, Tenant!RetryAdd(j) PROVE pv_job' \in [SetupJobs -> Job]
    <3>1. pv_job' = [pv_job EXCEPT ![j] = [pv_job[j] EXCEPT !.state = "waiting"]]
      BY <2>1, <2>7 DEF Tenant!RetryAdd
    <3> QED
      BY <3>1, <2>2, <2>3, <2>4
  <2>8. CASE Tenant!ActivateOrg
    <3>1. pv_job' = [pv_job EXCEPT ![pv_run.job] = [pv_job[pv_run.job] EXCEPT !.state = "done"]]
      BY <2>1, <2>8 DEF Tenant!ActivateOrg
    <3>2. pv_run.job \in SetupJobs
      BY <2>5, <2>8 DEF Tenant!ActivateOrg, Tenant!At, Tenant!Busy
    <3> QED
      BY <3>1, <3>2, <2>2, <2>3, <2>4
  <2>9. CASE Tenant!FailLocation
    <3> DEFINE j == pv_run.job
               n == pv_job[j].failed + 1
    <3>1. PICK t \in {"waiting", "failed"} :
            pv_job' = [pv_job EXCEPT ![j] = [pv_job[j] EXCEPT !.failed = n, !.state = t]]
      BY <2>1, <2>5, <2>9 DEF Tenant!FailLocation, Tenant!At, Tenant!Busy
    <3>2. j \in SetupJobs
      BY <2>5, <2>9 DEF Tenant!FailLocation, Tenant!At, Tenant!Busy
    <3> QED
      BY <3>1, <3>2, <2>2, <2>3, <2>4
  <2>10. CASE Tenant!WorkerDies
    <3> DEFINE j == pv_run.job
    <3>1. PICK t \in {"waiting", "failed"} :
            pv_job' = [pv_job EXCEPT ![j]
               = [pv_job[j] EXCEPT !.died = pv_job[j].died + 1, !.state = t]]
      BY <2>1, <2>5, <2>10 DEF Tenant!WorkerDies, Tenant!Busy
    <3>2. j \in SetupJobs
      BY <2>5, <2>10 DEF Tenant!WorkerDies, Tenant!Busy
    <3> QED
      BY <3>1, <3>2, <2>2, <2>3, <2>4
  <2> QED
    BY <2>1, <2>6, <2>7, <2>8, <2>9, <2>10, TenantMoves DEF Job
<1>8. pv_ask' \in {Tenant!NoAsk} \cup TenantAsk
  <2> DEFINE Words == {"check", "mark", "org?", "org!", "reset", "add"}
             Reads == {"number", "agent", "org", "location"}
  <2>1. pv_ask \in {Tenant!NoAsk} \cup TenantAsk
    BY <1>0 DEF TenantTypeInv
  <2>2. \A w \in Words : [pc |-> w] \in TenantAsk
    BY DEF TenantAsk
  <2>3. ASSUME pv_ask # Tenant!NoAsk
        PROVE \A w \in Words : pv_ask.pc \in Words => [pv_ask EXCEPT !.pc = w] \in TenantAsk
    BY <2>1, <2>3 DEF TenantAsk
  <2>4. ASSUME pv_ask # Tenant!NoAsk
        PROVE \A w \in Reads : pv_ask.pc \in Reads => [pv_ask EXCEPT !.pc = w] \in TenantAsk
    BY <2>1, <2>4 DEF TenantAsk
  <2>5. [pc |-> "number", number |-> pv_loc.number,
           assistant |-> pv_loc.assistant] \in TenantAsk
    BY <1>0 DEF TenantTypeInv, TenantAsk
  <2>6. CASE Tenant!Operator
    <3>1. CASE pv_ask' = pv_ask \/ pv_ask' = Tenant!NoAsk
      BY <2>1, <3>1
    <3>2. CASE pv_ask' = [pc |-> "check"] \/ pv_ask' = [pc |-> "mark"]
      BY <2>2, <3>2
    <3>3. CASE Tenant!Deprovision
      BY <2>5, <3>3 DEF Tenant!Deprovision
    <3>4. CASE \E w \in Words : Tenant!AskTo(w) /\ pv_ask # Tenant!NoAsk /\ pv_ask.pc \in Words
      BY <2>3, <3>4 DEF Tenant!AskTo
    <3>5. CASE \E w \in Reads : Tenant!AskTo(w) /\ pv_ask # Tenant!NoAsk /\ pv_ask.pc \in Reads
      BY <2>4, <3>5 DEF Tenant!AskTo
    <3> QED
      BY <2>6, <3>1, <3>2, <3>3, <3>4, <3>5
         DEF Tenant!Operator, Tenant!Retry, Tenant!RetryStep, Tenant!SkipStep,
             Tenant!RetryCheck, Tenant!RetryMark, Tenant!RetryReadOrg, Tenant!RetryOrg,
             Tenant!RetryReset, Tenant!RetryAdd, Tenant!ReleaseNumber, Tenant!ReleaseAgent,
             Tenant!ArchiveOrg, Tenant!ArchiveLocation, Tenant!SetStatus, Tenant!Asked
  <2> QED
    BY <2>1, <2>6, TenantMoves
<1>9. pv_step' \in [Tenant!StepNames -> TenantStep]
  <2>1. /\ pv_step \in [Tenant!StepNames -> TenantStep]
        /\ pv_run # Tenant!NoRun => pv_run \in TenantRun
    BY <1>0 DEF TenantTypeInv
  <2>2. pv_run.pc \in {"work", "ordered", "cloned", "done"} => Tenant!Now \in Tenant!StepNames
    BY TenantLine DEF TenantBuys, Tenant!Now
  <2>3. \A s \in Tenant!StepNames : \A t \in {"pending", "in_progress", "completed", "failed"} :
          [pv_step EXCEPT ![s].status = t] \in [Tenant!StepNames -> TenantStep]
    BY <2>1 DEF TenantStep
  <2>4. CASE Tenant!NextStep
    <3>1. \/ pv_step' = pv_step
          \/ \E i \in 1..8 : pv_step'
                  = [pv_step EXCEPT ![Tenant!Line[i]].status = "in_progress"]
      BY <1>0, <2>4, TenantPicks
    <3>2. ASSUME NEW i \in 1..8 PROVE [pv_step EXCEPT ![Tenant!Line[i]].status = "in_progress"]
                 \in [Tenant!StepNames -> TenantStep]
      BY <2>3, TenantLine
    <3> QED
      BY <2>1, <3>1, <3>2
  <2>5. CASE Tenant!Complete
    <3>1. /\ Tenant!Now \in Tenant!StepNames
          /\ [status |-> "completed", meta |-> pv_run.meta] \in TenantStep
      BY <2>1, <2>2, <2>5 DEF Tenant!Complete, Tenant!At, Tenant!Busy, TenantRun, TenantStep
    <3> QED
      BY <2>1, <2>5, <3>1 DEF Tenant!Complete
  <2>6. CASE Tenant!StepFails \/ Tenant!MailFails \/ Tenant!AnswerLost
    <3>1. Tenant!Now \in Tenant!StepNames /\ "invite" \in Tenant!StepNames
      BY <2>2, <2>6, TenantLine
         DEF Tenant!StepFails, Tenant!MailFails, Tenant!AnswerLost, Tenant!At,
         Tenant!Missing, Tenant!In, Tenant!Pending
    <3> QED
      BY <2>3, <2>6, <3>1 DEF Tenant!StepFails, Tenant!MailFails, Tenant!AnswerLost
  <2>7. CASE Tenant!RetryReset
    <3>1. \A s \in Tenant!StepNames : [pv_step[s] EXCEPT !.status = "pending"] \in TenantStep
      BY <2>1 DEF TenantStep
    <3> QED
      BY <2>1, <2>7, <3>1 DEF Tenant!RetryReset
  <2>8. CASE \E s \in Tenant!StepNames :
               Tenant!RetryStep(s) \/ Tenant!SkipStep(s) \/ Tenant!Sweep(s)
    <3>1. PICK s \in Tenant!StepNames :
                 Tenant!RetryStep(s) \/ Tenant!SkipStep(s) \/ Tenant!Sweep(s)
      BY <2>8
    <3>2. PICK t \in {"pending", "completed", "failed"} :
                 pv_step' = [pv_step EXCEPT ![s].status = t]
      BY <3>1 DEF Tenant!RetryStep, Tenant!SkipStep, Tenant!Sweep
    <3>3. [pv_step EXCEPT ![s].status = t] \in [Tenant!StepNames -> TenantStep]
      BY <2>3, s \in Tenant!StepNames, t \in {"pending", "completed", "failed"}
    <3> QED
      BY <3>2, <3>3
  <2> QED
    BY <2>1, <2>4, <2>5, <2>6, <2>7, <2>8, TenantMoves
<1>10. pv_run' \in {Tenant!NoRun} \cup TenantRun
  <2>1. pv_run \in {Tenant!NoRun} \cup TenantRun /\ (Tenant!Busy => pv_run \in TenantRun)
    BY <1>0 DEF TenantTypeInv, Tenant!Busy
  <2>2. \A pc \in Tenant!RunStates \ {"none"} : \A m \in SUBSET Tenant!MetaKeys :
          Tenant!Busy => [pv_run EXCEPT !.pc = pc, !.meta = m] \in TenantRun
    BY <2>1 DEF TenantRun
  <2>3. /\ Tenant!Busy => pv_run.meta \in SUBSET Tenant!MetaKeys
        /\ {"number", "assistant", "app"} \subseteq Tenant!MetaKeys
    BY <2>1 DEF TenantRun, Tenant!MetaKeys
  <2>4. {"done", "ordered", "cloned", "failing", "activate", "finish"}
           \subseteq Tenant!RunStates \ {"none"}
    BY DEF Tenant!RunStates
  <2>5. CASE \E j \in SetupJobs : Tenant!Begin(j)
    BY <1>0, <2>5 DEF TenantTypeInv, Tenant!Begin, TenantRun, Tenant!RunStates
  <2>6. CASE Tenant!NextStep
    <3>1. CASE Tenant!RunTo("activate", {})
      BY <2>2, <2>4, <2>6, <3>1 DEF Tenant!NextStep, Tenant!At, Tenant!RunTo
    <3>2. ASSUME NEW i \in 1..8,
                 pv_run' = [pv_run EXCEPT !.pc = "work", !.at = i,
                              !.meta = pv_run.seen[Tenant!Line[i]].meta \ Tenant!Unread]
          PROVE  pv_run' \in TenantRun
      <4>1. pv_run \in TenantRun /\ Tenant!Line[i] \in Tenant!StepNames
        BY <1>0, <2>6, TenantPicks, TenantLine
      <4>2. pv_run.seen[Tenant!Line[i]].meta \ Tenant!Unread \in SUBSET Tenant!MetaKeys
        BY <4>1 DEF TenantRun, TenantStep
      <4>3. "work" \in Tenant!RunStates \ {"none"} /\ i \in 0..8
        BY DEF Tenant!RunStates
      <4> QED
        BY <3>2, <4>1, <4>2, <4>3 DEF TenantRun
    <3> QED
      BY <1>0, <2>6, <3>1, <3>2, TenantPicks
  <2>7. CASE Tenant!Search \/ Tenant!KeepNumber \/ Tenant!KeepAgent \/ Tenant!Assign
             \/ Tenant!Configure \/ Tenant!Invite \/ Tenant!SaveNumber \/ Tenant!SaveAgent
    <3> DEFINE m == pv_run.meta
    <3>1. Tenant!Busy
      BY <2>7 DEF Tenant!Search, Tenant!KeepNumber, Tenant!KeepAgent, Tenant!Assign,
         Tenant!Configure, Tenant!Invite, Tenant!SaveNumber, Tenant!SaveAgent, Tenant!In,
         Tenant!At
    <3>2. \/ Tenant!RunTo("done", m) \/ Tenant!RunTo("done", m \cup {"number"})
          \/ Tenant!RunTo("done", m \cup {"assistant"})
      BY <2>7 DEF Tenant!Search, Tenant!KeepNumber, Tenant!KeepAgent, Tenant!Assign,
         Tenant!Configure, Tenant!Invite, Tenant!SaveNumber, Tenant!SaveAgent
    <3>3. /\ m \in SUBSET Tenant!MetaKeys /\ m \cup {"number"} \in SUBSET Tenant!MetaKeys
          /\ m \cup {"assistant"} \in SUBSET Tenant!MetaKeys
      BY <2>3, <3>1
    <3>4. \A w \in SUBSET Tenant!MetaKeys : Tenant!RunTo("done", w) => pv_run' \in TenantRun
      BY <2>2, <2>4, <3>1 DEF Tenant!RunTo
    <3> HIDE DEF m
    <3> QED
      BY <3>2, <3>3, <3>4
  <2>8. CASE Tenant!BuyNumber
    BY <2>2, <2>3, <2>4, <2>8 DEF Tenant!BuyNumber, Tenant!In, Tenant!At, Tenant!RunTo
  <2>9. CASE Tenant!CloneAgent
    <3>1. Tenant!Busy => pv_run.meta \cup {"assistant", "app"} \in SUBSET Tenant!MetaKeys
      BY <2>3
    <3> QED
      BY <2>2, <2>4, <2>9, <3>1 DEF Tenant!CloneAgent, Tenant!In, Tenant!At, Tenant!RunTo
  <2>10. CASE Tenant!Complete
    <3>1. pv_run \in TenantRun /\ Tenant!Now \in Tenant!StepNames
      BY <2>1, <2>10, TenantLine DEF TenantBuys, Tenant!Complete, Tenant!At, Tenant!Now
    <3>2. PICK m \in SUBSET Tenant!MetaKeys :
            pv_run' = [pv_run EXCEPT !.pc = "next", !.seen[Tenant!Now].meta = m]
      <4> DEFINE old == pv_run.seen[Tenant!Now].meta
      <4>1. pv_run' = [pv_run EXCEPT !.pc = "next", !.seen[Tenant!Now].meta =
                         IF old = Tenant!Unread THEN Tenant!Unread ELSE pv_run.meta]
        BY <2>10 DEF Tenant!Complete
      <4>2. Tenant!Unread \in SUBSET Tenant!MetaKeys /\ pv_run.meta \in SUBSET Tenant!MetaKeys
        BY <3>1 DEF TenantRun, Tenant!Unread, Tenant!MetaKeys
      <4> QED
        BY <4>1, <4>2
    <3>3. [pv_run.seen EXCEPT ![Tenant!Now].meta = m] \in [Tenant!StepNames -> TenantStep]
      BY <3>1 DEF TenantRun, TenantStep
    <3> QED
      BY <3>1, <3>2, <3>3 DEF TenantRun, Tenant!RunStates
  <2>11. CASE Tenant!StepFails \/ Tenant!MailFails \/ Tenant!AnswerLost
    <3>1. Tenant!Busy /\ Tenant!RunTo("failing", {})
      BY <2>11 DEF Tenant!StepFails, Tenant!MailFails, Tenant!AnswerLost, Tenant!Missing,
         Tenant!In, Tenant!At, Tenant!Pending
    <3> QED
      BY <2>2, <2>4, <3>1 DEF Tenant!RunTo
  <2>12. CASE Tenant!ActivateLocation
    BY <2>2, <2>4, <2>12 DEF Tenant!ActivateLocation, Tenant!At, Tenant!RunTo
  <2>13. CASE Tenant!FailLocation \/ Tenant!ActivateOrg \/ Tenant!WorkerDies
    BY <2>13 DEF Tenant!FailLocation, Tenant!ActivateOrg, Tenant!WorkerDies
  <2> QED
    BY <2>1, <2>5, <2>6, <2>7, <2>8, <2>9, <2>10, <2>11, <2>12, <2>13, TenantMoves
       DEF Tenant!Worker
<1> QED
  BY <1>1, <1>2, <1>3, <1>4, <1>5, <1>6, <1>7, <1>8, <1>9, <1>10 DEF TenantTypeInv

\* What a step was to leave stays there.
LEMMA TenantDoneStays ==
    ASSUME TenantTypeInv, TenantBuys, TenantFirst, Tenant!Next, NEW s, TenantDone(s)
    PROVE  TenantDone(s)'
<1>1. pv_loc.number # Tenant!Nil => pv_loc'.number # Tenant!Nil
  <2>1. pv_vendor.bought + 1 # Tenant!Nil
           /\ pv_loc \in [ status : {"provisioning", "active", "archived"}, error : BOOLEAN,
                   assistant : Nat, number : Nat ]
    BY DEF TenantTypeInv, Tenant!Nil
  <2> QED
    BY <2>1, TenantMoves DEF Tenant!SaveNumber, Tenant!SaveAgent,
      Tenant!FailLocation, Tenant!ActivateLocation, Tenant!RetryMark, Tenant!ArchiveLocation,
      Tenant!Sweep
<1>2. pv_loc.assistant # Tenant!Nil => pv_loc'.assistant # Tenant!Nil
  <2>1. /\ Tenant!SaveAgent => pv_vendor.cloned # Tenant!Nil
        /\ pv_loc \in [ status : {"provisioning", "active", "archived"}, error : BOOLEAN,
                   assistant : Nat, number : Nat ]
    BY DEF TenantTypeInv, Tenant!Nil, TenantBuys, Tenant!SaveAgent, Tenant!At
  <2> QED
    BY <2>1, TenantMoves DEF Tenant!SaveNumber, Tenant!SaveAgent,
      Tenant!FailLocation, Tenant!ActivateLocation, Tenant!RetryMark, Tenant!ArchiveLocation,
      Tenant!Sweep
<1>3. pv_vendor.routed # "none" => pv_vendor'.routed # "none"
  <2>1. pv_vendor \in [ bought : Nat, cloned : Nat, agents : SUBSET Nat,
                       routed : {"none", "agent", "fallback"}, numbers : SUBSET Nat ]
    BY DEF TenantTypeInv
  <2> QED
    BY <2>1, TenantMoves DEF Tenant!BuyNumber, Tenant!CloneAgent, Tenant!Assign,
       Tenant!ReleaseNumber, Tenant!ReleaseAgent
<1>4. pv_skipped \subseteq pv_skipped'
  BY TenantMoves DEF Tenant!SkipStep
<1>5. pv_demands' = 0 => pv_demands = 0
  BY TenantMoves DEF TenantTypeInv
<1>6. pv_invited > 0 => pv_invited' > 0
  BY TenantMoves DEF TenantTypeInv, Tenant!Invite, Tenant!MailFails
<1> QED
  BY <1>1, <1>2, <1>3, <1>4, <1>5, <1>6 DEF TenantDone

\* What neither buys nor clones only gives back.
TenantGives ==
    /\ pv_vendor'.cloned = pv_vendor.cloned /\ pv_vendor'.agents \subseteq pv_vendor.agents
    /\ pv_vendor'.bought = pv_vendor.bought
    /\ pv_vendor'.numbers \subseteq pv_vendor.numbers

LEMMA TenantGivesBack ==
    ASSUME TenantTypeInv,
           \/ Tenant!Assign \/ Tenant!ReleaseNumber \/ Tenant!ReleaseAgent
           \/ pv_vendor' = pv_vendor
    PROVE  TenantGives /\ (pv_reuse => pv_vendor'.numbers = pv_vendor.numbers)
<1>0. pv_vendor \in [ bought : Nat, cloned : Nat, agents : SUBSET Nat,
                      routed : {"none", "agent", "fallback"}, numbers : SUBSET Nat ]
  BY DEF TenantTypeInv
<1>1. CASE pv_vendor' = pv_vendor
  BY <1>1 DEF TenantGives
<1>2. CASE Tenant!Assign
  <2>1. PICK r : pv_vendor' = [pv_vendor EXCEPT !.routed = r]
    BY <1>2 DEF Tenant!Assign
  <2> QED
    BY <1>0, <2>1 DEF TenantGives
<1>3. CASE Tenant!ReleaseNumber /\ pv_vendor' # pv_vendor
  <2>1. pv_vendor' = [pv_vendor EXCEPT !.numbers = @ \ {pv_ask.number}] /\ ~pv_reuse
    BY <1>3 DEF Tenant!ReleaseNumber
  <2> QED
    BY <1>0, <2>1 DEF TenantGives
<1>4. CASE Tenant!ReleaseAgent /\ pv_vendor' # pv_vendor
  <2>1. pv_vendor' = [pv_vendor EXCEPT !.agents = @ \ {pv_ask.assistant}]
    BY <1>4 DEF Tenant!ReleaseAgent
  <2> QED
    BY <1>0, <2>1 DEF TenantGives
<1> QED
  BY <1>1, <1>2, <1>3, <1>4

\* Every step keeps that what is bought has a number of its own.
LEMMA TenantBuysOn ==
    ASSUME TenantTypeInv, TenantBuys, Tenant!Next
    PROVE  TenantBuys'
<1> DEFINE Vendor == [ bought : Nat, cloned : Nat, agents : SUBSET Nat,
                         routed : {"none", "agent", "fallback"}, numbers : SUBSET Nat ]
           Loc == [ status : {"provisioning", "active", "archived"}, error : BOOLEAN,
                    assistant : Nat, number : Nat ]
<1>0. pv_vendor \in Vendor /\ pv_loc \in Loc /\ pv_run \in {Tenant!NoRun} \cup TenantRun
  BY DEF TenantTypeInv
<1>1. /\ pv_vendor'.numbers \subseteq 1..(pv_vendor'.bought + 1)
      /\ pv_vendor'.agents \subseteq 1..pv_vendor'.cloned
  <2>1. /\ pv_vendor.numbers \subseteq 1..(pv_vendor.bought + 1)
        /\ pv_vendor.agents \subseteq 1..pv_vendor.cloned
    BY DEF TenantBuys
  <2>2. CASE Tenant!BuyNumber
    <3>1. /\ pv_vendor'.bought = pv_vendor.bought + 1
          /\ pv_vendor'.numbers = pv_vendor.numbers \cup {pv_vendor.bought + 2}
          /\ pv_vendor'.cloned = pv_vendor.cloned /\ pv_vendor'.agents = pv_vendor.agents
      BY <1>0, <2>2 DEF Tenant!BuyNumber
    <3> QED
      BY <1>0, <2>1, <3>1
  <2>3. CASE Tenant!CloneAgent
    <3>1. /\ pv_vendor'.cloned = pv_vendor.cloned + 1
          /\ pv_vendor'.agents = pv_vendor.agents \cup {pv_vendor.cloned + 1}
          /\ pv_vendor'.bought = pv_vendor.bought /\ pv_vendor'.numbers = pv_vendor.numbers
      BY <1>0, <2>3 DEF Tenant!CloneAgent
    <3> QED
      BY <1>0, <2>1, <3>1
  <2>4. CASE Tenant!Assign \/ Tenant!ReleaseNumber \/ Tenant!ReleaseAgent
           \/ pv_vendor' = pv_vendor
    <3>1. TenantGives
      BY <2>4, TenantGivesBack
    <3> QED
      BY <2>1, <3>1 DEF TenantGives
  <2> QED
    BY <2>2, <2>3, <2>4, TenantMoves
<1>2. /\ pv_run'.pc \in {"work", "ordered", "cloned", "done", "failing"} => pv_run'.at \in 1..8
      /\ pv_run'.pc = "ordered" => pv_run'.at = 2 /\ pv_loc'.number = Tenant!Nil
      /\ pv_run'.pc = "cloned" => pv_run'.at = 3 /\ pv_loc'.assistant = Tenant!Nil
      /\ pv_run'.pc = "cloned" => pv_vendor'.cloned > 0
  <2>1. /\ Tenant!SaveNumber \/ pv_loc'.number = pv_loc.number
        /\ Tenant!SaveAgent \/ pv_loc'.assistant = pv_loc.assistant
    BY <1>0, TenantMoves DEF Tenant!SaveNumber, Tenant!SaveAgent,
      Tenant!FailLocation, Tenant!ActivateLocation, Tenant!RetryMark, Tenant!ArchiveLocation,
      Tenant!Sweep
  <2>2. pv_vendor'.cloned >= pv_vendor.cloned
    <3>1. Tenant!CloneAgent => pv_vendor'.cloned = pv_vendor.cloned + 1
      BY <1>0 DEF Tenant!CloneAgent
    <3>2. pv_vendor'.cloned = pv_vendor.cloned \/ Tenant!CloneAgent
      BY <1>0, TenantMoves DEF Tenant!BuyNumber, Tenant!Assign, Tenant!ReleaseNumber,
         Tenant!ReleaseAgent
    <3>3. pv_vendor.cloned \in Nat
      BY <1>0
    <3> QED
      BY <3>1, <3>2, <3>3
  <2>3. Tenant!Busy => pv_run \in TenantRun
    BY <1>0 DEF Tenant!Busy
  <2>4. CASE pv_run' = pv_run
    <3>1. ~Tenant!SaveNumber /\ ~Tenant!SaveAgent
      BY <2>3, <2>4 DEF Tenant!SaveNumber, Tenant!SaveAgent, Tenant!At, Tenant!RunTo, TenantRun
    <3>2. pv_loc'.number = pv_loc.number /\ pv_loc'.assistant = pv_loc.assistant
      BY <2>1, <3>1
    <3>3. pv_vendor.cloned > 0 => pv_vendor'.cloned > 0
      BY <1>0, <2>2, TenantMoves, TenantTypes DEF TenantTypeInv
    <3> QED
      BY <2>4, <3>2, <3>3 DEF TenantBuys
  <2>5. CASE pv_run'.pc \in {"none", "next", "activate", "finish"}
    BY <2>5
  <2>6. CASE Tenant!NextStep
    BY <2>5, <2>6, <2>3, TenantPicks DEF TenantRun, Tenant!RunTo
  <2>7. CASE /\ Tenant!Busy /\ pv_run.pc \in {"work", "ordered", "cloned"}
             /\ \E m : Tenant!RunTo("done", m) \/ Tenant!RunTo("failing", m)
    BY <2>3, <2>7 DEF Tenant!RunTo, TenantBuys, TenantRun
  <2>8. CASE Tenant!BuyNumber
    BY <2>1, <2>3, <2>8, TenantLine
       DEF Tenant!BuyNumber, Tenant!RunTo, Tenant!In, Tenant!At, Tenant!Now, TenantBuys,
       TenantRun
  <2>9. CASE Tenant!CloneAgent
    BY <1>0, <2>1, <2>3, <2>9, TenantLine
       DEF Tenant!CloneAgent, Tenant!RunTo, Tenant!In, Tenant!At, Tenant!Now, TenantBuys,
       TenantRun
  <2>11. CASE Tenant!WorkerDies \/ Tenant!ActivateOrg \/ Tenant!FailLocation
             \/ (\E j \in SetupJobs : Tenant!Begin(j))
    BY <2>5, <2>11 DEF Tenant!WorkerDies, Tenant!ActivateOrg, Tenant!FailLocation,
       Tenant!Begin, Tenant!NoRun
  <2>12. CASE Tenant!Complete \/ Tenant!ActivateLocation
    BY <2>3, <2>5, <2>12
       DEF Tenant!Complete, Tenant!ActivateLocation, Tenant!At, Tenant!RunTo, TenantRun
  <2>13. CASE \/ Tenant!Search \/ Tenant!KeepNumber \/ Tenant!KeepAgent \/ Tenant!Assign
              \/ Tenant!Configure \/ Tenant!Invite \/ Tenant!SaveNumber \/ Tenant!SaveAgent
              \/ Tenant!MailFails \/ Tenant!StepFails \/ Tenant!AnswerLost
    BY <2>7, <2>13 DEF Tenant!Search, Tenant!KeepNumber, Tenant!KeepAgent, Tenant!Assign,
       Tenant!Configure, Tenant!Invite, Tenant!SaveNumber, Tenant!SaveAgent, Tenant!MailFails,
       Tenant!StepFails, Tenant!AnswerLost, Tenant!Missing, Tenant!Pending, Tenant!In, Tenant!At
  <2> QED
    BY <2>4, <2>6, <2>8, <2>9, <2>11, <2>12, <2>13, TenantMoves DEF Tenant!Worker
<1>3. pv_reuse' => pv_loc'.number = Tenant!BaseNumber
         /\ Tenant!BaseNumber \in pv_vendor'.numbers
  <2>1. pv_reuse' = pv_reuse
    BY TenantMoves
  <2>2. pv_reuse /\ Tenant!SaveNumber => FALSE
    BY DEF TenantBuys, Tenant!SaveNumber, Tenant!At, Tenant!Nil, Tenant!BaseNumber
  <2>3. pv_reuse => pv_loc'.number = pv_loc.number
    BY <1>0, <2>2, TenantMoves DEF Tenant!SaveAgent,
      Tenant!FailLocation, Tenant!ActivateLocation, Tenant!RetryMark, Tenant!ArchiveLocation,
      Tenant!Sweep
  <2>4. pv_reuse => pv_vendor.numbers \subseteq pv_vendor'.numbers
    <3>1. CASE Tenant!BuyNumber \/ Tenant!CloneAgent
      BY <1>0, <3>1 DEF Tenant!BuyNumber, Tenant!CloneAgent
    <3>2. CASE \/ Tenant!Assign \/ Tenant!ReleaseNumber \/ Tenant!ReleaseAgent
               \/ pv_vendor' = pv_vendor
      BY <3>2, TenantGivesBack
    <3> QED
      BY <3>1, <3>2, TenantMoves
  <2> QED
    BY <2>1, <2>3, <2>4 DEF TenantBuys
<1> QED
  BY <1>1, <1>2, <1>3 DEF TenantBuys

\* What becomes of the rows' number and assistant, of those at the vendor, of the request and
\* of a purchase under way.
LEMMA TenantTrades ==
    ASSUME TenantTypeInv, TenantBuys, Tenant!Next
    PROVE  /\ \/ Tenant!SaveNumber /\ pv_loc'.number = pv_vendor.bought + 1
              \/ ~Tenant!SaveNumber /\ pv_loc'.number = pv_loc.number
           /\ \/ Tenant!SaveAgent /\ pv_loc'.assistant = pv_vendor.cloned
              \/ ~Tenant!SaveAgent /\ pv_loc'.assistant = pv_loc.assistant
           /\ \/ /\ Tenant!BuyNumber
                 /\ pv_vendor'.numbers = pv_vendor.numbers \cup {pv_vendor.bought + 2}
              \/ pv_vendor'.numbers \subseteq pv_vendor.numbers
           /\ \/ /\ Tenant!CloneAgent
                 /\ pv_vendor'.agents = pv_vendor.agents \cup {pv_vendor.cloned + 1}
              \/ pv_vendor'.agents \subseteq pv_vendor.agents
           /\ Tenant!BuyNumber \/ pv_vendor'.bought = pv_vendor.bought
           /\ Tenant!CloneAgent \/ pv_vendor'.cloned = pv_vendor.cloned
<1> DEFINE Vendor == [ bought : Nat, cloned : Nat, agents : SUBSET Nat,
                         routed : {"none", "agent", "fallback"}, numbers : SUBSET Nat ]
           Loc == [ status : {"provisioning", "active", "archived"}, error : BOOLEAN,
                    assistant : Nat, number : Nat ]
<1>0. pv_vendor \in Vendor /\ pv_loc \in Loc /\ pv_run \in {Tenant!NoRun} \cup TenantRun
  BY DEF TenantTypeInv
<1>1. ~(Tenant!SaveNumber /\ Tenant!SaveAgent)
  BY DEF Tenant!SaveNumber, Tenant!SaveAgent, Tenant!At
<1>2. /\ Tenant!SaveNumber => pv_loc'.number = pv_vendor.bought + 1
      /\ Tenant!SaveAgent => pv_loc'.assistant = pv_vendor.cloned
  BY <1>0 DEF Tenant!SaveNumber, Tenant!SaveAgent
<1>3. /\ Tenant!SaveNumber \/ pv_loc'.number = pv_loc.number
      /\ Tenant!SaveAgent \/ pv_loc'.assistant = pv_loc.assistant
  BY <1>0, TenantMoves DEF Tenant!SaveNumber, Tenant!SaveAgent,
     Tenant!FailLocation, Tenant!ActivateLocation, Tenant!RetryMark, Tenant!ArchiveLocation,
     Tenant!Sweep
<1>4. CASE Tenant!BuyNumber
  <2>1. /\ pv_vendor'.numbers = pv_vendor.numbers \cup {pv_vendor.bought + 2}
        /\ pv_vendor'.cloned = pv_vendor.cloned /\ pv_vendor'.agents = pv_vendor.agents
    BY <1>0, <1>4 DEF Tenant!BuyNumber
  <2> QED
    BY <1>1, <1>2, <1>3, <1>4, <2>1
<1>5. CASE Tenant!CloneAgent
  <2>1. /\ pv_vendor'.agents = pv_vendor.agents \cup {pv_vendor.cloned + 1}
        /\ pv_vendor'.bought = pv_vendor.bought /\ pv_vendor'.numbers = pv_vendor.numbers
    BY <1>0, <1>5 DEF Tenant!CloneAgent
  <2> QED
    BY <1>1, <1>2, <1>3, <1>5, <2>1
<1>6. CASE \/ Tenant!Assign \/ Tenant!ReleaseNumber \/ Tenant!ReleaseAgent
           \/ pv_vendor' = pv_vendor
  <2>1. TenantGives
    BY <1>6, TenantGivesBack
  <2> QED
    BY <1>1, <1>2, <1>3, <2>1 DEF TenantGives
<1> QED
  BY <1>4, <1>5, <1>6, TenantMoves

\* A purchase that is cut short is noted.
LEMMA TenantPendingGoes ==
    ASSUME TenantTypeInv, Tenant!Next
    PROVE  \/ Tenant!Pending \subseteq Tenant!Pending' \cup pv_loose'
           \/ Tenant!SaveNumber \/ Tenant!SaveAgent
<1>1. Tenant!Busy => pv_run \in TenantRun
  BY DEF TenantTypeInv, Tenant!Busy
<1>2. CASE Tenant!Pending = {}
  BY <1>2
<1>3. CASE Tenant!Pending # {} /\ pv_run' = pv_run
  <2>1. Tenant!Busy /\ pv_run.pc \in {"ordered", "cloned"}
    BY <1>3 DEF Tenant!Pending, Tenant!At
  <2>2. ~Tenant!BuyNumber /\ ~Tenant!CloneAgent
    BY <2>1 DEF Tenant!BuyNumber, Tenant!CloneAgent, Tenant!In, Tenant!At
  <2>3. pv_vendor'.bought = pv_vendor.bought /\ pv_vendor'.cloned = pv_vendor.cloned
    BY <2>2, TenantMoves DEF TenantTypeInv, Tenant!Assign, Tenant!ReleaseNumber,
       Tenant!ReleaseAgent
  <2>4. Tenant!Pending' = Tenant!Pending
    BY <1>3, <2>3 DEF Tenant!Pending, Tenant!At, Tenant!Busy
  <2> QED
    BY <2>4
<1>4. CASE Tenant!Pending # {} /\ (Tenant!AnswerLost \/ Tenant!WorkerDies)
  BY <1>4 DEF Tenant!AnswerLost, Tenant!WorkerDies
<1>5. ASSUME Tenant!Pending # {}, Tenant!Worker
      PROVE  Tenant!SaveNumber \/ Tenant!SaveAgent \/ Tenant!AnswerLost
  <2>1. Tenant!Busy /\ pv_run.pc \in {"ordered", "cloned"}
    BY <1>5 DEF Tenant!Pending, Tenant!At
  <2> QED
    BY <1>5, <2>1 DEF Tenant!Worker, Tenant!Begin, Tenant!NextStep, Tenant!Search,
       Tenant!KeepNumber, Tenant!BuyNumber, Tenant!KeepAgent, Tenant!CloneAgent, Tenant!Assign,
       Tenant!Configure, Tenant!Invite, Tenant!Complete, Tenant!StepFails, Tenant!Missing,
       Tenant!MailFails, Tenant!FailLocation, Tenant!ActivateLocation, Tenant!ActivateOrg,
       Tenant!In, Tenant!At
<1> QED
  BY <1>2, <1>3, <1>4, <1>5, TenantMoves

\* Every step keeps that nothing is bought twice.
LEMMA TenantBoughtOnce ==
    ASSUME TenantTypeInv, TenantBuys, Tenant!NothingBoughtTwice, Tenant!Next
    PROVE  Tenant!NothingBoughtTwice'
<1>0. /\ pv_loose \subseteq pv_loose'
      /\ pv_vendor.bought \in Nat /\ pv_vendor.cloned \in Nat
      /\ \A n \in pv_vendor.numbers : n # Tenant!Nil
      /\ \A a \in pv_vendor.agents : a # Tenant!Nil
  BY TenantMoves DEF TenantTypeInv, TenantBuys, Tenant!Nil
<1>1. ASSUME NEW n \in pv_vendor'.numbers
      PROVE  \/ n \in {Tenant!BaseNumber, pv_loc'.number}
             \/ <<"number", n>> \in pv_loose' \cup Tenant!Pending'
  <2>1. CASE n \notin pv_vendor.numbers
    <3>1. Tenant!BuyNumber /\ n = pv_vendor.bought + 2
      BY <2>1, TenantTrades
    <3>2. pv_vendor'.bought + 1 = n
      BY <1>0, <3>1 DEF Tenant!BuyNumber, TenantTypeInv
    <3>3. pv_run' # Tenant!NoRun /\ pv_run'.pc = "ordered"
      BY <3>1 DEF Tenant!BuyNumber, Tenant!RunTo, TenantTypeInv, TenantRun, Tenant!In,
         Tenant!At,
         Tenant!Busy, Tenant!NoRun
    <3> QED
      BY <3>2, <3>3 DEF Tenant!Pending, Tenant!At, Tenant!Busy
  <2>2. CASE n \in pv_vendor.numbers /\ n = pv_loc.number
    <3>1. pv_loc.number # Tenant!Nil
      BY <1>0, <2>2
    <3>2. ~Tenant!SaveNumber
      BY <3>1 DEF Tenant!SaveNumber, TenantBuys, Tenant!At
    <3> QED
      BY <2>2, <3>2, TenantTrades
  <2>3. CASE n \in pv_vendor.numbers /\ <<"number", n>> \in Tenant!Pending
    <3>1. /\ Tenant!SaveNumber => pv_loc'.number = pv_vendor.bought + 1
          /\ n = pv_vendor.bought + 1
      BY <2>3, TenantTrades DEF Tenant!Pending
    <3>2. ~Tenant!SaveAgent
      BY <2>3 DEF Tenant!SaveAgent, Tenant!Pending, Tenant!At
    <3> QED
      BY <2>3, <3>1, <3>2, TenantPendingGoes
  <2> QED
    BY <1>0, <2>1, <2>2, <2>3 DEF Tenant!NothingBoughtTwice
<1>2. ASSUME NEW a \in pv_vendor'.agents
      PROVE  a = pv_loc'.assistant \/ <<"agent", a>> \in pv_loose' \cup Tenant!Pending'
  <2>1. CASE a \notin pv_vendor.agents
    <3>1. Tenant!CloneAgent /\ a = pv_vendor.cloned + 1
      BY <2>1, TenantTrades
    <3>2. pv_vendor'.cloned = a
      BY <1>0, <3>1 DEF Tenant!CloneAgent, TenantTypeInv
    <3>3. pv_run' # Tenant!NoRun /\ pv_run'.pc = "cloned"
      BY <3>1 DEF Tenant!CloneAgent, Tenant!RunTo, TenantTypeInv, TenantRun, Tenant!In,
         Tenant!At, Tenant!Busy, Tenant!NoRun
    <3> QED
      BY <3>2, <3>3 DEF Tenant!Pending, Tenant!At, Tenant!Busy
  <2>2. CASE a \in pv_vendor.agents /\ a = pv_loc.assistant
    <3>1. pv_loc.assistant # Tenant!Nil
      BY <1>0, <2>2
    <3>2. ~Tenant!SaveAgent
      BY <3>1 DEF Tenant!SaveAgent, TenantBuys, Tenant!At
    <3> QED
      BY <2>2, <3>2, TenantTrades
  <2>3. CASE a \in pv_vendor.agents /\ <<"agent", a>> \in Tenant!Pending
    <3>1. /\ Tenant!SaveAgent => pv_loc'.assistant = pv_vendor.cloned
          /\ a = pv_vendor.cloned
      BY <2>3, TenantTrades DEF Tenant!Pending
    <3>2. ~Tenant!SaveNumber
      BY <2>3 DEF Tenant!SaveNumber, Tenant!Pending, Tenant!At
    <3> QED
      BY <2>3, <3>1, <3>2, TenantPendingGoes
  <2> QED
    BY <1>0, <2>1, <2>2, <2>3 DEF Tenant!NothingBoughtTwice
<1> QED
  BY <1>1, <1>2 DEF Tenant!NothingBoughtTwice

\* The request of a deprovision goes forward.
LEMMA TenantAskMoves ==
    ASSUME TenantTypeInv, Tenant!Next
    PROVE  \/ pv_ask' = pv_ask
           \/ pv_ask'.pc \notin {"number", "agent", "org", "location"}
           \/ Tenant!Deprovision
           \/ Tenant!ReleaseNumber /\ pv_ask'.pc = "agent"
              /\ pv_ask'.number = pv_ask.number /\ pv_ask'.assistant = pv_ask.assistant
           \/ Tenant!ReleaseAgent /\ pv_ask'.pc = "org"
           \/ Tenant!ArchiveOrg /\ pv_ask'.pc = "location"
<1>1. pv_ask # Tenant!NoAsk => pv_ask \in TenantAsk
  BY DEF TenantTypeInv
<1>2. Tenant!ReleaseNumber => pv_ask'.pc = "agent"
              /\ pv_ask'.number = pv_ask.number /\ pv_ask'.assistant = pv_ask.assistant
  BY <1>1 DEF Tenant!ReleaseNumber, Tenant!Asked, Tenant!AskTo, TenantAsk
<1>3. /\ Tenant!ReleaseAgent => pv_ask'.pc = "org"
      /\ Tenant!ArchiveOrg => pv_ask'.pc = "location"
  BY <1>1 DEF Tenant!ReleaseAgent, Tenant!ArchiveOrg, Tenant!Asked, Tenant!AskTo, TenantAsk
<1>4. Tenant!RetryMark \/ Tenant!RetryReadOrg \/ Tenant!RetryOrg \/ Tenant!RetryReset
        => pv_ask'.pc \notin {"number", "agent", "org", "location"}
  BY <1>1 DEF Tenant!RetryMark, Tenant!RetryReadOrg, Tenant!RetryOrg, Tenant!RetryReset,
     Tenant!Asked, Tenant!AskTo, TenantAsk
<1> QED
  BY <1>2, <1>3, <1>4, TenantMoves DEF Tenant!Operator, Tenant!Retry, Tenant!RetryStep,
     Tenant!SkipStep, Tenant!RetryCheck, Tenant!RetryAdd, Tenant!ArchiveLocation,
     Tenant!SetStatus, Tenant!NoAsk

\* Every step keeps that the archive releases what it read.
LEMMA TenantArchivesOn ==
    ASSUME TenantTypeInv, TenantBuys, TenantArchives, Tenant!Next
    PROVE  TenantArchives'
<1> DEFINE number == pv_loc.number
           agent == pv_loc.assistant
<1>0. /\ pv_loose \subseteq pv_loose'
      /\ Tenant!Nil \notin pv_vendor.numbers /\ Tenant!Nil \notin pv_vendor.agents
      /\ pv_vendor.bought \in Nat /\ pv_vendor.cloned \in Nat
  BY TenantMoves DEF TenantTypeInv, TenantBuys, Tenant!Nil
<1>1. /\ Tenant!SaveNumber \/ pv_loc'.number = pv_loc.number
      /\ Tenant!SaveAgent \/ pv_loc'.assistant = pv_loc.assistant
      /\ ~(Tenant!SaveNumber /\ Tenant!SaveAgent)
  BY TenantTrades DEF Tenant!SaveNumber, Tenant!SaveAgent, Tenant!At
<1>2. /\ Tenant!SaveNumber /\ Tenant!Archiving => <<"number", pv_loc'.number>> \in pv_loose'
      /\ Tenant!SaveAgent /\ Tenant!Archiving => <<"agent", pv_loc'.assistant>> \in pv_loose'
  BY TenantTrades DEF Tenant!SaveNumber, Tenant!SaveAgent, Tenant!Note
<1>3. Tenant!SaveNumber \/ Tenant!SaveAgent => pv_ask' = pv_ask /\ pv_org' = pv_org
  BY DEF Tenant!SaveNumber, Tenant!SaveAgent
<1>4. pv_ask'.pc = "number" => pv_ask' = pv_ask \/ Tenant!Deprovision
  BY TenantAskMoves
<1>5. Tenant!Deprovision =>
         /\ pv_ask' = [pc |-> "number", number |-> number, assistant |-> agent]
                            /\ pv_loc' = pv_loc
  BY DEF Tenant!Deprovision
<1>6. pv_ask'.pc = "number" =>
         pv_ask'.number = pv_loc'.number \/ <<"number", pv_loc'.number>> \in pv_loose'
  BY <1>0, <1>1, <1>2, <1>4, <1>5 DEF TenantArchives, Tenant!Archiving
<1>7. pv_ask'.pc \in {"number", "agent"} =>
         pv_ask'.assistant = pv_loc'.assistant \/ <<"agent", pv_loc'.assistant>> \in pv_loose'
  <2>1. CASE pv_ask' = pv_ask
    BY <2>1, <1>0, <1>1, <1>2 DEF TenantArchives, Tenant!Archiving
  <2>2. CASE Tenant!Deprovision
    BY <2>2, <1>5
  <2>3. CASE Tenant!ReleaseNumber /\ pv_ask'.assistant = pv_ask.assistant
    BY <2>3, <1>0 DEF Tenant!ReleaseNumber, Tenant!Asked, TenantArchives
  <2> QED
    BY <2>1, <2>2, <2>3, TenantAskMoves
<1>8. pv_org'.deleted => pv_org.deleted \/ (Tenant!ArchiveOrg /\ pv_ask.pc = "org")
  BY TenantMoves DEF TenantTypeInv, Tenant!ActivateOrg, Tenant!RetryOrg, Tenant!ArchiveOrg,
     Tenant!SetStatus, Tenant!Asked
<1>9. \/ number \notin pv_vendor.numbers => number \notin pv_vendor'.numbers
      \/ Tenant!BuyNumber
  BY TenantTrades
<1>10. Tenant!BuyNumber => pv_loc' = pv_loc /\ number \notin pv_vendor'.numbers
  <2>1. ASSUME Tenant!BuyNumber PROVE pv_loc' = pv_loc /\ number = Tenant!Nil
    BY <2>1 DEF Tenant!BuyNumber
  <2>2. Tenant!BuyNumber
           => pv_vendor'.numbers \subseteq pv_vendor.numbers \cup {pv_vendor.bought + 2}
    BY TenantTrades
  <2> QED
    BY <2>1, <2>2, <1>0 DEF Tenant!Nil
<1>11. Tenant!CloneAgent => pv_loc' = pv_loc /\ agent \notin pv_vendor'.agents
  <2>1. ASSUME Tenant!CloneAgent PROVE pv_loc' = pv_loc /\ agent = Tenant!Nil
    BY <2>1 DEF Tenant!CloneAgent
  <2>2. Tenant!CloneAgent
           => pv_vendor'.agents \subseteq pv_vendor.agents \cup {pv_vendor.cloned + 1}
    BY TenantTrades
  <2> QED
    BY <2>1, <2>2, <1>0 DEF Tenant!Nil
<1>12. \/ agent \notin pv_vendor.agents => agent \notin pv_vendor'.agents
       \/ Tenant!CloneAgent
  BY TenantTrades
<1>13. pv_org'.deleted \/ pv_ask'.pc \in {"agent", "org", "location"} =>
         \/ pv_loc'.number \notin pv_vendor'.numbers \/ pv_loc'.number = Tenant!BaseNumber
         \/ <<"number", pv_loc'.number>> \in pv_loose'
  <2>1. ASSUME pv_org.deleted \/ pv_ask.pc \in {"agent", "org", "location"}
        PROVE  \/ pv_loc'.number \notin pv_vendor'.numbers \/ pv_loc'.number = Tenant!BaseNumber
               \/ <<"number", pv_loc'.number>> \in pv_loose'
    <3>1. CASE Tenant!SaveNumber
      BY <1>2, <2>1, <3>1 DEF Tenant!Archiving
    <3>2. CASE ~Tenant!SaveNumber
      BY <1>0, <1>1, <1>9, <1>10, <2>1, <3>2 DEF TenantArchives
    <3> QED
      BY <3>1, <3>2
  <2>2. ASSUME Tenant!ReleaseNumber, ~pv_org.deleted
        PROVE  \/ pv_loc'.number \notin pv_vendor'.numbers \/ pv_loc'.number = Tenant!BaseNumber
               \/ <<"number", pv_loc'.number>> \in pv_loose'
    <3>1. pv_loc' = pv_loc /\ pv_ask.pc = "number"
      BY <2>2 DEF Tenant!ReleaseNumber, Tenant!Asked
    <3>2. pv_ask.number = number \/ <<"number", number>> \in pv_loose
      BY <3>1 DEF TenantArchives
    <3>3. CASE pv_reuse
      BY <3>1, <3>3 DEF TenantBuys
    <3>4. CASE pv_ask.number = Tenant!Nil /\ ~pv_reuse
      BY <1>0, <2>2, <3>1, <3>2, <3>4 DEF Tenant!ReleaseNumber
    <3>5. CASE pv_ask.number # Tenant!Nil /\ ~pv_reuse
      <4>1. pv_vendor \in [ bought : Nat, cloned : Nat, agents : SUBSET Nat,
                       routed : {"none", "agent", "fallback"}, numbers : SUBSET Nat ]
        BY DEF TenantTypeInv
      <4>2. pv_vendor'.numbers = pv_vendor.numbers \ {pv_ask.number}
              \/ <<"number", pv_ask.number>> \in pv_loose'
        BY <2>2, <3>5, <4>1 DEF Tenant!ReleaseNumber, Tenant!Note
      <4> QED
        BY <1>0, <3>1, <3>2, <4>2
    <3> QED
      BY <3>3, <3>4, <3>5
  <2>3. pv_org'.deleted \/ pv_ask'.pc \in {"agent", "org", "location"} =>
          pv_org.deleted \/ pv_ask.pc \in {"agent", "org", "location"} \/ Tenant!ReleaseNumber
    <3>1. /\ Tenant!ReleaseAgent => pv_ask.pc = "agent"
          /\ Tenant!ArchiveOrg => pv_ask.pc = "org"
      BY DEF Tenant!ReleaseAgent, Tenant!ArchiveOrg, Tenant!Asked
    <3>2. Tenant!Deprovision => pv_ask'.pc = "number"
      BY <1>5
    <3> QED
      BY <3>1, <3>2, <1>8, TenantAskMoves
  <2> QED
    BY <2>1, <2>2, <2>3
<1>14. pv_org'.deleted \/ pv_ask'.pc \in {"org", "location"} =>
         \/ pv_loc'.assistant \notin pv_vendor'.agents
         \/ <<"agent", pv_loc'.assistant>> \in pv_loose'
  <2>1. ASSUME pv_org.deleted \/ pv_ask.pc \in {"org", "location"}
        PROVE  \/ pv_loc'.assistant \notin pv_vendor'.agents
               \/ <<"agent", pv_loc'.assistant>> \in pv_loose'
    <3>1. CASE Tenant!SaveAgent
      BY <1>2, <2>1, <3>1 DEF Tenant!Archiving
    <3>2. CASE ~Tenant!SaveAgent
      BY <1>0, <1>1, <1>11, <1>12, <2>1, <3>2 DEF TenantArchives
    <3> QED
      BY <3>1, <3>2
  <2>2. ASSUME Tenant!ReleaseAgent, ~pv_org.deleted
        PROVE  \/ pv_loc'.assistant \notin pv_vendor'.agents
               \/ <<"agent", pv_loc'.assistant>> \in pv_loose'
    <3>1. pv_loc' = pv_loc /\ pv_ask.pc = "agent"
      BY <2>2 DEF Tenant!ReleaseAgent, Tenant!Asked
    <3>2. pv_ask.assistant = agent \/ <<"agent", agent>> \in pv_loose
      BY <3>1 DEF TenantArchives
    <3>3. CASE pv_ask.assistant = Tenant!Nil
      BY <1>0, <2>2, <3>1, <3>2, <3>3 DEF Tenant!ReleaseAgent
    <3>4. CASE pv_ask.assistant # Tenant!Nil
      <4>1. pv_vendor \in [ bought : Nat, cloned : Nat, agents : SUBSET Nat,
                       routed : {"none", "agent", "fallback"}, numbers : SUBSET Nat ]
        BY DEF TenantTypeInv
      <4>2. pv_vendor'.agents = pv_vendor.agents \ {pv_ask.assistant}
              \/ <<"agent", pv_ask.assistant>> \in pv_loose'
        BY <2>2, <3>4, <4>1 DEF Tenant!ReleaseAgent, Tenant!Note
      <4> QED
        BY <1>0, <3>1, <3>2, <4>2
    <3> QED
      BY <3>3, <3>4
  <2>3. pv_org'.deleted \/ pv_ask'.pc \in {"org", "location"} =>
          pv_org.deleted \/ pv_ask.pc \in {"org", "location"} \/ Tenant!ReleaseAgent
    <3>1. /\ Tenant!ArchiveOrg => pv_ask.pc = "org"
          /\ Tenant!Deprovision => pv_ask'.pc = "number"
      BY <1>5 DEF Tenant!ArchiveOrg, Tenant!Asked
    <3> QED
      BY <3>1, <1>8, TenantAskMoves
  <2> QED
    BY <2>1, <2>2, <2>3
<1> QED
  BY <1>6, <1>7, <1>13, <1>14 DEF TenantArchives

\* The attempt under way goes on with the job and the steps it has read.
LEMMA TenantRunMoves ==
    ASSUME TenantTypeInv, Tenant!Next
    PROVE  \/ pv_run' = pv_run
           \/ /\ pv_run' = Tenant!NoRun
              /\ Tenant!FailLocation \/ Tenant!ActivateOrg \/ Tenant!WorkerDies
           \/ \E j \in SetupJobs : Tenant!Begin(j)
           \/ /\ pv_run \in TenantRun /\ pv_run'.job = pv_run.job
              /\ \/ /\ Tenant!NextStep /\ pv_run.pc = "next" /\ pv_run'.seen = pv_run.seen
                    /\ \/ pv_run'.pc = "activate" /\ pv_run'.at = pv_run.at
                       \/ pv_run'.pc = "work" /\ pv_run'.at > pv_run.at
                 \/ Tenant!Complete /\ pv_run'.pc = "next" /\ pv_run'.at = pv_run.at
                 \/ Tenant!ActivateLocation /\ pv_run'.pc = "finish" /\ pv_run'.at = pv_run.at
                      /\ pv_run'.seen = pv_run.seen
                 \/ /\ pv_run.pc \in {"work", "ordered", "cloned"}
                    /\ pv_run'.seen = pv_run.seen /\ pv_run'.at = pv_run.at
                    /\ \/ pv_run'.pc \in {"ordered", "cloned", "failing"}
                       \/ /\ pv_run'.pc = "done"
                          /\ \/ Tenant!Search \/ Tenant!KeepNumber \/ Tenant!KeepAgent
                             \/ Tenant!Assign \/ Tenant!Configure \/ Tenant!Invite
                             \/ Tenant!SaveNumber \/ Tenant!SaveAgent
<1>1. Tenant!Busy => pv_run \in TenantRun
  BY DEF TenantTypeInv, Tenant!Busy
<1>2. ASSUME pv_run \in TenantRun, NEW pc, NEW m, Tenant!RunTo(pc, m)
      PROVE  /\ pv_run'.job = pv_run.job /\ pv_run'.seen = pv_run.seen
             /\ pv_run'.at = pv_run.at /\ pv_run'.pc = pc
  BY <1>2 DEF Tenant!RunTo, TenantRun
<1>3. CASE \/ Tenant!Search \/ Tenant!KeepNumber \/ Tenant!KeepAgent
           \/ Tenant!Assign \/ Tenant!Configure \/ Tenant!Invite
           \/ Tenant!SaveNumber \/ Tenant!SaveAgent
  <2>1. /\ Tenant!Busy /\ pv_run.pc \in {"work", "ordered", "cloned"}
        /\ \E m : Tenant!RunTo("done", m)
    BY <1>3 DEF Tenant!Search, Tenant!KeepNumber, Tenant!KeepAgent, Tenant!Assign,
       Tenant!Configure, Tenant!Invite, Tenant!SaveNumber, Tenant!SaveAgent, Tenant!In,
       Tenant!At
  <2> QED
    BY <1>1, <1>2, <1>3, <2>1
<1>4. CASE \/ Tenant!BuyNumber \/ Tenant!CloneAgent \/ Tenant!MailFails \/ Tenant!StepFails
           \/ Tenant!AnswerLost
  <2>1. /\ Tenant!Busy /\ pv_run.pc \in {"work", "ordered", "cloned"}
        /\ \E pc \in {"ordered", "cloned", "failing"},
                m \in {{}, pv_run.meta, pv_run.meta \cup {"assistant", "app"}} :
                Tenant!RunTo(pc, m)
    BY <1>4 DEF Tenant!BuyNumber, Tenant!CloneAgent, Tenant!MailFails, Tenant!StepFails,
       Tenant!AnswerLost, Tenant!Missing, Tenant!Pending, Tenant!In, Tenant!At
  <2> QED
    BY <1>1, <1>2, <2>1
<1>5. CASE Tenant!NextStep
  <2>1. pv_run \in TenantRun /\ pv_run.pc = "next"
    BY <1>5, TenantPicks
  <2>2. /\ pv_run'.job = pv_run.job /\ pv_run'.seen = pv_run.seen
        /\ \/ pv_run'.pc = "activate" /\ pv_run'.at = pv_run.at
           \/ pv_run'.pc = "work" /\ pv_run'.at > pv_run.at
    BY <1>5, <2>1, TenantPicks DEF TenantRun, Tenant!RunTo
  <2> QED
    BY <1>5, <2>1, <2>2
<1>6. CASE Tenant!Complete
  <2>1. pv_run \in TenantRun
    BY <1>1, <1>6 DEF Tenant!Complete, Tenant!At
  <2>2. pv_run'.job = pv_run.job /\ pv_run'.pc = "next" /\ pv_run'.at = pv_run.at
    BY <1>6, <2>1 DEF Tenant!Complete, TenantRun
  <2> QED
    BY <1>6, <2>1, <2>2
<1>7. CASE Tenant!ActivateLocation
  BY <1>1, <1>2, <1>7 DEF Tenant!ActivateLocation, Tenant!At
<1>8. CASE Tenant!FailLocation \/ Tenant!ActivateOrg \/ Tenant!WorkerDies
  BY <1>8 DEF Tenant!FailLocation, Tenant!ActivateOrg, Tenant!WorkerDies
<1> QED
  BY <1>3, <1>4, <1>5, <1>6, <1>7, <1>8, TenantMoves DEF Tenant!Worker

\* Every step keeps that without the operator there is the first job alone.
LEMMA TenantFirstOn ==
    ASSUME FirstJob \in SetupJobs, TenantTypeInv, TenantFirst, Tenant!Next
    PROVE  TenantFirst'
<1>0. /\ pv_run # Tenant!NoRun => pv_run.pc # "none" /\ pv_run.job \in SetupJobs
      /\ pv_job \in [SetupJobs -> [state : Tenant!JobStates, failed : Nat, died : Nat,
              email : BOOLEAN]]
      /\ pv_demands \in Nat
  BY DEF TenantTypeInv, TenantRun
<1>1. ASSUME NEW j \in SetupJobs
      PROVE  /\ pv_job'[j].email = pv_job[j].email
             /\ \/ pv_job'[j].state = pv_job[j].state
                \/ Tenant!Begin(j) \/ Tenant!RetryAdd(j)
                \/ pv_run # Tenant!NoRun /\ pv_run.job = j
  BY <1>0, TenantMoves DEF Tenant!Begin, Tenant!FailLocation, Tenant!ActivateOrg,
     Tenant!WorkerDies, Tenant!RetryAdd, Tenant!At, Tenant!Busy
<1>2. pv_demands' = 0 => pv_demands = 0
  BY <1>0, TenantMoves
<1>3. pv_demands' = 0 => pv_ask = Tenant!NoAsk /\ pv_ask' = Tenant!NoAsk
  <2>1. pv_demands' = 0 => pv_ask = Tenant!NoAsk
    BY <1>2 DEF TenantFirst
  <2>2. pv_demands' # pv_demands + 1 \/ pv_demands' # 0
    BY <1>0
  <2>3. pv_ask = Tenant!NoAsk /\ Tenant!Operator => pv_demands' = pv_demands + 1
    BY DEF Tenant!Operator, Tenant!Retry, Tenant!RetryStep, Tenant!SkipStep,
             Tenant!RetryCheck, Tenant!RetryMark, Tenant!RetryReadOrg, Tenant!RetryOrg,
             Tenant!RetryReset, Tenant!RetryAdd, Tenant!Deprovision, Tenant!ReleaseNumber,
                Tenant!ReleaseAgent,
             Tenant!ArchiveOrg, Tenant!ArchiveLocation, Tenant!SetStatus, Tenant!Asked,
                Tenant!Demand
  <2> QED
    BY <2>1, <2>2, <2>3, TenantMoves
<1>4. pv_demands' = 0 => \A j \in SetupJobs : j # FirstJob => pv_job'[j].state = "none"
  <2>1. ASSUME pv_demands' = 0, NEW j \in SetupJobs, j # FirstJob
        PROVE pv_job'[j].state = "none"
    <3>1. pv_job[j].state = "none" /\ (pv_run.pc # "none" => pv_run.job = FirstJob)
      BY <1>2, <2>1 DEF TenantFirst
    <3>2. ~Tenant!Begin(j) /\ ~Tenant!RetryAdd(j)
      BY <1>3, <2>1, <3>1 DEF Tenant!Begin, Tenant!RetryAdd, Tenant!Asked
    <3> QED
      BY <1>0, <1>1, <2>1, <3>1, <3>2
  <2> QED
    BY <2>1
<1>5. \/ pv_run' = Tenant!NoRun
      \/ pv_run # Tenant!NoRun /\ pv_run'.job = pv_run.job
      \/ \E j \in SetupJobs : Tenant!Begin(j) /\ pv_run'.job = j
  <2>1. pv_run \in TenantRun => pv_run # Tenant!NoRun
    BY DEF TenantRun, Tenant!NoRun
  <2>2. \A j \in SetupJobs : Tenant!Begin(j) => pv_run'.job = j
    BY DEF Tenant!Begin
  <2> QED
    BY <2>1, <2>2, TenantRunMoves
<1>6. pv_demands' = 0 => (pv_run'.pc # "none" => pv_run'.job = FirstJob)
  <2>1. ASSUME pv_demands' = 0, NEW j \in SetupJobs, Tenant!Begin(j) PROVE j = FirstJob
    BY <1>2, <2>1 DEF TenantFirst, Tenant!Begin
  <2>2. pv_demands' = 0 /\ pv_run # Tenant!NoRun => pv_run.job = FirstJob
    BY <1>0, <1>2 DEF TenantFirst
  <2> QED
    BY <1>5, <2>1, <2>2 DEF Tenant!NoRun
<1>7. pv_job'[FirstJob].email
  BY <1>1 DEF TenantFirst
<1> QED
  BY <1>3, <1>4, <1>6, <1>7 DEF TenantFirst

\* A step comes to be over by the attempt that did it, or by the operator who skips it.
LEMMA TenantStepOver ==
    ASSUME TenantTypeInv, Tenant!Next, NEW s \in Tenant!StepNames, TenantOver(pv_step'[s])
    PROVE  \/ TenantOver(pv_step[s])
           \/ Tenant!Complete /\ s = Tenant!Now
           \/ Tenant!SkipStep(s)
<1>0. pv_step \in [Tenant!StepNames -> TenantStep]
  BY DEF TenantTypeInv
<1>1. ASSUME NEW n \in Tenant!StepNames, NEW t \in {"pending", "in_progress", "failed"},
             pv_step' = [pv_step EXCEPT ![n].status = t]
      PROVE  TenantOver(pv_step[s])
  BY <1>0, <1>1 DEF TenantOver, TenantStep
<1>2. CASE Tenant!NextStep
  <2>1. \/ pv_step' = pv_step
        \/ \E i \in 1..8 : pv_step' = [pv_step EXCEPT ![Tenant!Line[i]].status = "in_progress"]
    BY <1>2, TenantPicks
  <2> QED
    BY <1>1, <2>1, TenantLine
<1>3. CASE Tenant!Complete
  BY <1>0, <1>3 DEF Tenant!Complete
<1>4. ASSUME NEW n, NEW t \in {"pending", "in_progress", "failed"},
             pv_step' = [pv_step EXCEPT ![n].status = t]
      PROVE  TenantOver(pv_step[s])
  <2>1. CASE n = s
    BY <1>0, <1>4, <2>1 DEF TenantOver, TenantStep
  <2>2. CASE n # s
    BY <1>0, <1>4, <2>2 DEF TenantOver
  <2> QED
    BY <2>1, <2>2
<1>5. CASE Tenant!StepFails \/ Tenant!MailFails \/ Tenant!AnswerLost
  BY <1>4, <1>5 DEF Tenant!StepFails, Tenant!MailFails, Tenant!AnswerLost
<1>6. CASE Tenant!RetryReset
  <2>1. \/ pv_step'[s] = pv_step[s]
        \/ pv_step'[s] = [pv_step[s] EXCEPT !.status = "pending"]
    BY <1>6 DEF Tenant!RetryReset
  <2> QED
    BY <1>0, <2>1 DEF TenantOver, TenantStep
<1>7. ASSUME NEW n \in Tenant!StepNames, Tenant!RetryStep(n) \/ Tenant!Sweep(n)
      PROVE  TenantOver(pv_step[s])
  BY <1>4, <1>7 DEF Tenant!RetryStep, Tenant!Sweep
<1>8. ASSUME NEW n \in Tenant!StepNames, Tenant!SkipStep(n)
      PROVE  n = s \/ TenantOver(pv_step[s])
  BY <1>0, <1>8 DEF Tenant!SkipStep
<1> QED
  BY <1>2, <1>3, <1>5, <1>6, <1>7, <1>8, TenantMoves

\* The step an attempt has gone through left what it was to leave.
LEMMA TenantDoes ==
    ASSUME TenantTypeInv, TenantBuys, TenantFirst, Tenant!Next, pv_run \in TenantRun,
           \/ Tenant!Search \/ Tenant!KeepNumber \/ Tenant!KeepAgent
           \/ Tenant!Assign \/ Tenant!Configure \/ Tenant!Invite
           \/ Tenant!SaveNumber \/ Tenant!SaveAgent,
           NEW s, s = Tenant!Line[pv_run.at]
    PROVE  TenantDone(s)'
<1>1. /\ Tenant!Now = s
      /\ pv_run.at = 2 => s = "purchase"
      /\ pv_run.at = 3 => s = "clone"
  BY TenantLine DEF Tenant!Now
<1>2. CASE Tenant!Search \/ Tenant!Configure
  <2>1. s \in {"search", "configure", "menu", "webhook"}
    BY <1>1, <1>2 DEF Tenant!Search, Tenant!Configure, Tenant!In
  <2> QED
    BY <2>1 DEF TenantDone
<1>3. CASE Tenant!KeepNumber
  <2>1. s = "purchase" /\ pv_loc'.number # Tenant!Nil
    BY <1>1, <1>3 DEF Tenant!KeepNumber, Tenant!In
  <2> QED
    BY <2>1 DEF TenantDone
<1>4. CASE Tenant!KeepAgent
  <2>1. s = "clone" /\ pv_loc'.assistant # Tenant!Nil
    BY <1>1, <1>4 DEF Tenant!KeepAgent, Tenant!In
  <2> QED
    BY <2>1 DEF TenantDone
<1>5. CASE Tenant!Assign
  <2>1. s = "assign" /\ pv_vendor'.routed # "none"
    BY <1>1, <1>5 DEF Tenant!Assign, Tenant!In, TenantTypeInv
  <2> QED
    BY <2>1 DEF TenantDone
<1>6. CASE Tenant!Invite
  <2>1. s = "invite" /\ pv_demands' = pv_demands
    BY <1>1, <1>6 DEF Tenant!Invite, Tenant!In
  <2>2. pv_demands = 0 => pv_job[pv_run.job].email
    BY DEF TenantFirst, TenantRun
  <2>3. pv_demands = 0 => pv_invited' > 0
    BY <1>6, <2>2 DEF Tenant!Invite, TenantTypeInv
  <2> QED
    BY <2>1, <2>3 DEF TenantDone
<1>7. CASE Tenant!SaveNumber
  <2>1. s = "purchase"
    BY <1>1, <1>7 DEF Tenant!SaveNumber, Tenant!At, TenantBuys
  <2>2. pv_loc'.number # Tenant!Nil
    BY <1>7, TenantTrades DEF TenantTypeInv, Tenant!Nil
  <2> QED
    BY <2>1, <2>2 DEF TenantDone
<1>8. CASE Tenant!SaveAgent
  <2>1. s = "clone" /\ pv_vendor.cloned # Tenant!Nil
    BY <1>1, <1>8 DEF Tenant!SaveAgent, Tenant!At, TenantBuys, Tenant!Nil
  <2>2. pv_loc'.assistant # Tenant!Nil
    BY <1>8, <2>1, TenantTrades
  <2> QED
    BY <2>1, <2>2 DEF TenantDone
<1> QED
  BY <1>2, <1>3, <1>4, <1>5, <1>6, <1>7, <1>8

\* Every step keeps that what is over is done.
LEMMA TenantEquipsOn ==
    ASSUME TenantTypeInv, TenantBuys, TenantEquips, TenantFirst, Tenant!Next
    PROVE  TenantEquips'
<1>0. /\ pv_run \in TenantRun => pv_run.pc # "none" /\ pv_run.at \in 0..8
      /\ pv_step \in [Tenant!StepNames -> TenantStep]
  BY DEF TenantTypeInv, TenantRun
<1>1. ASSUME NEW s, TenantDone(s) PROVE TenantDone(s)'
  BY <1>1, TenantDoneStays
<1>2. ASSUME NEW s \in Tenant!StepNames, TenantOver(pv_step'[s]) PROVE TenantDone(s)'
  <2>1. CASE TenantOver(pv_step[s])
    BY <1>1, <2>1 DEF TenantEquips
  <2>2. CASE Tenant!Complete /\ s = Tenant!Now
    <3>1. pv_run \in TenantRun /\ pv_run.pc = "done" /\ pv_run.at \in 1..8
      BY <2>2 DEF TenantTypeInv, TenantBuys, Tenant!Complete, Tenant!At, Tenant!Busy
    <3>2. s = Tenant!Line[pv_run.at] /\ TenantBehind(pv_run.at)
      BY <2>2, <3>1 DEF TenantBehind, Tenant!Now
    <3> QED
      BY <1>0, <1>1, <3>1, <3>2 DEF TenantEquips
  <2>3. CASE Tenant!SkipStep(s)
    <3>1. s \in pv_skipped' /\ pv_demands' # 0
      BY <2>3 DEF Tenant!SkipStep, Tenant!Demand, TenantTypeInv
    <3> QED
      BY <3>1 DEF TenantDone
  <2> QED
    BY <1>2, <2>1, <2>2, <2>3, TenantStepOver
<1>3. ASSUME pv_run'.pc # "none", NEW s \in Tenant!StepNames, TenantOver(pv_run'.seen[s])
      PROVE  TenantDone(s)'
  <2>1. CASE /\ pv_run.pc # "none"
             /\ TenantOver(pv_run.seen[s])
    BY <1>1, <2>1 DEF TenantEquips
  <2>2. CASE \E j \in SetupJobs : Tenant!Begin(j)
    <3>1. TenantOver(pv_step[s])
      BY <1>3, <2>2 DEF Tenant!Begin
    <3> QED
      BY <1>1, <3>1 DEF TenantEquips
  <2>3. CASE Tenant!Complete /\ pv_run \in TenantRun
    <3>1. TenantOver(pv_run.seen[s])
      BY <1>3, <2>3 DEF Tenant!Complete, TenantRun, TenantStep, TenantOver
    <3> QED
      BY <1>0, <2>1, <2>3, <3>1
  <2>4. pv_run' # Tenant!NoRun
    BY <1>3 DEF Tenant!NoRun
  <2> QED
    BY <1>0, <1>3, <2>1, <2>2, <2>3, <2>4, TenantRunMoves
<1>4. ASSUME pv_run'.pc # "none", NEW i \in 1..8, TenantBehind(i)', NEW s, s = Tenant!Line[i]
      PROVE  TenantDone(s)'
  <2>0. s \in Tenant!StepNames
    BY <1>4, TenantLine
  <2>1. CASE pv_run.pc # "none" /\ TenantBehind(i)
    BY <1>1, <1>4, <2>1 DEF TenantEquips
  <2>2. CASE \E j \in SetupJobs : Tenant!Begin(j)
    <3>1. pv_run'.at = 0 /\ pv_run'.pc = "next"
      BY <2>2 DEF Tenant!Begin
    <3> QED
      BY <1>4, <3>1 DEF TenantBehind
  <2>3. CASE Tenant!NextStep
    <3>1. pv_run \in TenantRun /\ pv_run.pc = "next"
      BY <2>3, TenantPicks
    <3>2. CASE i <= pv_run.at
      <4>1. TenantBehind(i)
        BY <1>0, <3>1, <3>2 DEF TenantBehind
      <4> QED
        BY <2>1, <3>1, <4>1
    <3>3. CASE i > pv_run.at
      <4>1. TenantOver(pv_run.seen[Tenant!Line[i]])
        <5>1. CASE Tenant!RunTo("activate", {}) /\ \A k \in 1..8 : k > pv_run.at =>
                      TenantOver(pv_run.seen[Tenant!Line[k]])
          BY <3>3, <5>1
        <5>2. ASSUME NEW n \in 1..8,
                     pv_run' = [pv_run EXCEPT !.pc = "work", !.at = n,
                                   !.meta = pv_run.seen[Tenant!Line[n]].meta \ Tenant!Unread],
                     \A k \in 1..8 : k > pv_run.at /\ k < n =>
                        TenantOver(pv_run.seen[Tenant!Line[k]])
              PROVE  TenantOver(pv_run.seen[Tenant!Line[i]])
          <6>1. pv_run'.pc = "work" /\ pv_run'.at = n
            BY <3>1, <5>2 DEF TenantRun
          <6>2. i < n
            BY <1>4, <6>1 DEF TenantBehind
          <6> QED
            BY <3>3, <5>2, <6>2
        <5> QED
          BY <2>3, <5>1, <5>2, TenantPicks
      <4> QED
        BY <1>0, <1>1, <1>4, <2>0, <3>1, <4>1 DEF TenantEquips
    <3> QED
      BY <1>0, <3>1, <3>2, <3>3
  <2>4. CASE /\ pv_run \in TenantRun /\ pv_run'.at = pv_run.at
             /\ \/ pv_run.pc = "done" /\ pv_run'.pc = "next"
                \/ pv_run.pc = "activate"
                \/ pv_run'.pc \in {"ordered", "cloned", "failing"}
                \/ pv_run'.pc = "done" /\ i # pv_run.at
    <3>1. TenantBehind(i)
      BY <1>4, <2>4 DEF TenantBehind
    <3> QED
      BY <1>0, <2>1, <2>4, <3>1
  <2>5. CASE /\ pv_run \in TenantRun /\ i = pv_run.at
             /\ \/ Tenant!Search \/ Tenant!KeepNumber \/ Tenant!KeepAgent
                \/ Tenant!Assign \/ Tenant!Configure \/ Tenant!Invite
                \/ Tenant!SaveNumber \/ Tenant!SaveAgent
    BY <1>4, <2>5, TenantDoes
  <2>6. CASE pv_run' = pv_run
    BY <1>4, <2>1, <2>6 DEF TenantBehind
  <2>7. pv_run' # Tenant!NoRun
    BY <1>4 DEF Tenant!NoRun
  <2>8. /\ Tenant!Complete => pv_run.pc = "done"
        /\ Tenant!ActivateLocation => pv_run.pc = "activate"
    BY DEF Tenant!Complete, Tenant!ActivateLocation, Tenant!At
  <2> QED
    BY <2>2, <2>3, <2>4, <2>5, <2>6, <2>7, <2>8, TenantRunMoves
<1>5. ASSUME pv_loc'.status = "active", NEW s \in Tenant!StepNames PROVE TenantDone(s)'
  <2>1. CASE pv_loc.status = "active"
    BY <1>1, <2>1 DEF TenantEquips
  <2>2. CASE Tenant!ActivateLocation
    <3>1. pv_run \in TenantRun /\ pv_run.pc = "activate"
      BY <2>2 DEF TenantTypeInv, Tenant!ActivateLocation, Tenant!At, Tenant!Busy
    <3>2. PICK i \in 1..8 : s = Tenant!Line[i]
      BY TenantLine
    <3> QED
      BY <1>1, <3>1, <3>2 DEF TenantEquips, TenantBehind
  <2>3. pv_loc'.status = pv_loc.status \/ pv_loc'.status \in {"provisioning", "archived"}
           \/ Tenant!ActivateLocation
    BY TenantMoves DEF TenantTypeInv, Tenant!SaveNumber, Tenant!SaveAgent,
       Tenant!FailLocation, Tenant!RetryMark, Tenant!ArchiveLocation, Tenant!Sweep
  <2> QED
    BY <1>5, <2>1, <2>2, <2>3
<1>6. pv_run'.pc # "none" => \A i \in 1..8 : TenantBehind(i)' => TenantDone(Tenant!Line[i])'
  BY <1>4
<1> QED
  BY <1>2, <1>3, <1>5, <1>6 DEF TenantEquips

\* The invariant holds before the first step.
LEMMA TenantInitIInv == ASSUME TenantBounds, Tenant!Init PROVE TenantIInv
<1> USE DEF Tenant!Init
<1>1. /\ pv_run = Tenant!NoRun /\ pv_ask = Tenant!NoAsk
      /\ pv_run.pc = "none" /\ pv_ask.pc = "none"
  BY DEF Tenant!NoRun, Tenant!NoAsk
<1>2. TenantTypeInv
  <2>1. pv_loc \in [ status : {"provisioning", "active", "archived"}, error : BOOLEAN,
                     assistant : Nat, number : Nat ]
    BY DEF Tenant!Nil, Tenant!BaseNumber
  <2>2. pv_step \in [Tenant!StepNames -> TenantStep]
    BY DEF TenantStep, Tenant!Unread, Tenant!MetaKeys
  <2>3. pv_job \in [ SetupJobs -> [ state : Tenant!JobStates, failed : Nat, died : Nat,
                                    email : BOOLEAN ] ]
    <3>1. PICK t \in {"waiting", "none"} : pv_job = [j \in SetupJobs |->
                   [ state |-> IF j = FirstJob THEN t ELSE "none", failed |-> 0,
                     died |-> 0, email |-> j = FirstJob ]]
      OBVIOUS
    <3> DEFINE Job == [ state : Tenant!JobStates, failed : Nat, died : Nat, email : BOOLEAN ]
    <3>2. \A q \in BOOLEAN : \A r \in {"waiting", "none"} :
             [state |-> r, failed |-> 0, died |-> 0, email |-> q] \in Job
      BY DEF Tenant!JobStates
    <3>3. \A j : (j = FirstJob) \in BOOLEAN
      OBVIOUS
    <3>4. \A j \in SetupJobs : (IF j = FirstJob THEN t ELSE "none") \in {"waiting", "none"}
      BY <3>1
    <3> HIDE DEF Job
    <3>5. \A j \in SetupJobs : [ state |-> IF j = FirstJob THEN t ELSE "none", failed |-> 0,
                     died |-> 0, email |-> j = FirstJob ] \in Job
      BY <3>2, <3>3, <3>4, Zenon
    <3>6. pv_job \in [SetupJobs -> Job]
      BY <3>1, <3>5
    <3> QED
      BY <3>6 DEF Job
  <2>4. pv_vendor \in [ bought : Nat, cloned : Nat, agents : SUBSET Nat,
                        routed : {"none", "agent", "fallback"}, numbers : SUBSET Nat ]
    BY DEF Tenant!BaseNumber
  <2> QED
    BY <1>1, <2>1, <2>2, <2>3, <2>4 DEF TenantTypeInv
<1>3. TenantBuys
  BY <1>1 DEF TenantBuys, Tenant!BaseNumber
<1>4. TenantArchives
  BY <1>1 DEF TenantArchives
<1>5. TenantFirst
  <2>1. pv_job[FirstJob].email /\ \A j \in SetupJobs : j # FirstJob => pv_job[j].state = "none"
    <3>1. PICK t \in {"waiting", "none"} : pv_job = [j \in SetupJobs |->
                   [ state |-> IF j = FirstJob THEN t ELSE "none", failed |-> 0,
                     died |-> 0, email |-> j = FirstJob ]]
      OBVIOUS
    <3>2. pv_job[FirstJob].email
      <4>1. pv_job[FirstJob].email = (FirstJob = FirstJob)
        BY <3>1, Zenon DEF TenantBounds
      <4> QED
        BY <4>1, Zenon
    <3>3. \A j \in SetupJobs : j # FirstJob => pv_job[j].state = "none"
      BY <3>1
    <3> QED
      BY <3>2, <3>3
  <2> QED
    BY <1>1, <2>1 DEF TenantFirst
<1>6. TenantEquips
  <2>1. ASSUME NEW s \in Tenant!StepNames, TenantOver(pv_step[s]) PROVE TenantDone(s)
    <3>1. pv_reuse /\ s \in {"search", "purchase"}
      BY <2>1 DEF TenantOver
    <3> QED
      BY <3>1 DEF TenantDone, Tenant!Nil, Tenant!BaseNumber
  <2> QED
    BY <1>1, <2>1 DEF TenantEquips
<1>7. Tenant!NothingBoughtTwice
  BY DEF Tenant!NothingBoughtTwice
<1> QED
  BY <1>2, <1>3, <1>4, <1>5, <1>6, <1>7 DEF TenantIInv

\* So does it while the tenant stands still.
LEMMA TenantStillKeeps == ASSUME TenantIInv, UNCHANGED Tenant!vars PROVE TenantIInv'
<1>1. /\ pv_reuse' = pv_reuse /\ pv_org' = pv_org /\ pv_loc' = pv_loc /\ pv_step' = pv_step
      /\ pv_job' = pv_job /\ pv_run' = pv_run /\ pv_ask' = pv_ask /\ pv_demands' = pv_demands
      /\ pv_vendor' = pv_vendor /\ pv_invited' = pv_invited /\ pv_skipped' = pv_skipped
      /\ pv_mishaps' = pv_mishaps /\ pv_loose' = pv_loose
  BY DEF Tenant!vars
<1>2. TenantTypeInv' /\ TenantFirst'
  BY <1>1 DEF TenantIInv, TenantTypeInv, TenantFirst
<1>3. TenantBuys' /\ TenantArchives'
  BY <1>1 DEF TenantIInv, TenantBuys, TenantArchives
<1>4. \A s : TenantDone(s) => TenantDone(s)'
  BY <1>1 DEF TenantDone
<1>5. TenantEquips'
  BY <1>1, <1>4 DEF TenantIInv, TenantEquips, TenantBehind
<1>6. Tenant!Pending' = Tenant!Pending
  BY <1>1 DEF Tenant!Pending, Tenant!At, Tenant!Busy
<1>7. Tenant!NothingBoughtTwice'
  BY <1>1, <1>6 DEF TenantIInv, Tenant!NothingBoughtTwice
<1> QED
  BY <1>2, <1>3, <1>5, <1>7 DEF TenantIInv

\* Every step of the tenant keeps the invariant.
LEMMA TenantNextIInv ==
    ASSUME TenantBounds, TenantIInv, [Tenant!Next]_(Tenant!vars) PROVE TenantIInv'
<1>1. CASE UNCHANGED Tenant!vars
  BY <1>1, TenantStillKeeps
<1>2. CASE Tenant!Next
  <2>1. TenantTypeInv /\ TenantBuys /\ TenantArchives /\ TenantEquips /\ TenantFirst
          /\ Tenant!NothingBoughtTwice
    BY DEF TenantIInv
  <2>2. TenantTypeInv'
    BY <1>2, <2>1, TenantTypes
  <2>3. TenantBuys'
    BY <1>2, <2>1, TenantBuysOn
  <2>4. TenantArchives'
    BY <1>2, <2>1, TenantArchivesOn
  <2>5. TenantEquips'
    BY <1>2, <2>1, TenantEquipsOn
  <2>6. TenantFirst'
    BY <1>2, <2>1, TenantFirstOn DEF TenantBounds
  <2>7. Tenant!NothingBoughtTwice'
    BY <1>2, <2>1, TenantBoughtOnce
  <2> QED
    BY <2>2, <2>3, <2>4, <2>5, <2>6, <2>7 DEF TenantIInv
<1> QED
  BY <1>1, <1>2

\* What the invariant says of a set-up at rest.
LEMMA TenantHolds == ASSUME TenantIInv PROVE Tenant!SetupHolds
<1>1. Tenant!NothingBoughtTwice /\ TenantArchives /\ TenantBuys /\ TenantEquips
  BY DEF TenantIInv
<1>2. Tenant!ArchiveReleases
  <2>1. SUFFICES ASSUME pv_org.deleted, ~Tenant!Busy
                 PROVE  /\ \A n \in pv_vendor.numbers :
                              n = Tenant!BaseNumber \/ <<"number", n>> \in pv_loose
                        /\ \A a \in pv_vendor.agents : <<"agent", a>> \in pv_loose
                        /\ pv_reuse => Tenant!BaseNumber \in pv_vendor.numbers
    BY DEF Tenant!ArchiveReleases
  <2>2. Tenant!Pending = {}
    BY <2>1 DEF Tenant!Pending, Tenant!At
  <2> QED
    BY <1>1, <2>1, <2>2 DEF TenantArchives, TenantBuys, Tenant!NothingBoughtTwice
<1>3. Tenant!ActiveIsEquipped
  BY <1>1, TenantLine DEF TenantEquips, TenantDone, Tenant!ActiveIsEquipped
<1> QED
  BY <1>1, <1>2, <1>3 DEF Tenant!SetupHolds, Tenant!ResourcesAreKnown

\* The tenant takes a step of its own, or stands still.
LEMMA TenantSteps == [Next]_vars => [Tenant!Next]_(Tenant!vars)
BY DEF Next, vars, SyncNext, TenantNext, MenuNext, CallNext, TenantVars, Tenant!vars

\* Whatever fails, dies or intervenes while a tenant is set up: the vendor charges for no
\* number and no assistant that the rows do not name or that was not noted as lost, an archived
\* one has given them back, and an active location can be called: the property of
\* Provisioning, for every number of jobs, attempts, requests and faults.
THEOREM TenantIsSetUp == ASSUME TenantBounds PROVE Tenant!Spec => []Tenant!SetupHolds
<1>1. Tenant!Init => TenantIInv
  BY TenantInitIInv
<1>2. TenantIInv /\ [Tenant!Next]_(Tenant!vars) => TenantIInv'
  BY TenantNextIInv
<1>3. TenantIInv => Tenant!SetupHolds
  BY TenantHolds
<1> QED
  BY <1>1, <1>2, <1>3, PTL DEF Tenant!Spec

\* Whatever fails, dies or intervenes while a tenant is set up, nothing is bought twice, an
\* archived tenant has given back what it had, and an active location can be called: what run
\* "workers" checks of two jobs, of every number of them.
THEOREM SetupHoldsAll == Spec => []SetupHolds
<1>1. Init => TenantIInv
  BY TenantAssumption, TenantInitIInv DEF Init
<1>2. TenantIInv /\ [Next]_vars => TenantIInv'
  BY TenantSteps, TenantAssumption, TenantNextIInv
<1>3. TenantIInv => SetupHolds
  BY TenantHolds DEF SetupHolds
<1> QED
  BY <1>1, <1>2, <1>3, PTL DEF Spec
--------------------------------------------------------------------------------
\* The attempts begun at a job: those that failed, those whose worker died, and the one
\* at work or done.
TenantBegun(j) ==
    pv_job[j].failed + pv_job[j].died
        + (IF pv_job[j].state \in {"active", "done"} THEN 1 ELSE 0)
TenantAttempts == [j \in SetupJobs |-> TenantBegun(j)]
TenantTotal == SumOver(TenantAttempts, SetupJobs)

\* The attempt at work has yet to do step i: it buys, clones and invites once at most.
TenantYet(i) ==
    IF pv_run.pc # "none" /\ (pv_run.at < i \/ (pv_run.at = i /\ pv_run.pc = "work"))
      THEN 1 ELSE 0

\* One job is at work, and a job that has not failed has an attempt left.
TenantWorks ==
    \A j \in SetupJobs :
        /\ pv_job[j].state = "active" <=> pv_run.pc # "none" /\ pv_run.job = j
        /\ pv_job[j].failed <= SetupAttempts /\ pv_job[j].died <= MaxStalls + 1
        /\ pv_job[j].failed + pv_job[j].died <= SetupAttempts + MaxStalls
        /\ pv_job[j].state # "failed" =>
             pv_job[j].failed < SetupAttempts /\ pv_job[j].died <= MaxStalls

\* What has been done is paid for by an attempt, and the row names nothing that was not bought.
TenantCapped ==
    /\ pv_demands <= MaxDemands /\ pv_mishaps <= MaxMishaps
    /\ pv_vendor.bought + TenantYet(2) <= TenantTotal
    /\ pv_vendor.cloned + TenantYet(3) <= TenantTotal
    /\ pv_invited + TenantYet(8) <= TenantTotal
    /\ pv_loc.number <= pv_vendor.bought + 1
    /\ pv_loc.assistant <= pv_vendor.cloned

\* What a step makes of a job.
LEMMA TenantJobMoves ==
    ASSUME TenantTypeInv, TenantWorks, Tenant!Next, NEW j \in SetupJobs
    PROVE  \/ /\ pv_job'[j] = pv_job[j]
              /\ ~Tenant!Begin(j)
              /\ pv_job[j].state = "active" => pv_run'.pc # "none" /\ pv_run'.job = j
           \/ /\ Tenant!Begin(j) /\ pv_job[j].state = "waiting"
              /\ pv_job'[j] = [pv_job[j] EXCEPT !.state = "active"]
           \/ /\ Tenant!RetryAdd(j) /\ pv_job[j].state = "none"
              /\ pv_job'[j] = [pv_job[j] EXCEPT !.state = "waiting"]
           \/ /\ pv_job[j].state = "active" /\ pv_run' = Tenant!NoRun
              /\ \/ pv_job'[j] = [pv_job[j] EXCEPT !.state = "done"]
                 \/ pv_job'[j] = [pv_job[j] EXCEPT !.failed = @ + 1, !.state =
                       IF pv_job[j].failed + 1 < SetupAttempts THEN "waiting" ELSE "failed"]
                 \/ pv_job'[j] = [pv_job[j] EXCEPT !.died = @ + 1, !.state =
                       IF pv_job[j].died < MaxStalls THEN "waiting" ELSE "failed"]
<1> DEFINE r == pv_run.job
<1>0. /\ pv_job \in [SetupJobs -> [ state : Tenant!JobStates, failed : Nat, died : Nat,
                                    email : BOOLEAN ]]
      /\ Tenant!Busy => pv_run \in TenantRun /\ r \in SetupJobs /\ pv_run.pc # "none"
      /\ ~Tenant!Busy => pv_run.pc = "none"
  BY DEF TenantTypeInv, TenantRun, Tenant!Busy, Tenant!NoRun
<1>1. pv_job[j].state = "active" <=> pv_run.pc # "none" /\ r = j
  BY DEF TenantWorks
<1>2. ASSUME NEW k \in SetupJobs, Tenant!Begin(k)
      PROVE  /\ ~Tenant!Busy /\ pv_job[k].state = "waiting"
             /\ pv_job' = [pv_job EXCEPT ![k] = [pv_job[k] EXCEPT !.state = "active"]]
  BY <1>0, <1>2 DEF Tenant!Begin
<1>3. ASSUME NEW k \in SetupJobs, Tenant!RetryAdd(k)
      PROVE  /\ pv_job[k].state = "none" /\ pv_run' = pv_run
             /\ pv_job' = [pv_job EXCEPT ![k] = [pv_job[k] EXCEPT !.state = "waiting"]]
  BY <1>0, <1>3 DEF Tenant!RetryAdd
<1>4. CASE \E k \in SetupJobs : Tenant!Begin(k)
  <2>1. PICK k \in SetupJobs : Tenant!Begin(k)
    BY <1>4
  <2>2. /\ ~Tenant!Busy /\ pv_job[k].state = "waiting"
        /\ pv_job' = [pv_job EXCEPT ![k] = [pv_job[k] EXCEPT !.state = "active"]]
    BY <1>2, <2>1
  <2>3. CASE k = j
    BY <1>0, <2>1, <2>2, <2>3
  <2>4. CASE k # j
    <3>1. pv_job'[j] = pv_job[j] /\ pv_job'[k].state = "active"
      BY <1>0, <2>2, <2>4
    <3>2. ~Tenant!Begin(j)
      <4>1. ASSUME Tenant!Begin(j) PROVE FALSE
        BY <1>0, <1>2, <2>2, <2>4, <4>1, <3>1
      <4> QED
        BY <4>1
    <3> QED
      BY <1>0, <1>1, <2>2, <3>1, <3>2
  <2> QED
    BY <2>3, <2>4
<1>5. CASE \E k \in SetupJobs : Tenant!RetryAdd(k)
  <2>1. PICK k \in SetupJobs : Tenant!RetryAdd(k)
    BY <1>5
  <2>2. /\ pv_job[k].state = "none" /\ pv_run' = pv_run
        /\ pv_job' = [pv_job EXCEPT ![k] = [pv_job[k] EXCEPT !.state = "waiting"]]
    BY <1>3, <2>1
  <2>3. CASE k = j
    BY <1>0, <2>1, <2>2, <2>3
  <2>4. CASE k # j
    <3>1. pv_job'[j] = pv_job[j] /\ pv_job'[k].state = "waiting"
      BY <1>0, <2>2, <2>4
    <3>2. ~Tenant!Begin(j)
      <4>1. ASSUME Tenant!Begin(j) PROVE FALSE
        BY <1>0, <1>2, <2>2, <2>4, <4>1, <3>1
      <4> QED
        BY <4>1
    <3> QED
      BY <1>1, <2>2, <3>1, <3>2
  <2> QED
    BY <2>3, <2>4
<1>6. CASE Tenant!FailLocation \/ Tenant!ActivateOrg \/ Tenant!WorkerDies
  <2>1. Tenant!Busy /\ pv_run' = Tenant!NoRun
    BY <1>6 DEF Tenant!FailLocation, Tenant!ActivateOrg, Tenant!WorkerDies, Tenant!At
  <2>2. \/ pv_job' = [pv_job EXCEPT ![r] = [pv_job[r] EXCEPT !.state = "done"]]
        \/ pv_job' = [pv_job EXCEPT ![r] = [pv_job[r] EXCEPT !.failed = @ + 1, !.state =
              IF pv_job[r].failed + 1 < SetupAttempts THEN "waiting" ELSE "failed"]]
        \/ pv_job' = [pv_job EXCEPT ![r] = [pv_job[r] EXCEPT !.died = @ + 1, !.state =
              IF pv_job[r].died < MaxStalls THEN "waiting" ELSE "failed"]]
    BY <1>0, <1>6, <2>1 DEF Tenant!FailLocation, Tenant!ActivateOrg, Tenant!WorkerDies
  <2>3. CASE r = j
    BY <1>0, <1>1, <2>1, <2>2, <2>3
  <2>4. CASE r # j
    <3>1. pv_job'[j] = pv_job[j] /\ pv_job[j].state # "active"
      BY <1>0, <1>1, <2>1, <2>2, <2>4
    <3>2. ~Tenant!Begin(j)
      BY <2>1 DEF Tenant!Begin
    <3> QED
      BY <3>1, <3>2
  <2> QED
    BY <2>3, <2>4
<1>7. CASE /\ ~\E k \in SetupJobs : Tenant!Begin(k) \/ Tenant!RetryAdd(k)
           /\ ~(Tenant!FailLocation \/ Tenant!ActivateOrg \/ Tenant!WorkerDies)
  <2>1. pv_job' = pv_job
    BY <1>7, TenantMoves
  <2>3. pv_job[j].state = "active" => pv_run'.pc # "none" /\ pv_run'.job = j
    BY <1>0, <1>1, <1>7, TenantRunMoves DEF TenantRun, Tenant!NoRun
  <2> QED
    BY <1>7, <2>1, <2>3
<1> QED
  BY <1>4, <1>5, <1>6, <1>7

\* The same, field by field.
LEMMA TenantJobFields ==
    ASSUME TenantTypeInv, TenantWorks, Tenant!Next, NEW j \in SetupJobs, NEW a, NEW b,
           a = pv_job[j], b = pv_job'[j]
    PROVE  /\ a.state \in Tenant!JobStates /\ a.failed \in Nat /\ a.died \in Nat
           /\ \/ /\ b = a /\ ~Tenant!Begin(j)
                 /\ a.state = "active" => pv_run'.pc # "none" /\ pv_run'.job = j
              \/ /\ Tenant!Begin(j) /\ a.state = "waiting" /\ b.state = "active"
                 /\ b.failed = a.failed /\ b.died = a.died
              \/ /\ ~Tenant!Begin(j) /\ a.state = "none" /\ b.state = "waiting"
                 /\ b.failed = a.failed /\ b.died = a.died
              \/ /\ ~Tenant!Begin(j) /\ a.state = "active" /\ pv_run' = Tenant!NoRun
                 /\ \/ b.state = "done" /\ b.failed = a.failed /\ b.died = a.died
                    \/ /\ b.failed = a.failed + 1 /\ b.died = a.died
                       /\ b.state = IF a.failed + 1 < SetupAttempts THEN "waiting" ELSE "failed"
                    \/ /\ b.failed = a.failed /\ b.died = a.died + 1
                       /\ b.state = IF a.died < MaxStalls THEN "waiting" ELSE "failed"
<1>1. a \in [state : Tenant!JobStates, failed : Nat, died : Nat, email : BOOLEAN]
  BY DEF TenantTypeInv
<1>2. Tenant!Begin(j) => a.state = "waiting"
  BY DEF Tenant!Begin
<1>3. \/ /\ b = a /\ ~Tenant!Begin(j)
         /\ a.state = "active" => pv_run'.pc # "none" /\ pv_run'.job = j
      \/ /\ Tenant!Begin(j) /\ a.state = "waiting" /\ b = [a EXCEPT !.state = "active"]
      \/ a.state = "none" /\ b = [a EXCEPT !.state = "waiting"]
      \/ /\ a.state = "active" /\ pv_run' = Tenant!NoRun
         /\ \/ b = [a EXCEPT !.state = "done"]
            \/ b = [a EXCEPT !.failed = a.failed + 1, !.state =
                      IF a.failed + 1 < SetupAttempts THEN "waiting" ELSE "failed"]
            \/ b = [a EXCEPT !.died = a.died + 1, !.state =
                      IF a.died < MaxStalls THEN "waiting" ELSE "failed"]
  BY TenantJobMoves
<1> QED
  BY ONLY <1>1, <1>2, <1>3

\* Every step keeps that one job is at work and those that have not failed have attempts left.
LEMMA TenantWorksOn ==
    ASSUME TenantBounds, TenantTypeInv, TenantWorks, Tenant!Next PROVE TenantWorks'
<1>1. SetupAttempts \in Nat \ {0} /\ MaxStalls \in Nat
  BY DEF TenantBounds
<1> SUFFICES ASSUME NEW j \in SetupJobs
             PROVE  /\ pv_job'[j].state = "active" <=> pv_run'.pc # "none" /\ pv_run'.job = j
                    /\ pv_job'[j].failed <= SetupAttempts /\ pv_job'[j].died <= MaxStalls + 1
                    /\ pv_job'[j].failed + pv_job'[j].died <= SetupAttempts + MaxStalls
                    /\ pv_job'[j].state # "failed" =>
                         pv_job'[j].failed < SetupAttempts /\ pv_job'[j].died <= MaxStalls
  BY DEF TenantWorks
<1>2. pv_job[j] \in [state : Tenant!JobStates, failed : Nat, died : Nat, email : BOOLEAN]
  BY DEF TenantTypeInv
<1>3. /\ pv_job[j].state = "active" <=> pv_run.pc # "none" /\ pv_run.job = j
      /\ pv_job[j].failed <= SetupAttempts /\ pv_job[j].died <= MaxStalls + 1
      /\ pv_job[j].failed + pv_job[j].died <= SetupAttempts + MaxStalls
      /\ pv_job[j].state # "failed" =>
           pv_job[j].failed < SetupAttempts /\ pv_job[j].died <= MaxStalls
  BY DEF TenantWorks
<1>4. /\ pv_job'[j].failed <= SetupAttempts /\ pv_job'[j].died <= MaxStalls + 1
      /\ pv_job'[j].failed + pv_job'[j].died <= SetupAttempts + MaxStalls
      /\ pv_job'[j].state # "failed" =>
           pv_job'[j].failed < SetupAttempts /\ pv_job'[j].died <= MaxStalls
  BY ONLY <1>1, <1>3, TenantJobFields, TenantTypeInv, TenantWorks, Tenant!Next, j \in SetupJobs
<1>5. pv_job'[j].state = "active" => pv_run'.pc # "none" /\ pv_run'.job = j
  <2>1. Tenant!Begin(j) => pv_run'.pc # "none" /\ pv_run'.job = j
    BY DEF Tenant!Begin
  <2> QED
    BY <2>1, TenantJobFields
<1>6. pv_run'.pc # "none" /\ pv_run'.job = j => pv_job'[j].state = "active"
  <2>1. ASSUME pv_run'.pc # "none", pv_run'.job = j PROVE pv_job'[j].state = "active"
    <3>1. pv_run' # Tenant!NoRun
      BY <2>1 DEF Tenant!NoRun
    <3>2. CASE \E k \in SetupJobs : Tenant!Begin(k)
      <4>1. Tenant!Begin(j)
        BY <2>1, <3>2 DEF Tenant!Begin
      <4> QED
        BY <4>1, TenantJobFields
    <3>3. CASE ~\E k \in SetupJobs : Tenant!Begin(k)
      <4>1. pv_run.pc # "none" /\ pv_run.job = j
        <5>1. pv_run \in TenantRun => pv_run.pc # "none"
          BY DEF TenantRun
        <5> QED
          BY <2>1, <3>1, <3>3, <5>1, TenantRunMoves
      <4>2. pv_job[j].state = "active"
        BY <1>3, <4>1
      <4> QED
        BY <3>1, <3>3, <4>2, TenantJobFields
    <3> QED
      BY <3>2, <3>3
  <2> QED
    BY <2>1
<1> QED
  BY <1>4, <1>5, <1>6

\* An attempt counts when it begins, and no other step changes the count.
LEMMA TenantTotals ==
    ASSUME TenantBounds, TenantTypeInv, TenantWorks, Tenant!Next
    PROVE  /\ TenantTotal \in Nat /\ TenantTotal' \in Nat
           /\ TenantTotal'
                = TenantTotal + (IF \E j \in SetupJobs : Tenant!Begin(j) THEN 1 ELSE 0)
<1> DEFINE f == TenantAttempts
           h == TenantAttempts'
<1>0. IsFiniteSet(SetupJobs)
  BY DEF TenantBounds
<1>1. \A j \in SetupJobs :
        /\ pv_job[j] \in [state : Tenant!JobStates, failed : Nat, died : Nat, email : BOOLEAN]
        /\ f[j] = TenantBegun(j) /\ f[j] \in Nat
  BY DEF TenantTypeInv, TenantAttempts, TenantBegun
<1>2. \A j \in SetupJobs : h[j] = TenantBegun(j)'
  BY DEF TenantAttempts, TenantBegun
<1>3. \A j \in SetupJobs : ~Tenant!Begin(j) => h[j] = f[j]
  <2> SUFFICES ASSUME NEW j \in SetupJobs, ~Tenant!Begin(j) PROVE h[j] = f[j]
    OBVIOUS
  <2> HIDE DEF f, h
  <2> QED
    BY <1>1, <1>2, TenantJobFields DEF TenantBegun
<1>4. \A j \in SetupJobs : Tenant!Begin(j) => h[j] = f[j] + 1
  <2> SUFFICES ASSUME NEW j \in SetupJobs, Tenant!Begin(j) PROVE h[j] = f[j] + 1
    OBVIOUS
  <2> HIDE DEF f, h
  <2> QED
    BY <1>1, <1>2, TenantJobFields DEF TenantBegun
<1>5. TenantTotal = SumOver(f, SetupJobs) /\ TenantTotal' = SumOver(h, SetupJobs)
  BY DEF TenantTotal
<1> HIDE DEF f, h
<1>6. \A j \in SetupJobs : f[j] \in Int /\ h[j] \in Int /\ h[j] \in Nat
  BY <1>1, <1>3, <1>4
<1>7. TenantTotal \in Nat /\ TenantTotal' \in Nat
  BY <1>0, <1>1, <1>5, <1>6, SumType
<1>8. CASE \E j \in SetupJobs : Tenant!Begin(j)
  <2>1. PICK j \in SetupJobs : Tenant!Begin(j)
    BY <1>8
  <2>2. \A k \in SetupJobs \ {j} : h[k] = f[k]
    <3>1. ASSUME NEW k \in SetupJobs \ {j} PROVE ~Tenant!Begin(k)
      <4>1. pv_run'.job = j
        BY <2>1 DEF Tenant!Begin
      <4> QED
        BY <4>1 DEF Tenant!Begin
    <3> QED
      BY <1>3, <3>1
  <2>3. SumOver(h, SetupJobs) = SumOver(f, SetupJobs) + h[j] - f[j]
    BY <1>0, <1>6, <2>2, SumChange
  <2> QED
    BY <1>4, <1>5, <1>6, <1>7, <1>8, <2>1, <2>3
<1>9. CASE ~\E j \in SetupJobs : Tenant!Begin(j)
  <2>1. SumOver(h, SetupJobs) = SumOver(f, SetupJobs)
    BY <1>0, <1>3, <1>6, <1>9, SumCompare
  <2> QED
    BY <1>5, <1>7, <1>9, <2>1
<1> QED
  BY <1>7, <1>8, <1>9

\* What an attempt has yet to do it has not done, and does once.
LEMMA TenantYetGoes ==
    ASSUME TenantTypeInv, TenantBuys, Tenant!Next, NEW i \in 1..8
    PROVE  /\ TenantYet(i) \in {0, 1} /\ TenantYet(i)' \in {0, 1}
           /\ (\E j \in SetupJobs : Tenant!Begin(j)) => TenantYet(i) = 0
           /\ (~\E j \in SetupJobs : Tenant!Begin(j)) => TenantYet(i)' <= TenantYet(i)
           /\ pv_run.pc = "work" /\ pv_run.at = i /\ pv_run'.pc # "work" =>
                TenantYet(i) = 1 /\ TenantYet(i)' = 0
<1>1. TenantYet(i) \in {0, 1} /\ TenantYet(i)' \in {0, 1}
  BY DEF TenantYet
<1>2. (\E j \in SetupJobs : Tenant!Begin(j)) => TenantYet(i) = 0
  BY DEF Tenant!Begin, Tenant!Busy, Tenant!NoRun, TenantYet
<1>3. pv_run \in TenantRun => pv_run.at \in 0..8 /\ pv_run.pc # "none"
  BY DEF TenantRun
<1>4. pv_run'.pc # "none" => pv_run' # Tenant!NoRun
  BY DEF Tenant!NoRun
<1>5. (~\E j \in SetupJobs : Tenant!Begin(j)) => TenantYet(i)' <= TenantYet(i)
  <2>1. CASE pv_run' = pv_run
    BY <1>1, <2>1 DEF TenantYet
  <2>2. CASE pv_run' = Tenant!NoRun
    BY <1>1, <1>4, <2>2 DEF TenantYet
  <2>3. CASE /\ pv_run \in TenantRun
             /\ \/ pv_run'.at = pv_run.at
                    /\ (pv_run'.pc = "work" => pv_run.pc = "work")
                \/ pv_run'.at > pv_run.at
    <3>1. pv_run'.pc # "none" => pv_run'.at \in 0..8
      BY TenantTypes DEF TenantTypeInv, TenantRun, Tenant!NoRun
    <3>2. pv_run.at \in 0..8 /\ pv_run.pc # "none"
      BY <1>3, <2>3
    <3> QED
      BY ONLY <1>1, <2>3, <3>1, <3>2, i \in 1..8 DEF TenantYet
  <2>4. (~\E j \in SetupJobs : Tenant!Begin(j)) =>
          \/ pv_run' = pv_run \/ pv_run' = Tenant!NoRun
          \/ /\ pv_run \in TenantRun
             /\ \/ pv_run'.at = pv_run.at
                    /\ (pv_run'.pc = "work" => pv_run.pc = "work")
                \/ pv_run'.at > pv_run.at
    BY TenantRunMoves
  <2> QED
    BY <2>1, <2>2, <2>3, <2>4
<1>6. pv_run.pc = "work" /\ pv_run.at = i /\ pv_run'.pc # "work" =>
                TenantYet(i) = 1 /\ TenantYet(i)' = 0
  BY <1>3, <1>4, TenantRunMoves DEF TenantYet, Tenant!Begin, Tenant!Busy, Tenant!NoRun
<1> QED
  BY <1>1, <1>2, <1>5, <1>6

\* What an attempt does once is paid for by its beginning.
LEMMA TenantPays ==
    ASSUME TenantBounds, TenantTypeInv, TenantBuys, TenantWorks, Tenant!Next, NEW i \in 1..8,
           NEW x \in Nat, NEW y, x + TenantYet(i) <= TenantTotal,
           \/ y = x
           \/ y = x + 1 /\ pv_run.pc = "work" /\ pv_run.at = i /\ pv_run'.pc # "work"
    PROVE  y + TenantYet(i)' <= TenantTotal'
<1>1. (\E j \in SetupJobs : Tenant!Begin(j)) => pv_run.pc # "work"
  BY DEF Tenant!Begin, Tenant!Busy, Tenant!NoRun
<1>2. /\ TenantTotal \in Nat /\ TenantTotal' \in Nat
      /\ TenantTotal' = TenantTotal + (IF \E j \in SetupJobs : Tenant!Begin(j) THEN 1 ELSE 0)
  BY TenantTotals
<1>3. /\ TenantYet(i) \in {0, 1} /\ TenantYet(i)' \in {0, 1}
      /\ (\E j \in SetupJobs : Tenant!Begin(j)) => TenantYet(i) = 0
      /\ (~\E j \in SetupJobs : Tenant!Begin(j)) => TenantYet(i)' <= TenantYet(i)
      /\ pv_run.pc = "work" /\ pv_run.at = i /\ pv_run'.pc # "work" =>
           TenantYet(i) = 1 /\ TenantYet(i)' = 0
  BY TenantYetGoes
<1> DEFINE begins == \E j \in SetupJobs : Tenant!Begin(j)
<1> HIDE DEF begins
<1>4. /\ begins => pv_run.pc # "work" /\ TenantYet(i) = 0
      /\ ~begins => TenantYet(i)' <= TenantYet(i)
      /\ TenantTotal' = TenantTotal + (IF begins THEN 1 ELSE 0)
  BY <1>1, <1>2, <1>3 DEF begins
<1> QED
  BY <1>2, <1>3, <1>4

\* What is bought, cloned and invited, and by whom.
LEMMA TenantSpends ==
    ASSUME TenantTypeInv, TenantBuys, Tenant!Next
    PROVE  /\ \/ pv_vendor'.bought = pv_vendor.bought
              \/ /\ pv_vendor'.bought = pv_vendor.bought + 1
                 /\ pv_run.pc = "work" /\ pv_run.at = 2 /\ pv_run'.pc # "work"
           /\ \/ pv_vendor'.cloned = pv_vendor.cloned
              \/ /\ pv_vendor'.cloned = pv_vendor.cloned + 1
                 /\ pv_run.pc = "work" /\ pv_run.at = 3 /\ pv_run'.pc # "work"
           /\ \/ pv_invited' = pv_invited
              \/ /\ pv_invited' = pv_invited + 1
                 /\ pv_run.pc = "work" /\ pv_run.at = 8 /\ pv_run'.pc # "work"
           /\ \/ pv_loc'.number = pv_loc.number
              \/ pv_loc'.number = pv_vendor.bought + 1
           /\ \/ pv_loc'.assistant = pv_loc.assistant
              \/ pv_loc'.assistant = pv_vendor.cloned
<1>1. /\ pv_vendor \in [ bought : Nat, cloned : Nat, agents : SUBSET Nat,
                         routed : {"none", "agent", "fallback"}, numbers : SUBSET Nat ]
      /\ pv_loc \in [status : {"provisioning", "active", "archived"}, error : BOOLEAN,
                     assistant : Nat, number : Nat]
      /\ Tenant!Busy => pv_run \in TenantRun
  BY DEF TenantTypeInv, Tenant!Busy
<1>2. ASSUME NEW s \in {"purchase", "clone", "invite"}, Tenant!In(s), NEW pc, NEW m,
             pc # "work", Tenant!RunTo(pc, m)
      PROVE  /\ pv_run.pc = "work" /\ pv_run'.pc # "work"
             /\ pv_run.at = IF s = "purchase" THEN 2 ELSE IF s = "clone" THEN 3 ELSE 8
  <2>1. pv_run \in TenantRun /\ pv_run.pc = "work" /\ Tenant!Line[pv_run.at] = s
    BY <1>1, <1>2 DEF Tenant!In, Tenant!At, Tenant!Now
  <2>2. pv_run'.pc = pc
    BY <1>2, <2>1 DEF Tenant!RunTo, TenantRun
  <2>3. pv_run.at \in 1..8
    BY <2>1 DEF TenantBuys
  <2>4. pv_run.at \in {1, 2, 3, 4, 5, 6, 7, 8}
    BY <2>3
  <2> QED
    BY <1>2, <2>1, <2>2, <2>4, TenantLine
<1>3. CASE Tenant!BuyNumber
  <2>1. pv_run.pc = "work" /\ pv_run.at = 2 /\ pv_run'.pc # "work"
    BY <1>2, <1>3 DEF Tenant!BuyNumber
  <2> QED
    BY <1>1, <1>3, <2>1 DEF Tenant!BuyNumber
<1>4. CASE Tenant!CloneAgent
  <2>1. pv_run.pc = "work" /\ pv_run.at = 3 /\ pv_run'.pc # "work"
    BY <1>2, <1>4 DEF Tenant!CloneAgent
  <2> QED
    BY <1>1, <1>4, <2>1 DEF Tenant!CloneAgent
<1>5. CASE Tenant!Invite \/ Tenant!MailFails
  <2>1. pv_run.pc = "work" /\ pv_run.at = 8 /\ pv_run'.pc # "work"
    BY <1>2, <1>5 DEF Tenant!Invite, Tenant!MailFails
  <2>2. pv_invited' = pv_invited \/ pv_invited' = pv_invited + 1
    BY <1>5 DEF Tenant!Invite, Tenant!MailFails
  <2>3. UNCHANGED <<pv_vendor, pv_loc>>
    BY <1>5 DEF Tenant!Invite, Tenant!MailFails
  <2> QED
    BY <2>1, <2>2, <2>3
<1>6. CASE ~(Tenant!BuyNumber \/ Tenant!CloneAgent \/ Tenant!Invite \/ Tenant!MailFails)
  <2>1. pv_invited' = pv_invited
    BY <1>6, TenantMoves
  <2>2. pv_vendor'.bought = pv_vendor.bought /\ pv_vendor'.cloned = pv_vendor.cloned
    <3>1. \/ pv_vendor' = pv_vendor
          \/ \E r \in {"agent", "fallback"} : pv_vendor' = [pv_vendor EXCEPT !.routed = r]
          \/ \E n : pv_vendor' = [pv_vendor EXCEPT !.numbers = pv_vendor.numbers \ {n}]
          \/ \E n : pv_vendor' = [pv_vendor EXCEPT !.agents = pv_vendor.agents \ {n}]
      BY <1>6, TenantMoves DEF Tenant!Assign, Tenant!ReleaseNumber, Tenant!ReleaseAgent
    <3> QED
      BY <1>1, <3>1
  <2>3. /\ pv_loc'.number = pv_loc.number \/ pv_loc'.number = pv_vendor.bought + 1
        /\ pv_loc'.assistant = pv_loc.assistant \/ pv_loc'.assistant = pv_vendor.cloned
    BY <1>1, TenantMoves DEF Tenant!SaveNumber, Tenant!SaveAgent, Tenant!FailLocation,
       Tenant!ActivateLocation, Tenant!RetryMark, Tenant!ArchiveLocation, Tenant!Sweep
  <2> QED
    BY <2>1, <2>2, <2>3
<1> QED
  BY <1>3, <1>4, <1>5, <1>6

\* Every step keeps the caps.
LEMMA TenantCappedOn ==
    ASSUME TenantBounds, TenantTypeInv, TenantBuys, TenantWorks, TenantCapped, Tenant!Next
    PROVE  TenantCapped'
<1>1. /\ pv_demands \in Nat /\ pv_mishaps \in Nat /\ pv_invited \in Nat
      /\ pv_vendor.bought \in Nat /\ pv_vendor.cloned \in Nat
      /\ pv_loc.number \in Nat /\ pv_loc.assistant \in Nat
      /\ MaxDemands \in Nat /\ MaxMishaps \in Nat
  BY DEF TenantTypeInv, TenantBounds
<1>2. /\ pv_demands <= MaxDemands /\ pv_mishaps <= MaxMishaps
      /\ pv_vendor.bought + TenantYet(2) <= TenantTotal
      /\ pv_vendor.cloned + TenantYet(3) <= TenantTotal
      /\ pv_invited + TenantYet(8) <= TenantTotal
      /\ pv_loc.number <= pv_vendor.bought + 1
      /\ pv_loc.assistant <= pv_vendor.cloned
  BY DEF TenantCapped
<1>3. pv_demands' <= MaxDemands /\ pv_mishaps' <= MaxMishaps
  BY <1>1, <1>2, TenantMoves
<1>4. /\ \/ pv_vendor'.bought = pv_vendor.bought
         \/ /\ pv_vendor'.bought = pv_vendor.bought + 1
            /\ pv_run.pc = "work" /\ pv_run.at = 2 /\ pv_run'.pc # "work"
      /\ \/ pv_vendor'.cloned = pv_vendor.cloned
         \/ /\ pv_vendor'.cloned = pv_vendor.cloned + 1
            /\ pv_run.pc = "work" /\ pv_run.at = 3 /\ pv_run'.pc # "work"
      /\ \/ pv_invited' = pv_invited
         \/ /\ pv_invited' = pv_invited + 1
            /\ pv_run.pc = "work" /\ pv_run.at = 8 /\ pv_run'.pc # "work"
      /\ pv_loc'.number = pv_loc.number \/ pv_loc'.number = pv_vendor.bought + 1
      /\ pv_loc'.assistant = pv_loc.assistant \/ pv_loc'.assistant = pv_vendor.cloned
  BY TenantSpends
<1>5. pv_vendor'.bought + TenantYet(2)' <= TenantTotal'
  BY <1>1, <1>2, <1>4, TenantPays, 2 \in 1..8
<1>6. pv_vendor'.cloned + TenantYet(3)' <= TenantTotal'
  BY <1>1, <1>2, <1>4, TenantPays, 3 \in 1..8
<1>7. pv_invited' + TenantYet(8)' <= TenantTotal'
  BY <1>1, <1>2, <1>4, TenantPays, 8 \in 1..8
<1>8. pv_loc'.number <= pv_vendor'.bought + 1 /\ pv_loc'.assistant <= pv_vendor'.cloned
  BY <1>1, <1>2, <1>4
<1> QED
  BY <1>3, <1>5, <1>6, <1>7, <1>8 DEF TenantCapped

\* Before the first attempt nothing has been done.
LEMMA TenantInitCaps ==
    ASSUME TenantBounds, Tenant!Init PROVE TenantWorks /\ TenantCapped
<1>1. IsFiniteSet(SetupJobs) /\ SetupAttempts \in Nat \ {0}
      /\ MaxStalls \in Nat /\ MaxDemands \in Nat /\ MaxMishaps \in Nat
  BY DEF TenantBounds
<1>2. pv_run.pc = "none"
  BY DEF Tenant!Init, Tenant!NoRun
<1>3. \A j \in SetupJobs : /\ pv_job[j].failed = 0 /\ pv_job[j].died = 0
                           /\ pv_job[j].state \in {"none", "waiting"}
  <2>1. PICK t \in {"waiting", "none"} : pv_job = [j \in SetupJobs |->
                   [ state |-> IF j = FirstJob THEN t ELSE "none", failed |-> 0,
                     died |-> 0, email |-> j = FirstJob ]]
    BY DEF Tenant!Init
  <2> QED
    BY <2>1
<1>4. TenantTotal = 0
  <2>1. \A j \in SetupJobs : TenantAttempts[j] = 0
    BY <1>3 DEF TenantAttempts, TenantBegun
  <2> QED
    BY <1>1, <2>1, SumZero DEF TenantTotal
<1>5. TenantYet(2) = 0 /\ TenantYet(3) = 0 /\ TenantYet(8) = 0
  BY <1>2 DEF TenantYet
<1>6. /\ pv_demands = 0 /\ pv_mishaps = 0 /\ pv_invited = 0
      /\ pv_vendor.bought = 0 /\ pv_vendor.cloned = 0
      /\ pv_loc.number \in {0, 1} /\ pv_loc.assistant = 0
  BY DEF Tenant!Init, Tenant!Nil, Tenant!BaseNumber
<1>7. TenantWorks
  BY <1>1, <1>2, <1>3 DEF TenantWorks
<1> QED
  BY <1>1, <1>4, <1>5, <1>6, <1>7 DEF TenantCapped

\* A job has as many attempts as it may fail or stall.
LEMMA TenantTotalCap ==
    ASSUME TenantBounds, TenantTypeInv, TenantWorks
    PROVE  TenantTotal \in Nat /\ Tenant!Attempts \in Nat /\ TenantTotal <= Tenant!Attempts
<1> DEFINE c == SetupAttempts + MaxStalls
           one == [j \in SetupJobs |-> 1]
           cap == [j \in SetupJobs |-> c]
<1>1. IsFiniteSet(SetupJobs) /\ SetupAttempts \in Nat \ {0} /\ MaxStalls \in Nat /\ c \in Nat
  BY DEF TenantBounds
<1>2. \A j \in SetupJobs : TenantAttempts[j] \in Nat /\ TenantAttempts[j] <= c
  <2> SUFFICES ASSUME NEW j \in SetupJobs
               PROVE  TenantAttempts[j] \in Nat /\ TenantAttempts[j] <= c
    OBVIOUS
  <2>1. pv_job[j] \in [state : Tenant!JobStates, failed : Nat, died : Nat, email : BOOLEAN]
    BY DEF TenantTypeInv
  <2>2. /\ pv_job[j].failed + pv_job[j].died <= SetupAttempts + MaxStalls
        /\ pv_job[j].state # "failed" =>
             pv_job[j].failed < SetupAttempts /\ pv_job[j].died <= MaxStalls
    BY DEF TenantWorks
  <2>3. TenantAttempts[j] = TenantBegun(j)
    BY DEF TenantAttempts
  <2> QED
    BY <1>1, <2>1, <2>2, <2>3 DEF TenantBegun
<1>3. \A j \in SetupJobs : one[j] = 1 /\ one[j] \in Int /\ cap[j] = c * one[j] /\ cap[j] = c
  BY <1>1
<1> HIDE DEF one, cap, c
<1>4. SumOver(one, SetupJobs) = Cardinality(SetupJobs)
  BY <1>1, <1>3, SumCounts
<1>5. SumOver(cap, SetupJobs) = c * SumOver(one, SetupJobs)
  BY <1>1, <1>3, SumScale
<1>6. \A j \in SetupJobs : TenantAttempts[j] \in Int /\ cap[j] \in Int
                           /\ TenantAttempts[j] <= cap[j]
  BY <1>1, <1>2, <1>3
<1>7. SumOver(TenantAttempts, SetupJobs) <= SumOver(cap, SetupJobs)
  BY <1>1, <1>6, SumCompare
<1>8. SumOver(TenantAttempts, SetupJobs) \in Nat
  BY <1>1, <1>2, SumType
<1>9. Cardinality(SetupJobs) \in Nat /\ Tenant!Cardinality(SetupJobs) = Cardinality(SetupJobs)
  BY <1>1, FS_CardinalityType DEF Tenant!Cardinality, Cardinality
<1>10. Tenant!Attempts = Cardinality(SetupJobs) * (SetupAttempts + MaxStalls)
  BY <1>9 DEF Tenant!Attempts
<1>11. Cardinality(SetupJobs) * c = c * Cardinality(SetupJobs)
       /\ Cardinality(SetupJobs) * c \in Nat
  BY <1>1, <1>9
<1> QED
  BY <1>4, <1>5, <1>7, <1>8, <1>10, <1>11 DEF c, TenantTotal

\* The types of Provisioning, caps included.
LEMMA TenantTypeIsOK ==
    ASSUME TenantBounds, TenantTypeInv, TenantBuys, TenantWorks, TenantCapped
    PROVE  Tenant!TypeOK
<1>1. TenantTotal \in Nat /\ Tenant!Attempts \in Nat /\ TenantTotal <= Tenant!Attempts
  BY TenantTotalCap
<1>2. \A i \in 1..8 : TenantYet(i) \in {0, 1}
  BY DEF TenantYet
<1>3. /\ pv_vendor.bought \in Nat /\ pv_vendor.cloned \in Nat /\ pv_invited \in Nat
      /\ pv_loc.number \in Nat /\ pv_loc.assistant \in Nat
      /\ pv_demands \in Nat /\ pv_mishaps \in Nat
  BY DEF TenantTypeInv
<1>4. /\ pv_loc.number \in 0..(Tenant!Attempts + 1) /\ pv_loc.assistant \in 0..Tenant!Attempts
      /\ pv_invited \in 0..Tenant!Attempts
  <2>1. /\ pv_vendor.bought + TenantYet(2) <= TenantTotal
        /\ pv_vendor.cloned + TenantYet(3) <= TenantTotal
        /\ pv_invited + TenantYet(8) <= TenantTotal
        /\ pv_loc.number <= pv_vendor.bought + 1
        /\ pv_loc.assistant <= pv_vendor.cloned
    BY DEF TenantCapped
  <2>2. TenantYet(2) \in {0, 1} /\ TenantYet(3) \in {0, 1} /\ TenantYet(8) \in {0, 1}
    BY DEF TenantYet
  <2> QED
    BY <1>1, <1>3, <2>1, <2>2
<1>5. pv_loc \in [ status : {"provisioning", "active", "archived"}, error : BOOLEAN,
                   number : 0..(Tenant!Attempts + 1), assistant : 0..Tenant!Attempts ]
  BY <1>4 DEF TenantTypeInv
<1>6. pv_job \in [SetupJobs -> [ state : Tenant!JobStates, failed : 0..SetupAttempts,
                                 died : 0..(MaxStalls + 1), email : BOOLEAN ]]
  <2>1. \A j \in SetupJobs :
          /\ pv_job[j] \in [state : Tenant!JobStates, failed : Nat, died : Nat, email : BOOLEAN]
          /\ pv_job[j].failed <= SetupAttempts /\ pv_job[j].died <= MaxStalls + 1
    BY DEF TenantTypeInv, TenantWorks
  <2>2. SetupAttempts \in Nat /\ MaxStalls \in Nat
    BY DEF TenantBounds
  <2>3. \A j \in SetupJobs :
          /\ pv_job[j].failed \in 0..SetupAttempts /\ pv_job[j].died \in 0..(MaxStalls + 1)
    BY <2>1, <2>2
  <2>4. \A j \in SetupJobs :
          pv_job[j] \in [ state : Tenant!JobStates, failed : 0..SetupAttempts,
                          died : 0..(MaxStalls + 1), email : BOOLEAN ]
    BY <2>1, <2>3
  <2> QED
    BY <2>4 DEF TenantTypeInv
<1>7. pv_demands \in 0..MaxDemands /\ pv_mishaps \in 0..MaxMishaps
  BY <1>3 DEF TenantCapped, TenantBounds
<1>8. pv_run.pc \in Tenant!RunStates /\ pv_ask.pc \in Tenant!AskStates
  BY DEF TenantTypeInv, TenantRun, TenantAsk, Tenant!NoRun, Tenant!NoAsk, Tenant!RunStates,
         Tenant!AskStates
<1>9. pv_step \in [Tenant!StepNames ->
                     [ status : {"absent", "pending", "in_progress", "completed", "failed"},
                       meta : SUBSET Tenant!MetaKeys ]]
  BY DEF TenantTypeInv, TenantStep
<1>10. /\ pv_vendor.numbers \subseteq 1..(pv_vendor.bought + 1)
       /\ pv_vendor.agents \subseteq 1..pv_vendor.cloned
  BY DEF TenantBuys
<1>11. pv_vendor.routed \in {"none", "agent", "fallback"}
  BY DEF TenantTypeInv
<1>12. /\ pv_reuse \in BOOLEAN /\ pv_skipped \subseteq Tenant!StepNames
       /\ pv_org \in [ status : {"provisioning", "active", "suspended", "archived"},
                       deleted : BOOLEAN ]
  BY DEF TenantTypeInv
<1> QED
  BY ONLY <1>4, <1>5, <1>6, <1>7, <1>8, <1>9, <1>10, <1>11, <1>12 DEF Tenant!TypeOK

\* So they are while the tenant stands still.
LEMMA TenantCapsStill ==
    ASSUME TenantWorks, TenantCapped, UNCHANGED Tenant!vars PROVE TenantWorks' /\ TenantCapped'
<1>1. /\ pv_job' = pv_job /\ pv_run' = pv_run /\ pv_demands' = pv_demands
      /\ pv_mishaps' = pv_mishaps /\ pv_vendor' = pv_vendor /\ pv_invited' = pv_invited
      /\ pv_loc' = pv_loc
  BY DEF Tenant!vars
<1>2. TenantAttempts' = TenantAttempts
  BY <1>1 DEF TenantAttempts, TenantBegun
<1>3. TenantTotal' = SumOver(TenantAttempts', SetupJobs)
  BY DEF TenantTotal
<1>4. TenantTotal' = TenantTotal
  BY <1>2, <1>3 DEF TenantTotal
<1>5. \A i : TenantYet(i)' = TenantYet(i)
  BY <1>1 DEF TenantYet
<1>6. TenantWorks'
  BY <1>1 DEF TenantWorks
<1>7. TenantCapped'
  BY <1>1, <1>4, <1>5 DEF TenantCapped
<1> QED
  BY <1>6, <1>7

\* Every column and in-flight state of the four workers keeps its type, with its caps: no
\* counter, cache, queue or purchase grows beyond what the attempts and the requests that are
\* counted allow, for any sets and bounds.  What the tenant has bought, cloned and mailed is
\* at most the attempts its jobs may make (queues.module.ts).
THEOREM WorkersTypeOK == Spec => []TypeOK
<1> DEFINE MenuInv   == MenuIInv /\ MenuAgentInv /\ MenuTight
           TenantInv == TenantIInv /\ TenantWorks /\ TenantCapped
<1>1. Init => MenuInv
  BY MenuStarts, MenuAssumption, MenuInitIInv, MenuInitAgent, MenuInitTight
<1>2. MenuInv /\ [Next]_vars => MenuInv'
  BY MenuSteps, MenuAssumption, MenuNextIInv, MenuNextAgent, MenuNextTight DEF MenuAgentInv
<1>3. Init => TenantInv
  BY TenantAssumption, TenantInitIInv, TenantInitCaps DEF Init
<1>4. TenantInv /\ [Next]_vars => TenantInv'
  <2> SUFFICES ASSUME TenantInv, [Tenant!Next]_(Tenant!vars) PROVE TenantInv'
    BY TenantSteps
  <2>1. TenantIInv'
    BY TenantAssumption, TenantNextIInv
  <2>2. CASE Tenant!Next
    BY <2>1, <2>2, TenantAssumption, TenantWorksOn, TenantCappedOn DEF TenantIInv
  <2>3. CASE UNCHANGED Tenant!vars
    BY <2>1, <2>3, TenantCapsStill
  <2> QED
    BY <2>2, <2>3
<1>5. Init => SyncIInv
  BY SyncStarts, SyncAssumption, SyncInitIInv
<1>6. SyncIInv /\ [Next]_vars => SyncIInv'
  BY SyncSteps, SyncAssumption, SyncNextIInv
<1>7. Init => CallIInv
  BY CallAssumption, CallInitIInv DEF Init
<1>8. CallIInv /\ [Next]_vars => CallIInv'
  BY CallSteps, CallAssumption, CallNextIInv
<1>9. MenuInv /\ TenantInv /\ SyncIInv /\ CallIInv => TypeOK
  <2> SUFFICES ASSUME MenuInv, TenantInv, SyncIInv, CallIInv PROVE TypeOK
    OBVIOUS
  <2>1. Menu!TypeOK
    BY MenuAssumption, MenuTypeIsOK DEF MenuAgentInv
  <2>2. Tenant!TypeOK
    BY TenantAssumption, TenantTypeIsOK DEF TenantIInv
  <2>3. Sync!TypeOK /\ Call!TypeOK
    BY DEF SyncIInv, CallIInv
  <2> QED
    BY <2>1, <2>2, <2>3 DEF TypeOK
<1> QED
  BY <1>1, <1>2, <1>3, <1>4, <1>5, <1>6, <1>7, <1>8, <1>9, PTL DEF Spec
================================================================================
