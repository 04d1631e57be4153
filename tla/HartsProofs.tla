------------------------------ MODULE HartsProofs ------------------------------
(***************************************************************************)
(* Proofs about Harts, for any finite set of harts: the inductive invariant *)
(* HInv and what follows from it.                                          *)
(***************************************************************************)
EXTENDS Harts, TLAPS

USE HartAssumption

(* The two sets of harts the properties speak of, by their members.         *)
LEMMA PushedMembers ==
  \A c : c \in Pushed <=> /\ c \in made
                          /\ \A h \in Hart : at[h] \in {"link", "cas"} => kid[h] # c
BY DEF Pushed

LEMMA NumberedMembers ==
  \A c : c \in Numbered <=> /\ c \in made
                            /\ \A h \in Hart : at[h] \in {"link", "cas", "sid"} => kid[h] # c
BY DEF Numbered

(* The same of the next state.                                              *)
LEMMA PushedMembersNext ==
  \A c : c \in Pushed' <=> /\ c \in made'
                           /\ \A h \in Hart : at'[h] \in {"link", "cas"} => kid'[h] # c
BY DEF Pushed

LEMMA NumberedMembersNext ==
  \A c : c \in Numbered' <=> /\ c \in made'
                             /\ \A h \in Hart : at'[h] \in {"link", "cas", "sid"} => kid'[h] # c
BY DEF Numbered

LEMMA InitHolds == Init => HInv
<1> SUFFICES ASSUME Init PROVE HInv
  OBVIOUS
<1>1. TypeOK
  BY DEF Init, TypeOK, Place, Cloning
<1>2. KidsApart /\ ThreadsMade /\ TidsPublished /\ WalkFindsMain /\ MainEndsProcess
  BY DEF Init, KidsApart, ThreadsMade, TidsPublished, WalkFindsMain, MainEndsProcess
<1>3. Pushed = {Main} /\ Numbered = {Main}
  BY PushedMembers, NumberedMembers DEF Init
<1>4. ListEndsInMain
  BY <1>3 DEF Init, ListEndsInMain
<1>5. SidsDistinct
  BY <1>3 DEF Init, SidsDistinct
<1> QED
  BY <1>1, <1>2, <1>4, <1>5 DEF HInv

(* Both sets stay what they are when the same harts are pushing, and the    *)
(* same are numbering, the same children as before.                         *)
LEMMA PushedUntouched ==
  ASSUME made' = made,
         \A g \in Hart : at'[g] \in {"link", "cas"} <=> at[g] \in {"link", "cas"},
         \A g \in Hart : at[g] \in {"link", "cas"} => kid'[g] = kid[g]
  PROVE  Pushed' = Pushed
<1>1. \A c : c \in Pushed' <=> c \in Pushed
  BY PushedMembers, PushedMembersNext
<1> QED
  BY <1>1

LEMMA NumberedUntouched ==
  ASSUME made' = made,
         \A g \in Hart : at'[g] \in {"link", "cas", "sid"} <=> at[g] \in {"link", "cas", "sid"},
         \A g \in Hart : at[g] \in {"link", "cas", "sid"} => kid'[g] = kid[g]
  PROVE  Numbered' = Numbered
<1>1. \A c : c \in Numbered' <=> c \in Numbered
  BY NumberedMembers, NumberedMembersNext
<1> QED
  BY <1>1

(* A step that leaves alone what the properties of the list are about.      *)
LEMMA ListUntouched ==
  ASSUME HInv, list' = list, next' = next, Pushed' = Pushed,
         \A h \in Hart : at'[h] = "cas" => at[h] = "cas" /\ kid'[h] = kid[h]
  PROVE  ListEndsInMain'
BY DEF HInv, ListEndsInMain

(* A step that leaves alone what the properties of the numbers are about.   *)
LEMMA NumbersUntouched ==
  ASSUME HInv, sid' = sid, numHarts' = numHarts, Numbered' = Numbered
  PROVE  SidsDistinct'
BY DEF HInv, SidsDistinct

(* A step by which no walk advances and no hart is taken off the list.      *)
LEMMA WalksUntouched ==
  ASSUME HInv, p' = p, main_tid' = main_tid, Pushed \subseteq Pushed',
         \A h \in Hart : at'[h] = "walk" => at[h] = "walk"
  PROVE  WalkFindsMain'
BY DEF HInv, WalkFindsMain

(* A step by which no hart stops and none ends the process.                 *)
LEMMA EndUntouched ==
  ASSUME HInv, process' = process,
         \A h \in Hart : at'[h] = at[h]
                         \/ (at[h] \notin {"exited"} /\ at'[h] \notin {"stopped", "exited"})
  PROVE  MainEndsProcess'
BY DEF HInv, MainEndsProcess

(* new hart_t: the new hart is neither on the list nor numbered.           *)
LEMMA CloneKeeps ==
  ASSUME HInv, NEW h \in Hart, NEW c \in Hart, Clone(h, c)
  PROVE  HInv'
<1> USE DEF Clone, exitVars
<1>1. TypeOK'
  BY DEF HInv, TypeOK, Place, Cloning
<1>2. KidsApart'
  BY DEF HInv, TypeOK, KidsApart, ThreadsMade, Cloning, Waiting
<1>3. ThreadsMade'
  BY DEF HInv, TypeOK, KidsApart, ThreadsMade, TidsPublished, Cloning, Waiting
<1>4. TidsPublished'
  BY DEF HInv, TypeOK, KidsApart, ThreadsMade, TidsPublished, Cloning, Waiting
<1>5. Pushed' = Pushed
  <2>1. \A x : x \in Pushed' <=> x \in Pushed
    BY PushedMembers, PushedMembersNext DEF HInv, TypeOK, KidsApart, ThreadsMade
  <2> QED
    BY <2>1
<1>6. ListEndsInMain'
  BY <1>5, ListUntouched DEF HInv, TypeOK, KidsApart
<1>7. Numbered' = Numbered
  <2>1. \A x : x \in Numbered' <=> x \in Numbered
    BY NumberedMembers, NumberedMembersNext DEF HInv, TypeOK, KidsApart, ThreadsMade
  <2> QED
    BY <2>1
<1>8. SidsDistinct'
  BY <1>7, NumbersUntouched
<1>9. WalkFindsMain'
  BY <1>5, WalksUntouched DEF HInv, TypeOK, KidsApart
<1>10. MainEndsProcess'
  BY EndUntouched DEF HInv, TypeOK, KidsApart
<1> QED
  BY <1>1, <1>2, <1>3, <1>4, <1>6, <1>8, <1>9, <1>10 DEF HInv

(* The head of the list that the parent reads is on the list.              *)
LEMMA ReadListKeeps ==
  ASSUME HInv, NEW h \in Hart, ReadList(h)
  PROVE  HInv'
<1> USE DEF ReadList, exitVars
<1>1. TypeOK'
  BY DEF HInv, TypeOK, Place, Cloning
<1>2. KidsApart'
  BY DEF HInv, TypeOK, KidsApart, ThreadsMade, Cloning, Waiting
<1>3. ThreadsMade'
  BY DEF HInv, TypeOK, KidsApart, ThreadsMade, TidsPublished, Cloning, Waiting
<1>4. TidsPublished'
  BY DEF HInv, TypeOK, KidsApart, ThreadsMade, TidsPublished, Cloning, Waiting
<1>5. Pushed' = Pushed
  BY PushedUntouched DEF HInv, TypeOK, KidsApart, ThreadsMade
<1>6. ListEndsInMain'
  <2>1. kid[h] \in Hart \ Pushed /\ kid[h] # Nil
    BY PushedMembers DEF HInv, TypeOK, KidsApart, Cloning
  <2>2. \A x \in Hart : next'[x] = IF x = kid[h] THEN list ELSE next[x]
    BY DEF HInv, TypeOK
  <2>3. \A x \in Pushed : IF x = Main THEN next'[x] = Nil ELSE next'[x] \in Pushed
    BY <2>1, <2>2, PushedMembers DEF HInv, TypeOK, ListEndsInMain
  <2>4. ASSUME NEW g \in Hart, at'[g] = "cas" PROVE next'[kid[g]] \in Pushed
    <3>1. kid[g] \in Hart
      BY <2>4 DEF HInv, TypeOK, KidsApart, Cloning
    <3>2. g # h => at[g] = "cas" /\ kid[g] # kid[h]
      BY <2>1, <2>4 DEF HInv, TypeOK, KidsApart
    <3> QED
      BY <2>2, <3>1, <3>2 DEF HInv, ListEndsInMain
  <2> QED
    BY <1>5, <2>3, <2>4 DEF HInv, ListEndsInMain
<1>7. Numbered' = Numbered
  BY NumberedUntouched DEF HInv, TypeOK, KidsApart, ThreadsMade
<1>8. SidsDistinct'
  BY <1>7, NumbersUntouched
<1>9. WalkFindsMain'
  BY <1>5, WalksUntouched DEF HInv, TypeOK, KidsApart
<1>10. MainEndsProcess'
  BY EndUntouched DEF HInv, TypeOK, KidsApart
<1> QED
  BY <1>1, <1>2, <1>3, <1>4, <1>6, <1>8, <1>9, <1>10 DEF HInv

(* The push: the new head is followed by the old one, or nothing changes.  *)
LEMMA PushListKeeps ==
  ASSUME HInv, NEW h \in Hart, PushList(h)
  PROVE  HInv'
<1> USE DEF PushList, exitVars
<1>1. TypeOK'
  BY DEF HInv, TypeOK, Place, Cloning
<1>2. KidsApart'
  BY DEF HInv, TypeOK, KidsApart, ThreadsMade, Cloning, Waiting
<1>3. ThreadsMade'
  BY DEF HInv, TypeOK, KidsApart, ThreadsMade, TidsPublished, Cloning, Waiting
<1>4. TidsPublished'
  BY DEF HInv, TypeOK, KidsApart, ThreadsMade, TidsPublished, Cloning, Waiting
<1>5. Pushed' = IF list = next[kid[h]] THEN Pushed \cup {kid[h]} ELSE Pushed
  <2>1. kid[h] \in made
    BY DEF HInv, TypeOK, KidsApart, Cloning
  <2>2. CASE list = next[kid[h]]
    <3>1. \A g \in Hart : at'[g] = IF g = h THEN "sid" ELSE at[g]
      BY <2>2 DEF HInv, TypeOK
    <3>2. \A x : x \in Pushed' <=> x \in Pushed \cup {kid[h]}
      BY <2>1, <3>1, PushedMembers, PushedMembersNext DEF HInv, TypeOK, KidsApart, Cloning
    <3> QED
      BY <2>2, <3>2
  <2>3. CASE list # next[kid[h]]
    BY <2>3, PushedUntouched DEF HInv, TypeOK
  <2> QED
    BY <2>2, <2>3
<1>6. ListEndsInMain'
  BY <1>5, PushedMembers DEF HInv, TypeOK, KidsApart, ListEndsInMain, Cloning
<1>7. Numbered' = Numbered
  BY NumberedUntouched DEF HInv, TypeOK, KidsApart, ThreadsMade
<1>8. SidsDistinct'
  BY <1>7, NumbersUntouched
<1>9. WalkFindsMain'
  BY <1>5, WalksUntouched DEF HInv, TypeOK, KidsApart
<1>10. MainEndsProcess'
  BY EndUntouched DEF HInv, TypeOK, KidsApart
<1> QED
  BY <1>1, <1>2, <1>3, <1>4, <1>6, <1>8, <1>9, <1>10 DEF HInv

(* The number taken is one more than all that are in use.                  *)
LEMMA TakeSidKeeps ==
  ASSUME HInv, NEW h \in Hart, TakeSid(h)
  PROVE  HInv'
<1> USE DEF TakeSid, exitVars
<1>1. TypeOK'
  BY DEF HInv, TypeOK, Place, Cloning
<1>2. KidsApart'
  BY DEF HInv, TypeOK, KidsApart, ThreadsMade, Cloning, Waiting
<1>3. ThreadsMade'
  BY DEF HInv, TypeOK, KidsApart, ThreadsMade, TidsPublished, Cloning, Waiting
<1>4. TidsPublished'
  BY DEF HInv, TypeOK, KidsApart, ThreadsMade, TidsPublished, Cloning, Waiting
<1>5. Pushed' = Pushed
  BY PushedUntouched DEF HInv, TypeOK, KidsApart, ThreadsMade
<1>6. ListEndsInMain'
  BY <1>5, ListUntouched DEF HInv, TypeOK, KidsApart
<1>7. Numbered' = Numbered \cup {kid[h]} /\ kid[h] \notin Numbered
  BY NumberedMembers, NumberedMembersNext DEF HInv, TypeOK, KidsApart, ThreadsMade, Cloning
<1>8. SidsDistinct'
  <2>1. /\ numHarts \in Nat /\ numHarts' = numHarts + 1
        /\ sid'[kid[h]] = numHarts
        /\ \A g \in Numbered : sid'[g] = sid[g]
    BY <1>7, NumberedMembers DEF HInv, TypeOK, KidsApart, Cloning
  <2>2. \A g \in Numbered : sid[g] \in 0 .. numHarts - 1
    BY DEF HInv, SidsDistinct
  <2>3. \A g, k \in Numbered' : sid'[g] = sid'[k] => g = k
    BY <1>7, <2>1, <2>2 DEF HInv, SidsDistinct
  <2>4. \A n : n \in {sid'[g] : g \in Numbered'} <=> n = numHarts \/ n \in 0 .. numHarts - 1
    BY <1>7, <2>1 DEF HInv, SidsDistinct
  <2>5. {sid'[g] : g \in Numbered'} = 0 .. numHarts' - 1
    BY <2>1, <2>4
  <2> QED
    BY <2>3, <2>5 DEF SidsDistinct
<1>9. WalkFindsMain'
  BY <1>5, WalksUntouched DEF HInv, TypeOK, KidsApart
<1>10. MainEndsProcess'
  BY EndUntouched DEF HInv, TypeOK, KidsApart
<1> QED
  BY <1>1, <1>2, <1>3, <1>4, <1>6, <1>8, <1>9, <1>10 DEF HInv

(* The thread starts with its id unpublished.                              *)
LEMMA SpawnKeeps ==
  ASSUME HInv, NEW h \in Hart, Spawn(h)
  PROVE  HInv'
<1> USE DEF Spawn, exitVars
<1>a. kid[h] \in made \ {h} /\ at[kid[h]] = "none"
  BY DEF HInv, TypeOK, KidsApart, Cloning, Waiting
<1>b. \A g \in Hart : at'[g] = IF g = kid[h] THEN "born" ELSE IF g = h THEN "wait" ELSE at[g]
  BY <1>a DEF HInv, TypeOK
<1>1. TypeOK'
  BY <1>a, <1>b DEF HInv, TypeOK, Place, Cloning
<1>2. KidsApart'
  BY DEF HInv, TypeOK, KidsApart, ThreadsMade, Cloning, Waiting
<1>3. ThreadsMade'
  BY DEF HInv, TypeOK, KidsApart, ThreadsMade, TidsPublished, Cloning, Waiting
<1>4. TidsPublished'
  BY DEF HInv, TypeOK, KidsApart, ThreadsMade, TidsPublished, Cloning, Waiting
<1> HIDE DEF Spawn
<1>c. /\ at[h] = "spawn"
      /\ UNCHANGED << list, numHarts, made, next, sid, kid, p, main_tid, process >>
  BY DEF Spawn
<1>5. Pushed' = Pushed
  BY <1>a, <1>b, <1>c, PushedUntouched
<1>6. ListEndsInMain'
  BY <1>a, <1>b, <1>c, <1>5, ListUntouched
<1>7. Numbered' = Numbered
  BY <1>a, <1>b, <1>c, NumberedUntouched
<1>8. SidsDistinct'
  BY <1>c, <1>7, NumbersUntouched
<1>9. WalkFindsMain'
  BY <1>a, <1>b, <1>c, <1>5, WalksUntouched
<1>10. MainEndsProcess'
  BY <1>a, <1>b, <1>c, EndUntouched
<1> QED
  BY <1>1, <1>2, <1>3, <1>4, <1>6, <1>8, <1>9, <1>10 DEF HInv

(* The parent goes on only when its child has published its id.            *)
LEMMA TestTidKeeps ==
  ASSUME HInv, NEW h \in Hart, TestTid(h)
  PROVE  HInv'
<1> USE DEF TestTid, exitVars
<1>1. TypeOK'
  BY DEF HInv, TypeOK, Place, Cloning
<1>2. KidsApart'
  BY DEF HInv, TypeOK, KidsApart, ThreadsMade, Cloning, Waiting
<1>3. ThreadsMade'
  BY DEF HInv, TypeOK, KidsApart, ThreadsMade, TidsPublished, Cloning, Waiting
<1>4. TidsPublished'
  BY DEF HInv, TypeOK, KidsApart, ThreadsMade, TidsPublished, Cloning, Waiting
<1>5. Pushed' = Pushed
  BY PushedUntouched DEF HInv, TypeOK, KidsApart, ThreadsMade
<1>6. ListEndsInMain'
  BY <1>5, ListUntouched DEF HInv, TypeOK, KidsApart
<1>7. Numbered' = Numbered
  BY NumberedUntouched DEF HInv, TypeOK, KidsApart, ThreadsMade
<1>8. SidsDistinct'
  BY <1>7, NumbersUntouched
<1>9. WalkFindsMain'
  BY <1>5, WalksUntouched DEF HInv, TypeOK, KidsApart
<1>10. MainEndsProcess'
  BY EndUntouched DEF HInv, TypeOK, KidsApart
<1> QED
  BY <1>1, <1>2, <1>3, <1>4, <1>6, <1>8, <1>9, <1>10 DEF HInv

(* The parent goes to sleep, or tests again.                               *)
LEMMA FutexWaitKeeps ==
  ASSUME HInv, NEW h \in Hart, FutexWait(h)
  PROVE  HInv'
<1> USE DEF FutexWait, exitVars
<1>1. TypeOK'
  BY DEF HInv, TypeOK, Place, Cloning
<1>2. KidsApart'
  BY DEF HInv, TypeOK, KidsApart, ThreadsMade, Cloning, Waiting
<1>3. ThreadsMade'
  BY DEF HInv, TypeOK, KidsApart, ThreadsMade, TidsPublished, Cloning, Waiting
<1>4. TidsPublished'
  BY DEF HInv, TypeOK, KidsApart, ThreadsMade, TidsPublished, Cloning, Waiting
<1>5. Pushed' = Pushed
  BY PushedUntouched DEF HInv, TypeOK, KidsApart, ThreadsMade
<1>6. ListEndsInMain'
  BY <1>5, ListUntouched DEF HInv, TypeOK, KidsApart
<1>7. Numbered' = Numbered
  BY NumberedUntouched DEF HInv, TypeOK, KidsApart, ThreadsMade
<1>8. SidsDistinct'
  BY <1>7, NumbersUntouched
<1>9. WalkFindsMain'
  BY <1>5, WalksUntouched DEF HInv, TypeOK, KidsApart
<1>10. MainEndsProcess'
  BY EndUntouched DEF HInv, TypeOK, KidsApart
<1> QED
  BY <1>1, <1>2, <1>3, <1>4, <1>6, <1>8, <1>9, <1>10 DEF HInv

(* The parent tests again.                                                 *)
LEMMA InterruptedKeeps ==
  ASSUME HInv, NEW h \in Hart, Interrupted(h)
  PROVE  HInv'
<1> USE DEF Interrupted, exitVars
<1>1. TypeOK'
  BY DEF HInv, TypeOK, Place, Cloning
<1>2. KidsApart'
  BY DEF HInv, TypeOK, KidsApart, ThreadsMade, Cloning, Waiting
<1>3. ThreadsMade'
  BY DEF HInv, TypeOK, KidsApart, ThreadsMade, TidsPublished, Cloning, Waiting
<1>4. TidsPublished'
  BY DEF HInv, TypeOK, KidsApart, ThreadsMade, TidsPublished, Cloning, Waiting
<1>5. Pushed' = Pushed
  BY PushedUntouched DEF HInv, TypeOK, KidsApart, ThreadsMade
<1>6. ListEndsInMain'
  BY <1>5, ListUntouched DEF HInv, TypeOK, KidsApart
<1>7. Numbered' = Numbered
  BY NumberedUntouched DEF HInv, TypeOK, KidsApart, ThreadsMade
<1>8. SidsDistinct'
  BY <1>7, NumbersUntouched
<1>9. WalkFindsMain'
  BY <1>5, WalksUntouched DEF HInv, TypeOK, KidsApart
<1>10. MainEndsProcess'
  BY EndUntouched DEF HInv, TypeOK, KidsApart
<1> QED
  BY <1>1, <1>2, <1>3, <1>4, <1>6, <1>8, <1>9, <1>10 DEF HInv

(* The id published is the hart's own.                                     *)
LEMMA PublishTidKeeps ==
  ASSUME HInv, NEW h \in Hart, PublishTid(h)
  PROVE  HInv'
<1> USE DEF PublishTid, exitVars
<1>1. TypeOK'
  BY DEF HInv, TypeOK, Place, Cloning
<1>2. KidsApart'
  BY DEF HInv, TypeOK, KidsApart, ThreadsMade, Cloning, Waiting
<1>3. ThreadsMade'
  BY DEF HInv, TypeOK, KidsApart, ThreadsMade, TidsPublished, Cloning, Waiting
<1>4. TidsPublished'
  BY DEF HInv, TypeOK, KidsApart, ThreadsMade, TidsPublished, Cloning, Waiting
<1>5. Pushed' = Pushed
  BY PushedUntouched DEF HInv, TypeOK, KidsApart, ThreadsMade
<1>6. ListEndsInMain'
  BY <1>5, ListUntouched DEF HInv, TypeOK, KidsApart
<1>7. Numbered' = Numbered
  BY NumberedUntouched DEF HInv, TypeOK, KidsApart, ThreadsMade
<1>8. SidsDistinct'
  BY <1>7, NumbersUntouched
<1>9. WalkFindsMain'
  BY <1>5, WalksUntouched DEF HInv, TypeOK, KidsApart
<1>10. MainEndsProcess'
  BY EndUntouched DEF HInv, TypeOK, KidsApart
<1> QED
  BY <1>1, <1>2, <1>3, <1>4, <1>6, <1>8, <1>9, <1>10 DEF HInv

(* A parent is woken only by its own child.                                *)
LEMMA FutexWakeKeeps ==
  ASSUME HInv, NEW h \in Hart, FutexWake(h)
  PROVE  HInv'
<1> USE DEF FutexWake, exitVars
<1>1. TypeOK'
  BY DEF HInv, TypeOK, Place, Cloning
<1>2. KidsApart'
  BY DEF HInv, TypeOK, KidsApart, ThreadsMade, Cloning, Waiting
<1>3. ThreadsMade'
  BY DEF HInv, TypeOK, KidsApart, ThreadsMade, TidsPublished, Cloning, Waiting
<1>4. TidsPublished'
  BY DEF HInv, TypeOK, KidsApart, ThreadsMade, TidsPublished, Cloning, Waiting
<1>5. Pushed' = Pushed
  BY PushedUntouched DEF HInv, TypeOK, KidsApart, ThreadsMade
<1>6. ListEndsInMain'
  BY <1>5, ListUntouched DEF HInv, TypeOK, KidsApart
<1>7. Numbered' = Numbered
  BY NumberedUntouched DEF HInv, TypeOK, KidsApart, ThreadsMade
<1>8. SidsDistinct'
  BY <1>7, NumbersUntouched
<1>9. WalkFindsMain'
  BY <1>5, WalksUntouched DEF HInv, TypeOK, KidsApart
<1>10. MainEndsProcess'
  BY EndUntouched DEF HInv, TypeOK, KidsApart
<1> QED
  BY <1>1, <1>2, <1>3, <1>4, <1>6, <1>8, <1>9, <1>10 DEF HInv

(* The child enters the guest.                                             *)
LEMMA SetRegistersKeeps ==
  ASSUME HInv, NEW h \in Hart, SetRegisters(h)
  PROVE  HInv'
<1> USE DEF SetRegisters, exitVars
<1>1. TypeOK'
  BY DEF HInv, TypeOK, Place, Cloning
<1>2. KidsApart'
  BY DEF HInv, TypeOK, KidsApart, ThreadsMade, Cloning, Waiting
<1>3. ThreadsMade'
  BY DEF HInv, TypeOK, KidsApart, ThreadsMade, TidsPublished, Cloning, Waiting
<1>4. TidsPublished'
  BY DEF HInv, TypeOK, KidsApart, ThreadsMade, TidsPublished, Cloning, Waiting
<1>5. Pushed' = Pushed
  BY PushedUntouched DEF HInv, TypeOK, KidsApart, ThreadsMade
<1>6. ListEndsInMain'
  BY <1>5, ListUntouched DEF HInv, TypeOK, KidsApart
<1>7. Numbered' = Numbered
  BY NumberedUntouched DEF HInv, TypeOK, KidsApart, ThreadsMade
<1>8. SidsDistinct'
  BY <1>7, NumbersUntouched
<1>9. WalkFindsMain'
  BY <1>5, WalksUntouched DEF HInv, TypeOK, KidsApart
<1>10. MainEndsProcess'
  BY EndUntouched DEF HInv, TypeOK, KidsApart
<1> QED
  BY <1>1, <1>2, <1>3, <1>4, <1>6, <1>8, <1>9, <1>10 DEF HInv

(* A walk starts at the head of the list.                                  *)
LEMMA ExitCallKeeps ==
  ASSUME HInv, NEW h \in Hart, NEW sysnum \in {"SYS_exit", "SYS_exit_group"}, ExitCall(h, sysnum)
  PROVE  HInv'
<1> USE DEF ExitCall, exitVars
<1>1. TypeOK'
  BY DEF HInv, TypeOK, Place, Cloning
<1>2. KidsApart'
  BY DEF HInv, TypeOK, KidsApart, ThreadsMade, Cloning, Waiting
<1>3. ThreadsMade'
  BY DEF HInv, TypeOK, KidsApart, ThreadsMade, TidsPublished, Cloning, Waiting
<1>4. TidsPublished'
  BY DEF HInv, TypeOK, KidsApart, ThreadsMade, TidsPublished, Cloning, Waiting
<1>5. Pushed' = Pushed
  BY PushedUntouched DEF HInv, TypeOK, KidsApart, ThreadsMade
<1>6. ListEndsInMain'
  BY <1>5, ListUntouched DEF HInv, TypeOK, KidsApart
<1>7. Numbered' = Numbered
  BY NumberedUntouched DEF HInv, TypeOK, KidsApart, ThreadsMade
<1>8. SidsDistinct'
  BY <1>7, NumbersUntouched
<1>9. WalkFindsMain'
  BY <1>5, PushedMembers DEF HInv, TypeOK, ThreadsMade, TidsPublished, ListEndsInMain, WalkFindsMain
<1>10. MainEndsProcess'
  BY EndUntouched DEF HInv, TypeOK, KidsApart
<1> QED
  BY <1>1, <1>2, <1>3, <1>4, <1>6, <1>8, <1>9, <1>10 DEF HInv

(* A walk that leaves the main hart has its id; any other step stays on the list.*)
LEMMA WalkListKeeps ==
  ASSUME HInv, NEW h \in Hart, WalkList(h)
  PROVE  HInv'
<1> USE DEF WalkList, exitVars
<1>1. TypeOK'
  BY DEF HInv, TypeOK, Place, Cloning
<1>2. KidsApart'
  BY DEF HInv, TypeOK, KidsApart, ThreadsMade, Cloning, Waiting
<1>3. ThreadsMade'
  BY DEF HInv, TypeOK, KidsApart, ThreadsMade, TidsPublished, Cloning, Waiting
<1>4. TidsPublished'
  BY DEF HInv, TypeOK, KidsApart, ThreadsMade, TidsPublished, Cloning, Waiting
<1>5. Pushed' = Pushed
  BY PushedUntouched DEF HInv, TypeOK, KidsApart, ThreadsMade
<1>6. ListEndsInMain'
  BY <1>5, ListUntouched DEF HInv, TypeOK, KidsApart
<1>7. Numbered' = Numbered
  BY NumberedUntouched DEF HInv, TypeOK, KidsApart, ThreadsMade
<1>8. SidsDistinct'
  BY <1>7, NumbersUntouched
<1>9. WalkFindsMain'
  <2>1. Pushed \subseteq Hart /\ tid[Main] = Main
    BY PushedMembers DEF HInv, TypeOK, KidsApart, ThreadsMade, TidsPublished
  <2>2. p[h] \in Pushed
    BY DEF HInv, WalkFindsMain
  <2>3. p'[h] \in Pushed \/ (p'[h] = Nil /\ main_tid'[h] = Main)
    BY <2>1, <2>2 DEF HInv, TypeOK, ListEndsInMain
  <2> QED
    BY <1>5, <2>3 DEF HInv, TypeOK, WalkFindsMain
<1>10. MainEndsProcess'
  BY EndUntouched DEF HInv, TypeOK, KidsApart
<1> QED
  BY <1>1, <1>2, <1>3, <1>4, <1>6, <1>8, <1>9, <1>10 DEF HInv

(* A walk that ends has found the main hart, which does not stop.          *)
LEMMA StopKeeps ==
  ASSUME HInv, NEW h \in Hart, Stop(h)
  PROVE  HInv'
<1> USE DEF Stop, exitVars
<1>1. TypeOK'
  BY DEF HInv, TypeOK, Place, Cloning
<1>2. KidsApart'
  BY DEF HInv, TypeOK, KidsApart, ThreadsMade, Cloning, Waiting
<1>3. ThreadsMade'
  BY DEF HInv, TypeOK, KidsApart, ThreadsMade, TidsPublished, Cloning, Waiting
<1>4. TidsPublished'
  BY DEF HInv, TypeOK, KidsApart, ThreadsMade, TidsPublished, Cloning, Waiting
<1>5. Pushed' = Pushed
  BY PushedUntouched DEF HInv, TypeOK, KidsApart, ThreadsMade
<1>6. ListEndsInMain'
  BY <1>5, ListUntouched DEF HInv, TypeOK, KidsApart
<1>7. Numbered' = Numbered
  BY NumberedUntouched DEF HInv, TypeOK, KidsApart, ThreadsMade
<1>8. SidsDistinct'
  BY <1>7, NumbersUntouched
<1>9. WalkFindsMain'
  BY <1>5, WalksUntouched DEF HInv, TypeOK, KidsApart
<1>10. MainEndsProcess'
  <2>1. main_tid[h] = Main
    BY PushedMembers DEF HInv, TypeOK, WalkFindsMain
  <2> QED
    BY <2>1 DEF HInv, TypeOK, MainEndsProcess
<1> QED
  BY <1>1, <1>2, <1>3, <1>4, <1>6, <1>8, <1>9, <1>10 DEF HInv

(* A walk that ends has found the main hart, which alone exits.            *)
LEMMA ExitKeeps ==
  ASSUME HInv, NEW h \in Hart, Exit(h)
  PROVE  HInv'
<1> USE DEF Exit, exitVars
<1>1. TypeOK'
  BY DEF HInv, TypeOK, Place, Cloning
<1>2. KidsApart'
  BY DEF HInv, TypeOK, KidsApart, ThreadsMade, Cloning, Waiting
<1>3. ThreadsMade'
  BY DEF HInv, TypeOK, KidsApart, ThreadsMade, TidsPublished, Cloning, Waiting
<1>4. TidsPublished'
  BY DEF HInv, TypeOK, KidsApart, ThreadsMade, TidsPublished, Cloning, Waiting
<1>5. Pushed' = Pushed
  BY PushedUntouched DEF HInv, TypeOK, KidsApart, ThreadsMade
<1>6. ListEndsInMain'
  BY <1>5, ListUntouched DEF HInv, TypeOK, KidsApart
<1>7. Numbered' = Numbered
  BY NumberedUntouched DEF HInv, TypeOK, KidsApart, ThreadsMade
<1>8. SidsDistinct'
  BY <1>7, NumbersUntouched
<1>9. WalkFindsMain'
  BY <1>5, WalksUntouched DEF HInv, TypeOK, KidsApart
<1>10. MainEndsProcess'
  <2>1. main_tid[h] = Main
    BY PushedMembers DEF HInv, TypeOK, WalkFindsMain
  <2> QED
    BY <2>1 DEF HInv, TypeOK, MainEndsProcess
<1> QED
  BY <1>1, <1>2, <1>3, <1>4, <1>6, <1>8, <1>9, <1>10 DEF HInv

--------------------------------------------------------------------------------
LEMMA StutterKeeps == HInv /\ UNCHANGED vars => HInv'
<1> SUFFICES ASSUME HInv, UNCHANGED vars PROVE HInv'
  OBVIOUS
<1> USE DEF vars
<1>1. TypeOK' /\ KidsApart' /\ ThreadsMade' /\ TidsPublished'
  BY DEF HInv, TypeOK, KidsApart, ThreadsMade, TidsPublished
<1>2. Pushed' = Pushed /\ Numbered' = Numbered
  BY PushedUntouched, NumberedUntouched
<1>3. ListEndsInMain' /\ SidsDistinct' /\ WalkFindsMain' /\ MainEndsProcess'
  BY <1>2, ListUntouched, NumbersUntouched, WalksUntouched, EndUntouched
<1> QED
  BY <1>1, <1>3 DEF HInv

LEMMA NextKeeps == HInv /\ [Next]_vars => HInv'
<1> SUFFICES ASSUME HInv, [Next]_vars PROVE HInv'
  OBVIOUS
<1>1. ASSUME NEW h \in Hart, Simulator(h) PROVE HInv'
  BY <1>1, ReadListKeeps, PushListKeeps, TakeSidKeeps, SpawnKeeps, TestTidKeeps,
     FutexWaitKeeps, PublishTidKeeps, FutexWakeKeeps, SetRegistersKeeps,
     WalkListKeeps, StopKeeps, ExitKeeps DEF Simulator
<1>2. ASSUME NEW h \in Hart, Guest(h) PROVE HInv'
  BY <1>2, CloneKeeps, ExitCallKeeps DEF Guest
<1>3. ASSUME NEW h \in Hart, Interrupted(h) PROVE HInv'
  BY <1>3, InterruptedKeeps
<1> QED
  BY <1>1, <1>2, <1>3, StutterKeeps DEF Next

(* The thread group stays consistent, however many harts clone and exit at  *)
(* the same time.                                                           *)
THEOREM ThreadGroupInvariant == Spec => []HInv
<1> QED
  BY InitHolds, NextKeeps, PTL DEF Spec

(* Every variable keeps to its set.                                         *)
THEOREM TypesHold == Spec => []TypeOK
<1>1. HInv => TypeOK
  BY DEF HInv
<1> QED
  BY <1>1, ThreadGroupInvariant, PTL

(* No two harts get the same number and none is skipped, although a hart is *)
(* pushed and numbered in two separate atomic operations.                   *)
THEOREM NumbersAreDistinct == Spec => []SidsDistinct
<1>1. HInv => SidsDistinct
  BY DEF HInv
<1> QED
  BY <1>1, ThreadGroupInvariant, PTL

(* The main hart's exit ends the process and no other hart's does.          *)
THEOREM OnlyMainEndsProcess == Spec => []MainEndsProcess
<1>1. HInv => MainEndsProcess
  BY DEF HInv
<1> QED
  BY <1>1, ThreadGroupInvariant, PTL

(* A parent never returns from clone before its child is published, with    *)
(* whatever the heap left in the child's _tid.                              *)
THEOREM CloneWaitsForChild == Spec => []CloneIsSynchronous
<1>1. HInv => CloneIsSynchronous
  <2> SUFFICES ASSUME HInv, NEW c \in made, at[c] \in {"none", "born"} \/ tid[c] # c
               PROVE  \E h \in Hart : kid[h] = c /\ at[h] \in Cloning
    BY DEF CloneIsSynchronous
  <2>1. c \in Hart /\ c # Nil
    BY DEF HInv, TypeOK
  <2>2. PICK h \in Hart : kid[h] = c
    BY <2>1 DEF HInv, ThreadsMade, TidsPublished
  <2> QED
    BY <2>1, <2>2 DEF HInv, TypeOK
<1> QED
  BY <1>1, ThreadGroupInvariant, PTL

--------------------------------------------------------------------------------
(* The list holds every hart that was pushed.                               *)

(* Only a push that succeeds changes what is on the list.                   *)
LEMMA OnlyPushListPushes ==
  ASSUME HInv, NEW h \in Hart, Simulator(h) \/ Guest(h) \/ Interrupted(h),
         ~(PushList(h) /\ list = next[kid[h]])
  PROVE  Pushed' = Pushed /\ list' = list /\ \A g \in Pushed : next'[g] = next[g]
<1> USE DEF HInv, TypeOK, KidsApart, ThreadsMade
<1>1. CASE ReadList(h)
  <2>1. Pushed' = Pushed
    BY <1>1, PushedUntouched DEF ReadList
  <2>2. kid[h] \notin Pushed
    BY <1>1, PushedMembers DEF ReadList
  <2> QED
    BY <1>1, <2>1, <2>2, PushedMembers DEF ReadList
<1>2. CASE PushList(h)
  BY <1>2, PushedUntouched DEF PushList
<1>3. CASE TakeSid(h)
  BY <1>3, PushedUntouched DEF TakeSid
<1>4. CASE Spawn(h)
  <2>1. at[kid[h]] = "none" /\ kid[h] \in Hart
    BY <1>4 DEF Spawn, Cloning, Waiting
  <2> QED
    BY <1>4, <2>1, PushedUntouched DEF Spawn
<1>5. CASE TestTid(h)
  BY <1>5, PushedUntouched DEF TestTid
<1>6. CASE FutexWait(h)
  BY <1>6, PushedUntouched DEF FutexWait
<1>7. CASE PublishTid(h)
  BY <1>7, PushedUntouched DEF PublishTid
<1>8. CASE FutexWake(h)
  BY <1>8, PushedUntouched DEF FutexWake
<1>9. CASE SetRegisters(h)
  BY <1>9, PushedUntouched DEF SetRegisters
<1>10. CASE WalkList(h)
  BY <1>10, PushedUntouched DEF WalkList
<1>11. CASE Stop(h)
  BY <1>11, PushedUntouched DEF Stop, exitVars
<1>12. CASE Exit(h)
  BY <1>12, PushedUntouched DEF Exit
<1>13. CASE Interrupted(h)
  BY <1>13, PushedUntouched DEF Interrupted
<1>14. ASSUME NEW sysnum \in {"SYS_exit", "SYS_exit_group"}, ExitCall(h, sysnum)
       PROVE  Pushed' = Pushed /\ list' = list /\ next' = next
  BY <1>14, PushedUntouched DEF ExitCall
<1>15. ASSUME NEW c \in Hart, Clone(h, c)
       PROVE  Pushed' = Pushed /\ list' = list /\ next' = next
  <2>1. \A x : x \in Pushed' <=> x \in Pushed
    BY <1>15, PushedMembers, PushedMembersNext DEF Clone
  <2>2. Pushed' = Pushed
    BY <2>1, Zenon
  <2> QED
    BY <1>15, <2>2 DEF Clone
<1> QED
  BY <1>1, <1>2, <1>3, <1>4, <1>5, <1>6, <1>7, <1>8, <1>9, <1>10, <1>11, <1>12, <1>13,
     <1>14, <1>15 DEF Simulator, Guest

(* A hart that is pushed is before all that were there: a set that holds    *)
(* the walk from it holds, without it, the walk from the old head.          *)
LEMMA PushAddsOne ==
  ASSUME HInv, NoHartLost, NEW h \in Hart, PushList(h), list = next[kid[h]]
  PROVE  NoHartLost'
<1>1. /\ list' = kid[h] /\ next' = next /\ at' = [at EXCEPT ![h] = "sid"]
      /\ kid' = kid /\ made' = made /\ kid[h] \in made /\ kid[h] \notin Pushed
  BY PushedMembers DEF PushList, HInv, TypeOK, KidsApart, Cloning
<1>2. Pushed' = Pushed \cup {kid[h]}
  <2>1. \A g \in Hart : at'[g] = IF g = h THEN "sid" ELSE at[g]
    BY <1>1 DEF HInv, TypeOK
  <2>2. \A x : x \in Pushed' <=> x \in Pushed \cup {kid[h]}
    BY <1>1, <2>1, PushedMembers, PushedMembersNext DEF PushList, HInv, TypeOK, KidsApart, Cloning
  <2> QED
    BY <2>2
<1>3. HoldsWalk(Pushed)'
  BY <1>1, <1>2 DEF NoHartLost, HoldsWalk
<1>4. ASSUME NEW S \in SUBSET Pushed', kid[h] \in S, \A g \in S : next[g] \in S \cup {Nil}
      PROVE  S = Pushed'
  <2>1. list \in Pushed /\ \A g \in Pushed : next[g] \in Pushed \cup {Nil}
    BY DEF NoHartLost, HoldsWalk
  <2>2. kid[h] # Nil /\ list # Nil
    BY DEF PushList, HInv, TypeOK, Cloning
  <2>3. S \ {kid[h]} \in SUBSET Pushed /\ HoldsWalk(S \ {kid[h]})
    BY <1>1, <1>2, <1>4, <2>1, <2>2 DEF HoldsWalk
  <2>4. S \ {kid[h]} = Pushed
    BY <2>3 DEF NoHartLost
  <2> QED
    BY <1>2, <1>4, <2>4
<1>5. \A S \in SUBSET Pushed' : HoldsWalk(S)' => S = Pushed'
  BY <1>1, <1>4 DEF HoldsWalk
<1>6. \E g \in Pushed' : next'[g] = Nil
  BY <1>1, <1>2 DEF NoHartLost
<1> QED
  BY <1>3, <1>5, <1>6 DEF NoHartLost

LEMMA ListKept ==
  ASSUME NoHartLost, Pushed' = Pushed, list' = list, \A g \in Pushed : next'[g] = next[g]
  PROVE  NoHartLost'
<1>1. \A S \in SUBSET Pushed : HoldsWalk(S)' <=> HoldsWalk(S)
  BY DEF HoldsWalk
<1> QED
  BY <1>1 DEF NoHartLost

(* However many harts clone at once, the list holds every hart that has     *)
(* been pushed, and holds it once (hart.cc initialize()).                   *)
THEOREM ListIsComplete == Spec => []NoHartLost
<1>1. Init => NoHartLost
  <2> SUFFICES ASSUME Init PROVE NoHartLost
    OBVIOUS
  <2>1. Pushed = {Main}
    BY PushedMembers DEF Init
  <2> QED
    BY <2>1 DEF Init, NoHartLost, HoldsWalk
<1>2. HInv /\ NoHartLost /\ [Next]_vars => NoHartLost'
  <2> SUFFICES ASSUME HInv, NoHartLost, [Next]_vars PROVE NoHartLost'
    OBVIOUS
  <2>1. CASE UNCHANGED vars
    <3>1. Pushed' = Pushed
      BY <2>1, PushedUntouched DEF vars
    <3> QED
      BY <2>1, <3>1, ListKept DEF vars
  <2>2. ASSUME NEW h \in Hart, Simulator(h) \/ Guest(h) \/ Interrupted(h)
        PROVE  NoHartLost'
    BY <2>2, OnlyPushListPushes, PushAddsOne, ListKept
  <2> QED
    BY <2>1, <2>2 DEF Next
<1> QED
  BY <1>1, <1>2, ThreadGroupInvariant, PTL DEF Spec

--------------------------------------------------------------------------------
(* The futex handshake.                                                     *)

(* A hart that sleeps has a hart in hand, and no other hart has the same.   *)
LEMMA SleeperHasKid ==
  ASSUME HInv, NEW h \in Hart, at[h] = "asleep"
  PROVE  /\ kid[h] \in Hart
         /\ \A g \in Hart : kid[g] = kid[h] => g = h
BY DEF HInv, TypeOK, KidsApart, ThreadsMade, Cloning, Waiting

(* A child that is to make the wake-up only leaves "wake" by making it.     *)
LEMMA SleepersKept ==
  ASSUME HInv, SleepersAreWoken, NEW h \in Hart, Simulator(h) \/ Guest(h) \/ Interrupted(h)
  PROVE  SleepersAreWoken'
<1> USE DEF HInv, TypeOK
<1>1. CASE ReadList(h)
  BY <1>1, SleeperHasKid DEF ReadList, SleepersAreWoken, KidsApart, ThreadsMade,
                                TidsPublished, Cloning, Waiting
<1>2. CASE PushList(h)
  BY <1>2, SleeperHasKid DEF PushList, SleepersAreWoken, KidsApart, ThreadsMade,
                                TidsPublished, Cloning, Waiting
<1>3. CASE TakeSid(h)
  BY <1>3, SleeperHasKid DEF TakeSid, SleepersAreWoken, KidsApart, ThreadsMade,
                                TidsPublished, Cloning, Waiting
<1>4. CASE Spawn(h)
  BY <1>4, SleeperHasKid DEF Spawn, SleepersAreWoken, KidsApart, ThreadsMade,
                                TidsPublished, Cloning, Waiting
<1>5. CASE TestTid(h)
  BY <1>5, SleeperHasKid DEF TestTid, SleepersAreWoken, KidsApart, ThreadsMade,
                                TidsPublished, Cloning, Waiting
<1>6. CASE FutexWait(h)
  BY <1>6, SleeperHasKid DEF FutexWait, SleepersAreWoken, KidsApart, ThreadsMade,
                                TidsPublished, Cloning, Waiting
<1>7. CASE PublishTid(h)
  BY <1>7, SleeperHasKid DEF PublishTid, SleepersAreWoken, KidsApart, ThreadsMade,
                                TidsPublished, Cloning, Waiting
<1>8. CASE FutexWake(h)
  BY <1>8, SleeperHasKid DEF FutexWake, SleepersAreWoken, KidsApart, ThreadsMade,
                                TidsPublished, Cloning, Waiting
<1>9. CASE SetRegisters(h)
  BY <1>9, SleeperHasKid DEF SetRegisters, SleepersAreWoken, KidsApart, ThreadsMade,
                                TidsPublished, Cloning, Waiting
<1>10. CASE WalkList(h)
  BY <1>10, SleeperHasKid DEF WalkList, SleepersAreWoken, KidsApart, ThreadsMade,
                                TidsPublished, Cloning, Waiting
<1>11. CASE Stop(h)
  BY <1>11, SleeperHasKid DEF Stop, SleepersAreWoken, KidsApart, ThreadsMade,
                                TidsPublished, Cloning, Waiting
<1>12. CASE Exit(h)
  BY <1>12, SleeperHasKid DEF Exit, SleepersAreWoken, KidsApart, ThreadsMade,
                                TidsPublished, Cloning, Waiting
<1>13. CASE Interrupted(h)
  BY <1>13, SleeperHasKid DEF Interrupted, SleepersAreWoken, KidsApart, ThreadsMade,
                                TidsPublished, Cloning, Waiting
<1>14. ASSUME NEW sysnum \in {"SYS_exit", "SYS_exit_group"}, ExitCall(h, sysnum)
       PROVE  SleepersAreWoken'
  BY <1>14, SleeperHasKid DEF ExitCall, SleepersAreWoken
<1>15. ASSUME NEW c \in Hart, Clone(h, c)
       PROVE  SleepersAreWoken'
  BY <1>15, SleeperHasKid DEF Clone, SleepersAreWoken
<1> QED
  BY <1>1, <1>2, <1>3, <1>4, <1>5, <1>6, <1>7, <1>8, <1>9, <1>10, <1>11, <1>12, <1>13,
     <1>14, <1>15 DEF Simulator, Guest

(* No wake-up is lost: whenever a parent sleeps in clone, the child has not *)
(* made its FUTEX_WAKE yet (clone_thread(), thread_interpreter()).          *)
THEOREM NoWakeUpLost == Spec => []SleepersAreWoken
<1>1. Init => SleepersAreWoken
  BY DEF Init, SleepersAreWoken
<1>2. HInv /\ SleepersAreWoken /\ [Next]_vars => SleepersAreWoken'
  <2> SUFFICES ASSUME HInv, SleepersAreWoken, [Next]_vars PROVE SleepersAreWoken'
    OBVIOUS
  <2>1. CASE UNCHANGED vars
    BY <2>1 DEF vars, SleepersAreWoken
  <2> QED
    BY <2>1, SleepersKept DEF Next
<1> QED
  BY <1>1, <1>2, ThreadGroupInvariant, PTL DEF Spec
================================================================================
