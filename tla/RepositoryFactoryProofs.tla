----------------------- MODULE RepositoryFactoryProofs -----------------------
(***************************************************************************)
(* The first part is about SessionEtag alone: for every finite set of      *)
(* contexts, the counter of etag contexts counts them, their requests go   *)
(* through one open cache, and the last one out leaves the session as it   *)
(* was.  The second is about repository_factory, for every list of stores  *)
(* and every size of the pool: it uses the session only in the ways that   *)
(* SessionEtag allows, so that what is proved of any contexts holds of its *)
(* threads; it leaves no thread and no cache behind, whether it returns or *)
(* raises; and what it returns is every package of every index.            *)
(***************************************************************************)
EXTENDS RepositoryFactory, FiniteSetTheorems, SequenceTheorems, TLAPS

(* The adapters of prefix p: as Session.__init__ mounted them, or with the *)
(* one of cache d on top.                                                  *)
Bare(p) == stack[p] = <<Plain>> /\ adapter[p] = Plain
Mounted(p, d) == stack[p] = <<d, Plain>> /\ adapter[p] = d

AllBare == caches = {} /\ Bare("http://") /\ Bare("https://")
AllMounted ==
    \E d \in Contexts :
        caches = {d} /\ Mounted("http://", d) /\ Mounted("https://", d)

(* How things are when no thread is changing them. *)
AtRest == IF count = 0 THEN AllBare ELSE AllMounted

MutualExclusion == \A c \in Contexts : pc[c] \in Locked <=> lock = c

BothIn == <<"http://", "https://">>
BothOut == <<"https://", "http://">>

(* How far the owner of the lock has come. *)
Mounting(c) ==
    /\ count = 0 /\ caches = {c} /\ Bare("https://")
    /\ \/ todo[c] = BothIn /\ Bare("http://")
       \/ todo[c] = <<"https://">> /\ Mounted("http://", c)
Umounting(c) ==
    /\ count = 1
    /\ \/ todo[c] = BothOut /\ AllMounted
       \/ /\ todo[c] = <<"http://">> /\ caches = {} /\ Bare("https://")
          /\ \E d \in Contexts : Mounted("http://", d)
Restoring(c) ==
    /\ count = 1 /\ held[c] \in Contexts /\ stack["https://"] = <<Plain>>
    /\ \/ todo[c] = BothOut /\ caches = {held[c]} /\ Mounted("http://", held[c])
       \/ todo[c] = <<"http://">> /\ caches = {} /\ stack["http://"] = <<Plain>>
          /\ Bare("https://")
Closing(c) ==
    /\ count = 1 /\ held[c] \in Contexts /\ Bare("https://")
    /\ \/ todo[c] = BothOut /\ caches = {held[c]} /\ Mounted("http://", held[c])
       \/ todo[c] = <<"http://">> /\ caches = {} /\ Bare("http://")

Layout ==
    /\ lock = None => AtRest
    /\ \A c \in Contexts :
        /\ pc[c] \in {"setup", "tear"} => AtRest
        /\ pc[c] = "mount" => Mounting(c)
        /\ pc[c] = "count" => AllMounted
        /\ pc[c] = "umount" => Umounting(c)
        /\ pc[c] = "restore" => Restoring(c)
        /\ pc[c] = "close" => Closing(c)
        /\ pc[c] = "uncount" => IF count = 1 THEN AllBare ELSE AllMounted

IInv ==
    /\ TypeOK /\ MutualExclusion /\ CountsOccupants /\ Layout
    /\ ServedThroughCache

(* The loops of _etag_setup and _etag_tear over the two prefixes. *)
LEMMA LoopSteps ==
    /\ Head(BothIn) = "http://" /\ Tail(BothIn) = <<"https://">>
    /\ Head(BothOut) = "https://" /\ Tail(BothOut) = <<"http://">>
    /\ Head(<<"http://">>) = "http://" /\ Tail(<<"http://">>) = <<>>
    /\ Head(<<"https://">>) = "https://" /\ Tail(<<"https://">>) = <<>>
  <1>1. /\ Head(BothIn) = "http://" /\ Tail(BothIn) = <<"https://">>
        /\ Head(BothOut) = "https://" /\ Tail(BothOut) = <<"http://">>
    BY DEF BothIn, BothOut
  <1>2. /\ Head(<<"http://">>) = "http://" /\ Tail(<<"http://">>) = <<>>
        /\ Head(<<"https://">>) = "https://" /\ Tail(<<"https://">>) = <<>>
    OBVIOUS
  <1> QED BY <1>1, <1>2

(* The loops are told apart by what is left of them. *)
LEMMA LoopsDiffer ==
    /\ {<<>>, <<"http://">>, <<"https://">>, BothIn, BothOut} = Loops
    /\ <<"http://">> # <<>> /\ <<"https://">> # <<>>
    /\ BothIn # <<"https://">> /\ BothOut # <<"http://">>
  BY DEF BothIn, BothOut, Loops

(* Mounting pushes an adapter on the one of Session.__init__. *)
LEMMA Push ==
    ASSUME NEW c \in Contexts
    PROVE  <<c>> \o <<Plain>> = <<c, Plain>>
  <1> DEFINE Adapters == Contexts \cup {Plain}
  <1>1. <<c>> \in Seq(Adapters) /\ <<Plain>> \in Seq(Adapters)
        /\ <<c, Plain>> \in Seq(Adapters)
    OBVIOUS
  <1>2. /\ <<c>> \o <<Plain>> \in Seq(Adapters)
        /\ Len(<<c>> \o <<Plain>>) = Len(<<c>>) + Len(<<Plain>>)
        /\ \A i \in 1..Len(<<c>>) + Len(<<Plain>>) : (<<c>> \o <<Plain>>)[i] =
              IF i <= Len(<<c>>) THEN <<c>>[i] ELSE <<Plain>>[i - Len(<<c>>)]
    BY <1>1, ConcatProperties, Zenon
  <1>3. Len(<<c>>) = 1 /\ Len(<<Plain>>) = 1 /\ Len(<<c, Plain>>) = 2
    OBVIOUS
  <1>4. Len(<<c>> \o <<Plain>>) = 2
        /\ \A i \in 1..2 : (<<c>> \o <<Plain>>)[i] = <<c, Plain>>[i]
    BY <1>2, <1>3
  <1> QED BY <1>1, <1>2, <1>3, <1>4, SeqEqual

(* Umounting takes it off again. *)
LEMMA Pop ==
    ASSUME NEW c \in Contexts
    PROVE  /\ Head(<<c, Plain>>) = c /\ Tail(<<c, Plain>>) = <<Plain>>
           /\ Head(<<Plain>>) = Plain /\ <<Plain>> # <<>>
           /\ <<Plain>> \in Stacks /\ <<c, Plain>> \in Stacks
  <1>1. Head(<<c, Plain>>) = c /\ Tail(<<c, Plain>>) = <<Plain>>
    OBVIOUS
  <1>2. Head(<<Plain>>) = Plain /\ <<Plain>> # <<>>
    OBVIOUS
  <1> QED BY <1>1, <1>2 DEF Stacks

(* The counter tells whether a context is the only one inside. *)
LEMMA FewOccupants ==
    ASSUME CountsOccupants
    PROVE  /\ IsFiniteSet(Occupants)
           /\ count \in Nat
           /\ count = 0 <=> Occupants = {}
           /\ \A c \in Occupants : count = 1 => Occupants = {c}
  <1>1. IsFiniteSet(Occupants)
    BY EtagAssumption, FS_Subset DEF Occupants
  <1>2. count \in Nat
    BY <1>1, FS_CardinalityType DEF CountsOccupants
  <1>3. count = 0 <=> Occupants = {}
    BY <1>1, FS_EmptySet DEF CountsOccupants
  <1>4. ASSUME NEW c \in Occupants, count = 1 PROVE Occupants = {c}
    <2>1. PICK x : Occupants = {x}
      BY <1>1, <1>4, FS_Singleton DEF CountsOccupants
    <2> QED BY <2>1
  <1> QED BY <1>1, <1>2, <1>3, <1>4

(* Counting a context in, or out. *)
LEMMA CountMoves ==
    ASSUME CountsOccupants, NEW c \in Contexts
    PROVE  /\ c \notin Occupants /\ Occupants' = Occupants \cup {c}
              /\ count' = count + 1 => CountsOccupants'
           /\ c \in Occupants /\ Occupants' = Occupants \ {c}
              /\ count' = count - 1 => CountsOccupants'
  <1>1. IsFiniteSet(Occupants)
    BY FewOccupants
  <1>2. Cardinality(Occupants \cup {c}) =
           IF c \in Occupants THEN Cardinality(Occupants) ELSE Cardinality(Occupants) + 1
    BY <1>1, FS_AddElement
  <1>3. Cardinality(Occupants \ {c}) =
           IF c \in Occupants THEN Cardinality(Occupants) - 1 ELSE Cardinality(Occupants)
    BY <1>1, FS_RemoveElement
  <1> QED BY <1>2, <1>3 DEF CountsOccupants

(* Whoever is in the body of the context finds the adapters mounted. *)
LEMMA BodySeesCache ==
    ASSUME IInv, NEW c \in Contexts, pc[c] \in {"body", "response", "leaving"}
    PROVE  AllMounted
  <1>1. c \in Occupants
    BY DEF Occupants, Inside
  <1>2. count # 0 /\ \A d \in Contexts : pc[d] \in Inside /\ d # c => count # 1
    BY <1>1, FewOccupants DEF IInv, Occupants
  <1>3. CASE lock = None
    BY <1>2, <1>3 DEF IInv, Layout, AtRest
  <1>4. ASSUME NEW d \in Contexts, lock = d PROVE AllMounted
    <2>1. pc[d] \in Locked
      BY <1>4 DEF IInv, MutualExclusion
    <2>2. d # c
      BY <2>1 DEF Locked
    <2> QED BY <1>2, <2>1, <2>2
            DEF IInv, Layout, AtRest, Locked, Inside, Mounting, Umounting,
                Restoring, Closing
  <1> QED BY <1>3, <1>4 DEF IInv, TypeOK

(* The session as Session.__init__ makes it. *)
LEMMA InitIInv == Init => IInv
  <1> SUFFICES ASSUME Init PROVE IInv
    OBVIOUS
  <1>1. TypeOK /\ MutualExclusion /\ ServedThroughCache
    BY EtagAssumption
    DEF Init, TypeOK, MutualExclusion, ServedThroughCache, Locked, Prefixes,
        Stacks, Loops
  <1>2. CountsOccupants
    <2>1. Occupants = {}
      BY DEF Init, Occupants, Inside
    <2> QED BY <2>1, FS_EmptySet DEF Init, CountsOccupants
  <1>3. Layout
    BY EtagAssumption DEF Init, Layout, AtRest, AllBare, Bare, Prefixes
  <1> QED BY <1>1, <1>2, <1>3 DEF IInv

(* Each action keeps the types. *)
LEMMA NextTypeOK ==
    ASSUME IInv, [Next]_vars
    PROVE  TypeOK'
  <1> USE EtagAssumption, FewOccupants DEF TypeOK, IInv
  <1>1. CASE UNCHANGED vars
    BY <1>1 DEF vars
  <1>2. ASSUME NEW c \in Contexts, Step(c) PROVE TypeOK'
    <2> USE DEF GoTo, Locked, Inside
    <2>1. CASE Enter(c)
      BY <2>1 DEF Enter, Acquire
    <2>2. CASE Open(c)
      BY <2>2, LoopsDiffer DEF Open, BothIn
    <2>3. CASE OpenFails(c)
      BY <2>3 DEF OpenFails, Release
    <2>4. CASE Join(c)
      BY <2>4 DEF Join
    <2>5. CASE Mount(c)
      <3>1. Mounting(c)
        BY <2>5 DEF Mount, Layout
      <3>2. /\ Head(todo[c]) \in Prefixes /\ stack[Head(todo[c])] = <<Plain>>
            /\ Tail(todo[c]) \in Loops
        BY <3>1, LoopSteps, LoopsDiffer DEF Mounting, Bare, Prefixes
      <3>3. <<c>> \o stack[Head(todo[c])] \in Stacks
        BY <3>2, Push, Pop
      <3> QED BY <2>5, <3>2, <3>3 DEF Mount
    <2>6. CASE Count(c)
      BY <2>6 DEF Count, Release
    <2>7. ASSUME NEW p \in Prefixes, Send(c, p) PROVE TypeOK'
      BY <2>7 DEF Send
    <2>8. CASE EndResponse(c)
      BY <2>8 DEF EndResponse
    <2>9. CASE Leave(c)
      BY <2>9 DEF Leave, Acquire
    <2>10. CASE TearDown(c)
      BY <2>10, LoopsDiffer DEF TearDown, BothOut
    <2>11. CASE Stay(c)
      BY <2>11 DEF Stay
    <2>12. CASE Umount(c)
      <3>1. Umounting(c)
        BY <2>12 DEF Umount, Layout
      <3>2. /\ Head(todo[c]) \in Prefixes
            /\ \E d \in Contexts : stack[Head(todo[c])] = <<d, Plain>>
        BY <3>1, LoopSteps DEF Umounting, AllMounted, Mounted, Prefixes
      <3>3. /\ Head(stack[Head(todo[c])]) \in Contexts
            /\ Tail(stack[Head(todo[c])]) \in Stacks
        BY <3>2, Pop
      <3> QED BY <2>12, <3>2, <3>3 DEF Umount
    <2>13. CASE Restore(c)
      <3>1. Restoring(c)
        BY <2>13 DEF Restore, Layout
      <3>2. Head(todo[c]) \in Prefixes /\ stack[Head(todo[c])] = <<Plain>>
        BY <3>1, LoopSteps DEF Restoring, Bare, Prefixes
      <3> QED BY <2>13, <3>2, Pop DEF Restore
    <2>14. CASE Close(c)
      <3>1. Closing(c)
        BY <2>14 DEF Close, Layout
      <3>2. Tail(todo[c]) \in Loops
        BY <3>1, LoopSteps, LoopsDiffer DEF Closing
      <3> QED BY <2>14, <3>1, <3>2 DEF Close, Closing
    <2>15. CASE Uncount(c)
      <3>1. count # 0
        BY <2>15 DEF Uncount, Occupants
      <3> QED BY <2>15, <3>1 DEF Uncount, Release
    <2> QED BY <1>2, <2>1, <2>2, <2>3, <2>4, <2>5, <2>6, <2>7, <2>8, <2>9,
               <2>10, <2>11, <2>12, <2>13, <2>14, <2>15 DEF Step
  <1> QED BY <1>1, <1>2 DEF Next

(* The lock has one owner, who is the one in the locked sections. *)
LEMMA NextMutualExclusion ==
    ASSUME IInv, [Next]_vars
    PROVE  MutualExclusion'
  <1> USE EtagAssumption DEF TypeOK, IInv, MutualExclusion
  <1>1. CASE UNCHANGED vars
    BY <1>1 DEF vars
  <1>2. ASSUME NEW c \in Contexts, Step(c) PROVE MutualExclusion'
    BY <1>2 DEF Step, GoTo, Locked, Acquire, Release, Enter, Open, OpenFails, Join,
         Mount, Count, Send, EndResponse, Leave, TearDown, Stay, Umount,
         Restore, Close, Uncount
  <1> QED BY <1>1, <1>2 DEF Next

(* Entering and leaving are counted. *)
LEMMA NextCountsOccupants ==
    ASSUME IInv, [Next]_vars
    PROVE  CountsOccupants'
  <1> USE DEF TypeOK, IInv
  <1>1. CASE UNCHANGED vars
    BY <1>1 DEF vars, CountsOccupants, Occupants
  <1>2. ASSUME NEW c \in Contexts, Step(c) PROVE CountsOccupants'
    <2>1. CASE Count(c)
      <3>1. c \notin Occupants /\ Occupants' = Occupants \cup {c}
        BY <2>1 DEF Count, GoTo, Occupants, Inside
      <3> QED BY <2>1, <3>1, CountMoves DEF Count
    <2>2. CASE Uncount(c)
      <3>1. c \in Occupants /\ Occupants' = Occupants \ {c}
        BY <2>2 DEF Uncount, GoTo, Occupants, Inside
      <3> QED BY <2>2, <3>1, CountMoves DEF Uncount
    <2>3. CASE ~ Count(c) /\ ~ Uncount(c)
      <3>1. count' = count /\ Occupants' = Occupants
        BY <1>2, <2>3 DEF Step, GoTo, Occupants, Inside, Enter, Open, OpenFails,
             Join, Mount, Send, EndResponse, Leave, TearDown, Stay, Umount,
             Restore, Close
      <3> QED BY <3>1 DEF CountsOccupants
    <2> QED BY <2>1, <2>2, <2>3
  <1> QED BY <1>1, <1>2 DEF Next

(* Only the owner of the lock changes the adapters, the caches and the     *)
(* counter: what holds for the other contexts goes on to hold.             *)
LEMMA OwnerMoves ==
    ASSUME IInv, NEW c \in Contexts, pc[c] \in Locked
    PROVE  lock = c /\ \A d \in Contexts : d # c => pc[d] \notin Locked
  BY EtagAssumption DEF IInv, MutualExclusion

(* Each action takes its context from one stage of the layout to the next. *)
LEMMA NextLayout ==
    ASSUME IInv, [Next]_vars
    PROVE  Layout'
  <1> USE EtagAssumption, FewOccupants DEF TypeOK, IInv
  <1> DEFINE Frame == UNCHANGED <<count, stack, adapter, caches>>
             States == AtRest' = AtRest /\ AllBare' = AllBare /\ AllMounted' = AllMounted
  <1>0. Frame => States
    BY DEF AtRest, AllBare, AllMounted, Bare, Mounted
  <1>1. CASE UNCHANGED vars
    BY <1>1 DEF vars, Layout, AtRest, AllBare, AllMounted, Bare, Mounted, Mounting,
         Umounting, Restoring, Closing
  <1>2. ASSUME NEW c \in Contexts, Step(c) PROVE Layout'
    <2> USE DEF GoTo
    <2> DEFINE Others == \A d \in Contexts : d # c => pc'[d] \notin Locked
    <2>0. pc[c] \in Locked => lock = c /\ Others
      BY <1>2, OwnerMoves
      DEF Step, Enter, Open, OpenFails, Join, Mount, Count, Send, EndResponse,
          Leave, TearDown, Stay, Umount, Restore, Close, Uncount
    <2>00. lock = None => AtRest /\ Others
      <3>1. lock = None => \A d \in Contexts : pc[d] \notin Locked
        BY DEF MutualExclusion
      <3> QED BY <1>2, <3>1
          DEF Layout, Step, Enter, Open, OpenFails, Join, Mount, Count, Send,
              EndResponse, Leave, TearDown, Stay, Umount, Restore, Close, Uncount
    <2>1. CASE Enter(c)
      BY <1>0, <2>1, <2>00 DEF Enter, Acquire, Layout, Locked
    <2>2. CASE Open(c)
      <3>1. AllBare /\ count = 0 /\ Others /\ lock' = c
        BY <2>0, <2>2 DEF Open, IsFirst, Layout, AtRest, Locked
      <3>2. Mounting(c)'
        BY <2>2, <3>1 DEF Open, Mounting, AllBare, Bare, BothIn
      <3> QED BY <2>2, <3>1, <3>2 DEF Open, Layout, Locked
    <2>3. CASE OpenFails(c)
      BY <1>0, <2>0, <2>3 DEF OpenFails, Release, Layout, Locked
    <2>4. CASE Join(c)
      BY <1>0, <2>0, <2>4 DEF Join, IsFirst, Layout, AtRest, Locked
    <2>5. CASE Mount(c)
      <3>1. Mounting(c) /\ Others /\ lock' = c
        BY <2>0, <2>5 DEF Mount, Layout, Locked
      <3>2. CASE todo[c] = BothIn
        <4>1. Mounting(c)' /\ pc'[c] = "mount"
          BY <2>5, <3>1, <3>2, LoopSteps, LoopsDiffer, Push
          DEF Mount, Mounting, Bare, Mounted, Prefixes
        <4> QED BY <3>1, <4>1 DEF Layout, Locked
      <3>3. CASE todo[c] = <<"https://">>
        <4>1. AllMounted' /\ pc'[c] = "count"
          BY <2>5, <3>1, <3>3, LoopSteps, LoopsDiffer, Push
          DEF Mount, Mounting, AllMounted, Bare, Mounted, Prefixes
        <4> QED BY <3>1, <4>1 DEF Layout, Locked
      <3> QED BY <3>1, <3>2, <3>3 DEF Mounting
    <2>6. CASE Count(c)
      <3>1. AtRest' /\ Others
        BY <2>0, <2>6 DEF Count, Layout, AtRest, AllMounted, Mounted, Locked
      <3> QED BY <2>6, <3>1 DEF Count, Layout, Locked
    <2>7. ASSUME NEW p \in Prefixes, Send(c, p) PROVE Layout'
      BY <1>0, <2>7 DEF Send, Layout, Mounting, Umounting, Restoring, Closing,
           Bare, Mounted
    <2>8. CASE EndResponse(c)
      BY <1>0, <2>8 DEF EndResponse, Layout, Mounting, Umounting, Restoring,
           Closing, Bare, Mounted
    <2>9. CASE Leave(c)
      BY <1>0, <2>9, <2>00 DEF Leave, Acquire, Layout, Locked
    <2>10. CASE TearDown(c)
      <3>1. AllMounted /\ count = 1 /\ Others /\ lock' = c
        BY <2>0, <2>10 DEF TearDown, IsLast, Layout, AtRest, Locked
      <3>2. Umounting(c)'
        BY <2>10, <3>1 DEF TearDown, Umounting, AllMounted, Mounted, BothOut
      <3> QED BY <2>10, <3>1, <3>2 DEF TearDown, Layout, Locked
    <2>11. CASE Stay(c)
      <3>1. count # 0
        BY <2>11 DEF Stay, Occupants, Inside
      <3> QED BY <1>0, <2>0, <2>11, <3>1 DEF Stay, IsLast, Layout, AtRest, Locked
    <2>12. CASE Umount(c)
      <3>1. Umounting(c) /\ Others /\ lock' = c
        BY <2>0, <2>12 DEF Umount, Layout, Locked
      <3>2. Restoring(c)'
        <4>1. CASE todo[c] = BothOut
          <5>1. PICK d \in Contexts :
                  caches = {d} /\ Mounted("http://", d) /\ Mounted("https://", d)
            BY <3>1, <4>1, LoopsDiffer DEF Umounting, AllMounted
          <5>2. Head(stack["https://"]) = d /\ Tail(stack["https://"]) = <<Plain>>
            BY <5>1, Pop DEF Mounted
          <5>3. Head(todo[c]) = "https://"
            BY <4>1, LoopSteps
          <5>4. /\ held'[c] = d /\ stack'["https://"] = <<Plain>>
                /\ stack'["http://"] = stack["http://"]
                /\ adapter'["http://"] = adapter["http://"]
            BY <2>12, <5>2, <5>3 DEF Umount, Prefixes
          <5> QED BY <2>12, <3>1, <4>1, <5>1, <5>4
                  DEF Umount, Umounting, Restoring, Mounted
        <4>2. CASE todo[c] = <<"http://">>
          <5>1. PICK d \in Contexts : Mounted("http://", d)
            BY <3>1, <4>2, LoopsDiffer DEF Umounting
          <5>2. Head(stack["http://"]) = d /\ Tail(stack["http://"]) = <<Plain>>
            BY <5>1, Pop DEF Mounted
          <5>3. Head(todo[c]) = "http://"
            BY <4>2, LoopSteps
          <5>4. /\ held'[c] = d /\ stack'["http://"] = <<Plain>>
                /\ stack'["https://"] = stack["https://"]
                /\ adapter'["https://"] = adapter["https://"]
            BY <2>12, <5>2, <5>3 DEF Umount, Prefixes
          <5>5. caches = {} /\ Bare("https://")
            BY <3>1, <4>2, LoopsDiffer DEF Umounting
          <5> QED BY <2>12, <3>1, <4>2, <5>4, <5>5
                  DEF Umount, Umounting, Restoring, Bare
        <4> QED BY <3>1, <4>1, <4>2 DEF Umounting
      <3> QED BY <2>12, <3>1, <3>2 DEF Umount, Layout, Locked
    <2>13. CASE Restore(c)
      <3>1. Restoring(c) /\ Others /\ lock' = c
        BY <2>0, <2>13 DEF Restore, Layout, Locked
      <3>2. Closing(c)'
        BY <2>13, <3>1, LoopSteps, LoopsDiffer, Pop
        DEF Restore, Restoring, Closing, Bare, Mounted, Prefixes
      <3> QED BY <2>13, <3>1, <3>2 DEF Restore, Layout, Locked
    <2>14. CASE Close(c)
      <3>1. Closing(c) /\ Others /\ lock' = c
        BY <2>0, <2>14 DEF Close, Layout, Locked
      <3>2. CASE todo[c] = BothOut
        <4>1. Umounting(c)' /\ pc'[c] = "umount"
          BY <2>14, <3>1, <3>2, LoopSteps, LoopsDiffer
          DEF Close, Closing, Umounting, Bare, Mounted
        <4> QED BY <3>1, <4>1 DEF Layout, Locked
      <3>3. CASE todo[c] = <<"http://">>
        <4>1. AllBare' /\ count' = 1 /\ pc'[c] = "uncount"
          BY <2>14, <3>1, <3>3, LoopSteps, LoopsDiffer
          DEF Close, Closing, AllBare, Bare
        <4> QED BY <3>1, <4>1 DEF Layout, Locked
      <3> QED BY <3>1, <3>2, <3>3 DEF Closing
    <2>15. CASE Uncount(c)
      <3>1. count # 0
        BY <2>15 DEF Uncount, Occupants, Inside
      <3>2. AtRest' /\ Others
        BY <2>0, <2>15, <3>1
        DEF Uncount, Layout, AtRest, AllBare, Bare, AllMounted, Mounted, Locked
      <3> QED BY <2>15, <3>2 DEF Uncount, Layout, Locked
    <2> QED BY <1>2, <2>1, <2>2, <2>3, <2>4, <2>5, <2>6, <2>7, <2>8, <2>9,
               <2>10, <2>11, <2>12, <2>13, <2>14, <2>15 DEF Step
  <1> QED BY <1>1, <1>2 DEF Next

(* No response loses its cache. *)
LEMMA NextServedThroughCache ==
    ASSUME IInv, [Next]_vars
    PROVE  ServedThroughCache'
  <1> USE EtagAssumption DEF TypeOK, IInv, ServedThroughCache
  <1>1. CASE UNCHANGED vars
    BY <1>1 DEF vars
  <1>2. ASSUME NEW c \in Contexts, Step(c) PROVE ServedThroughCache'
    <2> USE DEF GoTo
    <2>1. CASE Open(c)
      BY <2>1 DEF Open
    <2>2. ASSUME NEW p \in Prefixes, Send(c, p) PROVE ServedThroughCache'
      <3>1. adapter[p] \in caches
        BY <2>2, BodySeesCache DEF Send, AllMounted, Mounted, Prefixes
      <3> QED BY <2>2, <3>1 DEF Send
    <2>3. CASE Umount(c) \/ Restore(c) \/ Close(c)
      <3>1. c \in Occupants /\ count = 1
        BY <2>3 DEF Umount, Restore, Close, Layout, Umounting, Restoring, Closing,
             Occupants, Inside
      <3>2. \A d \in Contexts : pc[d] = "response" => d = c
        BY <3>1, FewOccupants DEF Occupants, Inside
      <3> QED BY <2>3, <3>2 DEF Umount, Restore, Close
    <2>4. CASE EndResponse(c)
      BY <2>4 DEF EndResponse
    <2>5. CASE Enter(c) \/ OpenFails(c) \/ Join(c) \/ Mount(c) \/ Count(c)
      BY <2>5 DEF Enter, OpenFails, Join, Mount, Count
    <2>6. CASE Leave(c) \/ TearDown(c) \/ Stay(c) \/ Uncount(c)
      BY <2>6 DEF Leave, TearDown, Stay, Uncount
    <2> QED BY <1>2, <2>1, <2>2, <2>3, <2>4, <2>5, <2>6 DEF Step
  <1> QED BY <1>1, <1>2 DEF Next

-----------------------------------------------------------------------------
(* The strengthening holds in every reachable state.                       *)
THEOREM Invariance == Spec => []IInv
  <1>1. IInv /\ [Next]_vars => IInv'
    BY NextTypeOK, NextMutualExclusion, NextCountsOccupants, NextLayout,
       NextServedThroughCache, Zenon
    DEF IInv
  <1> QED BY InitIInv, <1>1, PTL DEF Spec

(* The counter is the number of contexts inside. (_etag_setup, _etag_tear) *)
THEOREM CounterCorrect == Spec => []CountsOccupants
  <1>1. IInv => CountsOccupants
    BY DEF IInv
  <1> QED BY Invariance, <1>1, PTL

(* A response inside a context always has an open cache behind it. (etag)  *)
THEOREM AlwaysServedThroughCache == Spec => []ServedThroughCache
  <1>1. IInv => ServedThroughCache
    BY DEF IInv
  <1> QED BY Invariance, <1>1, PTL

(* All contexts that are inside share the cache that the first one opened. *)
THEOREM AlwaysOneCache == Spec => []OneCache
  <1>1. IInv => OneCache
    <2> SUFFICES ASSUME IInv, NEW c \in Contexts, NEW d \in Contexts,
                        pc[c] = "response", pc[d] = "response"
                 PROVE  held[c] = held[d]
      BY DEF OneCache
    <2>1. AllMounted
      BY BodySeesCache
    <2> QED BY <2>1 DEF IInv, ServedThroughCache, AllMounted
  <1> QED BY Invariance, <1>1, PTL

(* The last context out leaves the session as it was. (_etag_tear, umount) *)
THEOREM SessionRestored == Spec => []Restored
  <1>1. IInv => Restored
    BY FewOccupants DEF IInv, Layout, AtRest, AllBare, Bare, Restored, Prefixes
  <1> QED BY Invariance, <1>1, PTL

-----------------------------------------------------------------------------
(* repository_factory *)

(* A task does to the session what a context does, or nothing.             *)
LEMMA TaskIsContext ==
    ASSUME NEW c \in Contexts, TaskStep(c)
    PROVE  Next
  <1>1. Step(c)
    <2>1. CASE Respond(c)
      BY <2>1 DEF Respond, Step
    <2>2. CASE Break(c)
      BY <2>2 DEF Break, Step
    <2>3. CASE FailToOpen(c)
      BY <2>3 DEF FailToOpen, Step
    <2> QED BY <2>1, <2>2, <2>3 DEF TaskStep, OwnStep, Answered, Step
  <1> QED BY <1>1 DEF Next

(* Every step of the factory is a step of the contexts or leaves the       *)
(* session alone.                                                          *)
LEMMA StepUsesSession ==
    ASSUME [FactoryNext]_allVars
    PROVE  [Next]_vars
  <1>1. CASE Pick
    BY <1>1 DEF Pick
  <1>2. CASE CallerStep
    BY <1>2 DEF CallerStep, Merge, Add, NoIndex, Raise, LeavePool
  <1>3. CASE \E c \in Contexts : TaskStep(c)
    BY <1>3, TaskIsContext
  <1>4. CASE UNCHANGED allVars
    BY <1>4 DEF allVars
  <1> QED BY <1>1, <1>2, <1>3, <1>4 DEF FactoryNext

(* So what is proved of the contexts holds of the threads of the pool.     *)
LEMMA PoolOfContexts == FactorySpec => Spec
  <1>1. FactoryInit => Init
    BY DEF FactoryInit
  <1>2. [FactoryNext]_allVars => [Next]_vars
    BY StepUsesSession
  <1> QED BY <1>1, <1>2, PTL DEF FactorySpec, FactorySafety, Spec

(* The response a thread is reading comes through a cache that is open.    *)
(* (Session.etag, _fetch_repository)                                       *)
THEOREM FactoryServedThroughCache == FactorySpec => []ServedThroughCache
  <1>1. IInv => ServedThroughCache
    BY DEF IInv
  <1> QED BY PoolOfContexts, Invariance, <1>1, PTL

-----------------------------------------------------------------------------
(* Once the call is over, and it is over only when every task has ended.   *)
Over == call \in {"returned", "raised"} => \A c \in Contexts : Ended(c)

(* A context that has ended does nothing any more.                         *)
LEMMA EndedIsFinal ==
    ASSUME NEW c \in Contexts, TaskStep(c)
    PROVE  ~ Ended(c)
  <1>1. CASE Respond(c) \/ Break(c) \/ FailToOpen(c)
    BY <1>1 DEF Respond, Break, FailToOpen, EndResponse, OpenFails, Ended
  <1>2. CASE Enter(c) \/ Open(c) \/ Join(c) \/ Mount(c) \/ Count(c)
    BY <1>2 DEF Enter, Open, Join, Mount, Count, Ended
  <1>3. CASE \E p \in Prefixes : Send(c, p)
    BY <1>3 DEF Send, Ended
  <1>4. CASE \/ Leave(c) \/ TearDown(c) \/ Stay(c)
             \/ Umount(c) \/ Restore(c) \/ Close(c) \/ Uncount(c)
    BY <1>4 DEF Leave, TearDown, Stay, Umount, Restore, Close, Uncount, Ended
  <1> QED BY <1>1, <1>2, <1>3, <1>4 DEF TaskStep, OwnStep, Answered

(* The caller and the pool never undo that the call is over. *)
LEMMA NextOver ==
    ASSUME Over, [FactoryNext]_allVars
    PROVE  Over'
  <1>1. CASE Pick
    BY <1>1 DEF Pick, Over, Ended, vars
  <1>2. CASE \/ \E c \in Contexts : Merge(c) \/ NoIndex(c) \/ Raise(c)
             \/ \E p \in Package : Add(p)
    BY <1>2 DEF Merge, Add, NoIndex, Raise, Over, Ended, vars
  <1>3. CASE LeavePool
    BY <1>3 DEF LeavePool, AllEnded, Over, Ended, vars
  <1>4. CASE \E c \in Contexts : TaskStep(c)
    <2> SUFFICES ASSUME NEW c \in Contexts, TaskStep(c) PROVE Over'
      BY <1>4
    <2>1. ~ (call \in {"returned", "raised"})
      BY EndedIsFinal DEF Over
    <2>2. call' = call
      BY DEF TaskStep, OwnStep, Answered, Respond, Break, FailToOpen, SetResult, factoryVars
    <2> QED BY <2>1, <2>2 DEF Over
  <1>5. CASE UNCHANGED allVars
    BY <1>5 DEF allVars, factoryVars, Over, Ended, vars
  <1> QED BY <1>1, <1>2, <1>3, <1>4, <1>5 DEF FactoryNext, CallerStep

(* When the call is over nobody is inside a context nor holds the lock.    *)
LEMMA OverIsQuiet ==
    ASSUME IInv, Over
    PROVE  NothingLeftRunning
  <1> SUFFICES ASSUME call \in {"returned", "raised"}
               PROVE  /\ \A c \in Contexts : Ended(c)
                      /\ caches = {}
                      /\ \A p \in Prefixes : adapter[p] = Plain
    BY DEF NothingLeftRunning
  <1>1. \A c \in Contexts : Ended(c)
    BY DEF Over
  <1>2. Occupants = {}
    BY <1>1 DEF Occupants, Ended, Inside
  <1>3. lock = None
    <2>1. \A c \in Contexts : lock # c
      BY <1>1 DEF IInv, MutualExclusion, Ended, Locked
    <2> QED BY <2>1 DEF IInv, TypeOK
  <1>4. AtRest /\ count = 0
    BY <1>2, <1>3, FewOccupants DEF IInv, Layout
  <1> QED BY <1>1, <1>4 DEF AtRest, AllBare, Bare, Prefixes

(* repository_factory leaves neither threads nor caches behind, whether it *)
(* returns or raises, and the session as it was made. (executor.__exit__)  *)
THEOREM FactoryLeavesNothing == FactorySpec => []NothingLeftRunning
  <1>1. FactoryInit => Over
    BY DEF FactoryInit, Over
  <1>2. Over /\ [FactoryNext]_allVars => Over'
    BY NextOver
  <1>3. FactorySpec => []Over
    BY <1>1, <1>2, PTL DEF FactorySpec, FactorySafety
  <1>4. IInv /\ Over => NothingLeftRunning
    BY OverIsQuiet
  <1> QED BY PoolOfContexts, Invariance, <1>3, <1>4, PTL

-----------------------------------------------------------------------------
(* The repository *)

(* add_package puts the package somewhere in the list and moves what comes *)
(* after it by one place.                                                  *)
IsInsertion(q, s, p, n) ==
    /\ q \in Seq(Package) /\ n \in 0..Len(s) /\ DOMAIN q = 1..(Len(s) + 1)
    /\ \A i \in 1..n : q[i] = s[i]
    /\ q[n + 1] = p
    /\ \A i \in (n + 1)..Len(s) : q[i + 1] = s[i]

(* Repository.add_package is an insertion. *)
LEMMA AddPackageInserts ==
    ASSUME NEW p \in Package, NEW s \in Seq(Package)
    PROVE  \E n : IsInsertion(AddPackage(p, s), s, p, n)
  <1> DEFINE T == {i \in DOMAIN s : Version[s[i].egg] <= Version[p.egg]}
             n == Cardinality(T)
             m == Len(s)
             A == SubSeq(s, 1, n)
             B == SubSeq(s, n + 1, m)
             q == A \o <<p>> \o B
  <1>1. m \in Nat /\ DOMAIN s = 1..m
    OBVIOUS
  <1>2. n \in 0..m
    <2>1. IsFiniteSet(1..m) /\ Cardinality(1..m) = m
      BY <1>1, FS_Interval
    <2>2. T \in SUBSET (1..m)
      BY <1>1
    <2>3. IsFiniteSet(T) /\ n <= m
      BY <2>1, <2>2, FS_Subset
    <2>4. n \in Nat
      BY <2>3, FS_CardinalityType
    <2> QED
      BY <1>1, <2>3, <2>4
  <1>3. AddPackage(p, s) = q
    BY DEF AddPackage
  <1> HIDE DEF n, m
  <1>4. /\ A \in Seq(Package) /\ Len(A) = n
        /\ \A i \in 1..n : A[i] = s[i]
    <2>1. 1 \in 1..(Len(s) + 1) /\ n \in (1 - 1)..Len(s)
      BY <1>1, <1>2 DEF m
    <2>2. /\ A \in Seq(Package) /\ Len(A) = n - 1 + 1
          /\ \A i \in 1..(n - 1 + 1) : A[i] = s[1 + i - 1]
      BY <2>1, SubSeqProperties
    <2> HIDE DEF A
    <2> QED
      BY <1>1, <1>2, <2>2
  <1>5. /\ B \in Seq(Package) /\ Len(B) = m - n
        /\ \A i \in 1..(m - n) : B[i] = s[n + i]
    <2> DEFINE k == n + 1
    <2>1. k \in 1..(Len(s) + 1) /\ m \in (k - 1)..Len(s)
      BY <1>1, <1>2 DEF m
    <2>2. n \in Nat /\ k = n + 1
      BY <1>2
    <2> HIDE DEF k
    <2>3. /\ SubSeq(s, k, m) \in Seq(Package) /\ Len(SubSeq(s, k, m)) = m - k + 1
          /\ \A i \in 1..(m - k + 1) : SubSeq(s, k, m)[i] = s[k + i - 1]
      BY <2>1, SubSeqProperties
    <2>4. B = SubSeq(s, k, m)
      BY DEF k
    <2>5. m - k + 1 = m - n
      BY <1>1, <2>2
    <2>6. \A i \in 1..(m - n) : k + i - 1 = n + i
      BY <2>2
    <2> HIDE DEF B
    <2> QED
      BY <2>3, <2>4, <2>5, <2>6
  <1> DEFINE C == A \o <<p>>
  <1> HIDE DEF A, B
  <1>6. /\ C \in Seq(Package) /\ Len(C) = n + 1
        /\ \A i \in 1..n : C[i] = A[i]
        /\ C[n + 1] = p
    <2>1. <<p>> \in Seq(Package) /\ Len(<<p>>) = 1 /\ <<p>>[1] = p
      OBVIOUS
    <2> DEFINE P == <<p>>
    <2> HIDE DEF P
    <2>2. /\ A \o P \in Seq(Package) /\ Len(A \o P) = Len(A) + Len(P)
          /\ \A i \in 1..(Len(A) + Len(P)) :
               (A \o P)[i] = IF i <= Len(A) THEN A[i] ELSE P[i - Len(A)]
      BY <1>4, <2>1, ConcatProperties DEF P
    <2>3. \A i \in 1..(n + 1) : (A \o P)[i] = IF i <= n THEN A[i] ELSE P[i - n]
      BY <1>4, <2>1, <2>2 DEF P
    <2>4. C = A \o P /\ P[1] = p /\ Len(C) = n + 1
      BY <1>4, <2>1, <2>2 DEF P
    <2>5. \A i \in 1..n : i \in 1..(n + 1) /\ i <= n
      BY <1>2
    <2>6. n + 1 \in 1..(n + 1) /\ ~ n + 1 <= n /\ (n + 1) - n = 1
      BY <1>2
    <2> QED
      BY <2>2, <2>3, <2>4, <2>5, <2>6
  <1> HIDE DEF C
  <1>7. /\ C \o B \in Seq(Package) /\ Len(C \o B) = m + 1
        /\ \A i \in 1..(m + 1) : (C \o B)[i] = IF i <= n + 1 THEN C[i] ELSE B[i - (n + 1)]
    <2>1. /\ C \o B \in Seq(Package) /\ Len(C \o B) = Len(C) + Len(B)
          /\ \A i \in 1..(Len(C) + Len(B)) :
               (C \o B)[i] = IF i <= Len(C) THEN C[i] ELSE B[i - Len(C)]
      BY <1>5, <1>6, ConcatProperties
    <2>2. Len(C) + Len(B) = m + 1
      BY <1>1, <1>2, <1>5, <1>6
    <2> QED
      BY <1>6, <2>1, <2>2
  <1>8. q = C \o B
    BY DEF C
  <1> HIDE DEF q
  <1>9. q \in Seq(Package) /\ DOMAIN q = 1..(m + 1)
    BY <1>7, <1>8
  <1>10. \A i \in 1..n : q[i] = s[i]
    <2>1. \A i \in 1..n : i \in 1..(m + 1) /\ i <= n + 1
      BY <1>1, <1>2
    <2> QED
      BY <1>4, <1>6, <1>7, <1>8, <2>1
  <1>11. q[n + 1] = p
    <2>1. n + 1 \in 1..(m + 1) /\ n + 1 <= n + 1
      BY <1>1, <1>2
    <2> QED
      BY <1>6, <1>7, <1>8, <2>1
  <1>12. ASSUME NEW i \in (n + 1)..m PROVE q[i + 1] = s[i]
    <2>1. /\ i + 1 \in 1..(m + 1) /\ ~ i + 1 <= n + 1
          /\ (i + 1) - (n + 1) \in 1..(m - n) /\ n + ((i + 1) - (n + 1)) = i
      BY <1>1, <1>2
    <2> QED
      BY <1>5, <1>7, <1>8, <2>1
  <1>13. IsInsertion(q, s, p, n)
    BY <1>2, <1>9, <1>10, <1>11, <1>12 DEF IsInsertion, m
  <1> QED
    BY <1>3, <1>13

(* A package is in a list once, or not at all.                             *)
Once(s, p) == \E i \in DOMAIN s : \A j \in DOMAIN s : s[j] = p <=> j = i
Nowhere(s, p) == \A j \in DOMAIN s : s[j] # p

(* An insertion adds the package and moves the others.                     *)
LEMMA InsertionCounts ==
    ASSUME NEW s \in Seq(Package), NEW q, NEW p, NEW n, IsInsertion(q, s, p, n)
    PROVE  /\ Nowhere(s, p) => Once(q, p)
           /\ \A x : x # p => /\ Nowhere(s, x) => Nowhere(q, x)
                              /\ Once(s, x) => Once(q, x)
  <1> DEFINE m == Len(s)
  <1>1. m \in Nat /\ DOMAIN s = 1..m /\ n \in 0..m /\ DOMAIN q = 1..(m + 1)
        /\ (\A i \in 1..n : q[i] = s[i]) /\ q[n + 1] = p
        /\ \A i \in (n + 1)..m : q[i + 1] = s[i]
    BY DEF IsInsertion
  <1> HIDE DEF m
  <1>2. ASSUME NEW j \in DOMAIN q, j # n + 1
        PROVE  \E i \in DOMAIN s : q[j] = s[i] /\ j = IF i <= n THEN i ELSE i + 1
    <2>1. CASE j <= n
      <3>1. j \in 1..n /\ j \in DOMAIN s
        BY <1>1, <2>1
      <3> QED
        BY <1>1, <2>1, <3>1
    <2>2. CASE ~ j <= n
      <3>1. j - 1 \in (n + 1)..m /\ j - 1 \in DOMAIN s /\ (j - 1) + 1 = j /\ ~ j - 1 <= n
        BY <1>1, <1>2, <2>2
      <3> QED
        BY <1>1, <3>1
    <2> QED
      BY <2>1, <2>2
  <1>3. n + 1 \in DOMAIN q
    BY <1>1
  <1>4. ASSUME Nowhere(s, p) PROVE Once(q, p)
    <2>1. \A j \in DOMAIN q : q[j] = p <=> j = n + 1
      BY <1>1, <1>2, <1>4 DEF Nowhere
    <2> QED
      BY <1>3, <2>1 DEF Once
  <1>5. ASSUME NEW x, x # p, Nowhere(s, x) PROVE Nowhere(q, x)
    BY <1>1, <1>2, <1>5 DEF Nowhere
  <1>6. ASSUME NEW x, x # p, Once(s, x) PROVE Once(q, x)
    <2>1. PICK i \in DOMAIN s : \A j \in DOMAIN s : s[j] = x <=> j = i
      BY <1>6 DEF Once
    <2> DEFINE k == IF i <= n THEN i ELSE i + 1
    <2>2. k \in DOMAIN q /\ q[k] = s[i]
      <3>1. CASE i <= n
        <4>1. i \in 1..n /\ i \in DOMAIN q
          BY <1>1, <3>1
        <4> QED
          BY <1>1, <3>1, <4>1
      <3>2. CASE ~ i <= n
        <4>1. i \in (n + 1)..m /\ i + 1 \in DOMAIN q
          BY <1>1, <3>2
        <4> QED
          BY <1>1, <3>2, <4>1
      <3> QED
        BY <3>1, <3>2
    <2>3. ASSUME NEW j \in DOMAIN q, q[j] = x PROVE j = k
      <3>1. j # n + 1
        BY <1>1, <1>6, <2>3
      <3>2. PICK l \in DOMAIN s : q[j] = s[l] /\ j = IF l <= n THEN l ELSE l + 1
        BY <1>2, <3>1
      <3>3. l = i
        BY <2>1, <2>3, <3>2
      <3> QED
        BY <3>2, <3>3
    <2>4. q[k] = x
      BY <2>1, <2>2
    <2> HIDE DEF k
    <2> QED
      BY <2>2, <2>3, <2>4 DEF Once
  <1> QED
    BY <1>4, <1>5, <1>6

(* The types of what the caller keeps.                                     *)
FactoryTypeOK ==
    /\ result \in [Contexts -> {"pending", "index", "none", "error"}]
    /\ repository \in Seq(Package)
    /\ merged \subseteq Contexts
    /\ adding \subseteq Package
    /\ call \in {"waiting", "raising", "returned", "raised"}

(* The packages the caller has seen so far, those it is adding included.   *)
Seen(p) == p.store \in merged /\ result[p.store] = "index" /\ p.egg \in Parse(p.store)

(* What the caller has made of the tasks it has looked at.                 *)
Collected ==
    /\ \A c \in merged :
        /\ Ended(c) /\ result[c] # "pending"
        /\ result[c] = "error" => call \in {"raising", "raised"}
    /\ unavailables = {c \in merged : result[c] = "none"}
    /\ \A p \in adding : Seen(p)
    /\ \A p \in Package :
        IF Seen(p) /\ p \notin adding THEN Once(repository, p) ELSE Nowhere(repository, p)
    /\ call = "returned" => merged = Contexts /\ adding = {}

(* A task that does something is none of those that have ended, and leaves *)
(* those alone.                                                            *)
LEMMA EndedStays ==
    ASSUME IInv, NEW c \in Contexts, TaskStep(c), NEW d \in Contexts, Ended(d)
    PROVE  Ended(d)' /\ d # c
  <1>1. d # c
    BY EndedIsFinal
  <1> SUFFICES pc'[d] = pc[d]
    BY <1>1 DEF Ended
  <1>2. pc \in [Contexts -> Inside \cup Locked \cup {"idle", "done", "failed"}]
    BY DEF IInv, TypeOK
  <1>3. ASSUME NEW step, GoTo(c, step) PROVE pc'[d] = pc[d]
    BY <1>1, <1>2, <1>3 DEF GoTo
  <1>4. CASE Respond(c) \/ Break(c) \/ FailToOpen(c)
    BY <1>3, <1>4 DEF Respond, Break, FailToOpen, EndResponse, OpenFails
  <1>5. CASE Enter(c) \/ Open(c) \/ Join(c) \/ Mount(c) \/ Count(c)
    BY <1>3, <1>5 DEF Enter, Open, Join, Mount, Count
  <1>6. CASE \E p \in Prefixes : Send(c, p)
    BY <1>3, <1>6 DEF Send
  <1>7. CASE \/ Leave(c) \/ TearDown(c) \/ Stay(c)
             \/ Umount(c) \/ Restore(c) \/ Close(c) \/ Uncount(c)
    BY <1>3, <1>7 DEF Leave, TearDown, Stay, Umount, Restore, Close, Uncount
  <1> QED BY <1>4, <1>5, <1>6, <1>7 DEF TaskStep, OwnStep, Answered

(* What a task does to the factory. *)
LEMMA TaskResult ==
    ASSUME NEW c \in Contexts, TaskStep(c), FactoryTypeOK
    PROVE  /\ UNCHANGED <<merged, adding, repository, unavailables, call>>
           /\ result' \in [Contexts -> {"pending", "index", "none", "error"}]
           /\ \A d \in Contexts : d # c => result'[d] = result[d]
  <1>1. CASE UNCHANGED factoryVars
    BY <1>1 DEF factoryVars, FactoryTypeOK
  <1>2. ASSUME NEW r \in {"index", "none", "error"}, SetResult(c, r)
        PROVE  /\ UNCHANGED <<merged, adding, repository, unavailables, call>>
               /\ result' \in [Contexts -> {"pending", "index", "none", "error"}]
               /\ \A d \in Contexts : d # c => result'[d] = result[d]
    BY <1>2 DEF SetResult, FactoryTypeOK
  <1>3. \A status : Outcome(status) \in {"index", "none", "error"}
    BY DEF Outcome
  <1> QED
    BY <1>1, <1>2, <1>3 DEF TaskStep, OwnStep, Answered, Respond, Break, FailToOpen

(* What the caller has seen is in the repository once, but for what it is  *)
(* adding; what it has not seen is not.                                    *)
LEMMA NextCollected ==
    ASSUME IInv, FactoryTypeOK, Collected, [FactoryNext]_allVars
    PROVE  FactoryTypeOK' /\ Collected'
  <1> DEFINE Result == FactoryTypeOK' /\ Collected'
  <1> SUFFICES Result
    OBVIOUS
  <1>1. CASE UNCHANGED allVars
    BY <1>1 DEF allVars, vars, factoryVars, FactoryTypeOK, Collected, Ended, Seen
  <1>2. CASE Pick
    BY <1>2 DEF Pick, vars, FactoryTypeOK, Collected, Ended, Seen
  <1>3. ASSUME NEW c \in Contexts, TaskStep(c) PROVE Result
    <2>1. /\ UNCHANGED <<merged, adding, repository, unavailables, call>>
          /\ result' \in [Contexts -> {"pending", "index", "none", "error"}]
          /\ \A d \in Contexts : d # c => result'[d] = result[d]
      BY <1>3, TaskResult
    <2>2. \A d \in merged : d \in Contexts /\ Ended(d)' /\ result'[d] = result[d]
      BY <1>3, <2>1, EndedStays DEF Collected, FactoryTypeOK
    <2>3. FactoryTypeOK'
      BY <2>1 DEF FactoryTypeOK
    <2>4. \A p : Seen(p)' <=> Seen(p)
      BY <2>1, <2>2 DEF Seen
    <2>5. Collected'
      BY <2>1, <2>2, <2>4 DEF Collected
    <2> QED
      BY <2>3, <2>5
  <1>4. ASSUME NEW c \in Contexts, NextTask(c), UNCHANGED <<vars, result>>
        PROVE  /\ call = "waiting" /\ adding = {} /\ c \notin merged /\ merged' = merged \cup {c}
               /\ \A d \in merged' : d \in Contexts /\ Ended(d)'
    BY <1>4 DEF NextTask, Completed, Collected, Ended, vars, FactoryTypeOK
  <1>5. ASSUME NEW c \in Contexts, Merge(c) PROVE Result
    <2>1. /\ UNCHANGED <<result, repository, unavailables, call>> /\ result[c] = "index"
          /\ adding' = {[egg |-> e, store |-> c] : e \in Parse(c)}
          /\ call = "waiting" /\ adding = {} /\ c \notin merged /\ merged' = merged \cup {c}
          /\ \A d \in merged' : d \in Contexts /\ Ended(d)'
      BY <1>4, <1>5 DEF Merge
    <2>2. \A p \in Package : p \in adding' <=> p.store = c /\ p.egg \in Parse(c)
      BY <2>1 DEF Package
    <2>3. adding' \subseteq Package
      <3>1. Parse(c) \subseteq Eggs
        BY FactoryAssumption DEF Parse
      <3> QED
        BY <2>1, <3>1 DEF Package
    <2>4. \A p \in Package : Seen(p)' <=> Seen(p) \/ p \in adding'
      BY <2>1, <2>2 DEF Seen, Package
    <2>5. \A p \in adding' : ~ Seen(p)
      BY <2>1, <2>2, <2>3 DEF Seen
    <2>6. FactoryTypeOK'
      BY <2>1, <2>3 DEF FactoryTypeOK
    <2>7. Collected'
      <3>1. \A p \in Package :
              IF Seen(p)' /\ p \notin adding' THEN Once(repository', p) ELSE Nowhere(repository', p)
        BY <2>1, <2>3, <2>4, <2>5 DEF Collected
      <3>2. \A p \in adding' : Seen(p)'
        BY <2>3, <2>4
      <3>3. \A d \in merged' : /\ Ended(d)' /\ result'[d] # "pending"
                               /\ result'[d] = "error" => call' \in {"raising", "raised"}
        BY <2>1 DEF Collected
      <3>4. unavailables' = {d \in merged' : result'[d] = "none"}
        BY <2>1 DEF Collected
      <3> QED
        BY <2>1, <3>1, <3>2, <3>3, <3>4 DEF Collected
    <2> QED
      BY <2>6, <2>7
  <1>6. ASSUME NEW c \in Contexts, NoIndex(c) \/ Raise(c) PROVE Result
    <2>1. /\ UNCHANGED <<result, repository, adding>> /\ result[c] \in {"none", "error"}
          /\ unavailables' = IF result[c] = "none" THEN unavailables \cup {c} ELSE unavailables
          /\ call' = IF result[c] = "none" THEN call ELSE "raising"
          /\ call = "waiting" /\ adding = {} /\ c \notin merged /\ merged' = merged \cup {c}
          /\ \A d \in merged' : d \in Contexts /\ Ended(d)'
      BY <1>4, <1>6 DEF NoIndex, Raise
    <2>2. \A p : Seen(p)' <=> Seen(p)
      BY <2>1 DEF Seen
    <2>3. FactoryTypeOK'
      BY <2>1 DEF FactoryTypeOK
    <2>4. unavailables' = {d \in merged' : result'[d] = "none"}
      BY <2>1 DEF Collected
    <2>5. \A d \in merged' : /\ Ended(d)' /\ result'[d] # "pending"
                             /\ result'[d] = "error" => call' \in {"raising", "raised"}
      BY <2>1 DEF Collected
    <2>6. Collected'
      BY <2>1, <2>2, <2>4, <2>5 DEF Collected
    <2> QED
      BY <2>3, <2>6
  <1>7. ASSUME NEW p \in Package, Add(p) PROVE Result
    <2>1. /\ UNCHANGED <<vars, result, merged, unavailables, call>> /\ p \in adding
          /\ adding' = adding \ {p} /\ repository' = AddPackage(p, repository)
      BY <1>7 DEF Add
    <2>2. PICK n : IsInsertion(repository', repository, p, n)
      BY <2>1, AddPackageInserts DEF FactoryTypeOK
    <2>3. FactoryTypeOK'
      BY <2>1, <2>2 DEF FactoryTypeOK, IsInsertion
    <2>4. \A x : Seen(x)' <=> Seen(x)
      BY <2>1 DEF Seen
    <2>5. /\ Nowhere(repository, p) => Once(repository', p)
          /\ \A x : x # p => /\ Nowhere(repository, x) => Nowhere(repository', x)
                             /\ Once(repository, x) => Once(repository', x)
      BY <2>2, InsertionCounts DEF FactoryTypeOK
    <2>6. ASSUME NEW x \in Package
          PROVE  IF Seen(x)' /\ x \notin adding' THEN Once(repository', x) ELSE Nowhere(repository', x)
      <3>1. CASE x = p
        BY <2>1, <2>4, <2>5, <3>1 DEF Collected
      <3>2. CASE x # p
        BY <2>1, <2>4, <2>5, <3>2 DEF Collected
      <3> QED
        BY <3>1, <3>2
    <2>7. Collected'
      BY <2>1, <2>4, <2>6 DEF Collected, Ended, vars
    <2> QED
      BY <2>3, <2>7
  <1>8. CASE LeavePool
    BY <1>8 DEF LeavePool, vars, FactoryTypeOK, Collected, Ended, Seen
  <1> HIDE DEF Result
  <1> QED
    BY <1>1, <1>2, <1>3, <1>5, <1>6, <1>7, <1>8 DEF FactoryNext, CallerStep

(* When every task was looked at, everything was seen.                     *)
LEMMA CollectedIsComplete ==
    ASSUME FactoryTypeOK, Collected
    PROVE  RepositoryComplete
  <1> SUFFICES ASSUME call = "returned"
               PROVE  /\ \A c \in Contexts : result[c] # "error"
                      /\ unavailables = Contexts \ Fetched
                      /\ \A p \in Package :
                          Cardinality({i \in DOMAIN repository : repository[i] = p}) =
                            IF p.store \in Fetched /\ p.egg \in Index[p.store] \cap ForPython
                            THEN 1 ELSE 0
    BY DEF RepositoryComplete
  <1>1. merged = Contexts /\ adding = {}
    BY DEF Collected
  <1>2. \A c \in Contexts : result[c] \in {"index", "none"}
    BY <1>1 DEF Collected, FactoryTypeOK
  <1>3. unavailables = Contexts \ Fetched
    BY <1>1, <1>2 DEF Collected, Fetched
  <1>4. ASSUME NEW p \in Package
        PROVE  Cardinality({i \in DOMAIN repository : repository[i] = p}) =
                 IF p.store \in Fetched /\ p.egg \in Index[p.store] \cap ForPython THEN 1 ELSE 0
    <2>1. Seen(p) <=> p.store \in Fetched /\ p.egg \in Index[p.store] \cap ForPython
      BY <1>1 DEF Seen, Fetched, Parse, Package
    <2>2. CASE Seen(p)
      <3>1. PICK i \in DOMAIN repository : \A j \in DOMAIN repository : repository[j] = p <=> j = i
        BY <1>1, <2>2 DEF Collected, Once
      <3>2. {j \in DOMAIN repository : repository[j] = p} = {i}
        BY <3>1
      <3>3. Cardinality({i}) = 1
        BY FS_Singleton
      <3> QED
        BY <2>1, <2>2, <3>2, <3>3
    <2>3. CASE ~ Seen(p)
      <3>1. {j \in DOMAIN repository : repository[j] = p} = {}
        BY <2>3 DEF Collected, Nowhere
      <3> QED
        BY <2>1, <2>3, <3>1, FS_EmptySet
    <2> QED
      BY <2>2, <2>3
  <1> QED
    BY <1>2, <1>3, <1>4

(* A call that returns has each package of each index that was fetched,    *)
(* once, and reports every other store.  (full_repository.add_package)     *)
THEOREM FactoryCollectsAll == FactorySpec => []RepositoryComplete
  <1>1. FactoryInit => FactoryTypeOK /\ Collected
    BY DEF FactoryInit, FactoryTypeOK, Collected, Seen, Nowhere
  <1>2. IInv /\ FactoryTypeOK /\ Collected /\ [FactoryNext]_allVars => (FactoryTypeOK /\ Collected)'
    BY NextCollected
  <1>3. FactorySpec => []IInv
    BY PoolOfContexts, Invariance, PTL
  <1>4. FactoryTypeOK /\ Collected => RepositoryComplete
    BY CollectedIsComplete
  <1> QED
    BY <1>1, <1>2, <1>3, <1>4, PTL DEF FactorySpec, FactorySafety
=============================================================================
