------------------------- MODULE BrowserPoolProofs -------------------------
(* What holds of the browser pool for any number of fetches and slots. *)
EXTENDS BrowserPool, FiniteSetTheorems, TLAPS

InsideFetches == {f \in Fetches : pc[f] \in Inside}
Launchers == ((launched \cap Fetches) \ Abandoned) \cup {f \in Fetches : pc[f] \in Starting}

(* The strengthening: a fetch enters start only while no browser was ever   *)
(* launched but by a cancelled start, and all that ever did so by then      *)
(* still hold their slot or were cancelled themselves.                      *)
FewLaunchers == Cardinality(Launchers) <= MaxConcurrent
BrowsersKnown ==
    /\ browser = NoBrowser => launched \subseteq Abandoned
    /\ pc[App] = "halting" => on[App] # NoBrowser

IInv == TypeOK /\ SlotsAccounted /\ FewLaunchers /\ BrowsersKnown /\ OnlyFailuresLeak

(* A fetch that takes a slot adds one to the fetches inside, one that       *)
(* leaves takes one off.                                                    *)
LEMMA InsideCounts ==
    ASSUME NEW S \in SUBSET Fetches, NEW f \in Fetches
    PROVE  /\ IsFiniteSet(S) /\ Cardinality(S) \in Nat
           /\ f \notin S => Cardinality(S \cup {f}) = Cardinality(S) + 1
           /\ f \in S => Cardinality(S \ {f}) = Cardinality(S) - 1
<1>1. IsFiniteSet(S)
  BY PoolAssumption, FS_Subset
<1>2. Cardinality(S) \in Nat
  BY <1>1, FS_CardinalityType
<1>3. f \notin S => Cardinality(S \cup {f}) = Cardinality(S) + 1
  BY <1>1, FS_AddElement
<1>4. f \in S => Cardinality(S \ {f}) = Cardinality(S) - 1
  BY <1>1, FS_RemoveElement
<1> QED
  BY <1>1, <1>2, <1>3, <1>4

LEMMA InitEstablishes == Init => IInv
<1> SUFFICES ASSUME Init PROVE IInv
  OBVIOUS
<1>1. TypeOK
  BY PoolAssumption DEF Init, TypeOK, Callers, NoPage, Orphans
<1>2. InsideFetches = {} /\ Launchers = {}
  BY PoolAssumption DEF Init, InsideFetches, Launchers, Inside, Starting, WithContext, Callers, Abandoned
<1>3. Cardinality(InsideFetches) = 0 /\ Cardinality(Launchers) = 0
  BY <1>2, FS_EmptySet
<1>4. SlotsAccounted /\ FewLaunchers
  BY <1>3, PoolAssumption DEF Init, SlotsAccounted, InsideFetches, FewLaunchers
<1>5. BrowsersKnown
  BY DEF Init, Callers, BrowsersKnown
<1> QED
  BY <1>1, <1>4, <1>5 DEF Init, IInv, OnlyFailuresLeak

(* Types. *)
LEMMA TypeStep == IInv /\ [Next]_vars => TypeOK'
<1> SUFFICES ASSUME TypeOK, SlotsAccounted, [Next]_vars,
                    pc[App] = "halting" => on[App] # NoBrowser
             PROVE  TypeOK'
  BY DEF IInv, BrowsersKnown
<1> USE PoolAssumption
<1> USE DEF TypeOK, Callers, Inside, Starting, WithContext, Ended, AppOnly, Pages, NoPage, Goto, Orphans
<1>s. ASSUME NEW f \in Fetches, pc[f] \in Inside
      PROVE  permits + 1 \in 0..MaxConcurrent
  <2>1. f \in InsideFetches /\ InsideFetches \in SUBSET Fetches
    BY <1>s DEF InsideFetches
  <2>2. Cardinality(InsideFetches) \in Nat /\ Cardinality(InsideFetches) # 0
    BY <2>1, InsideCounts, FS_EmptySet
  <2> QED
    BY <2>2 DEF SlotsAccounted, InsideFetches
<1>l. ASSUME NEW f \in Fetches, pc[f] \in Inside, NEW how \in Ended, Leave(f, how),
             open' \subseteq Fetches, orphan' \in [Fetches -> Orphans]
      PROVE  TypeOK'
  <2>1. permits' \in 0..MaxConcurrent
    BY <1>l, <1>s DEF Leave
  <2>2. pc' \in [Callers -> {"idle", "waiting"} \cup Inside \cup Ended \cup AppOnly]
    BY <1>l DEF Leave
  <2>3. html' \in [Fetches -> Pages \cup {NoPage}] /\ on' \in [Callers -> Callers \cup {NoBrowser}]
    BY <1>l DEF Leave
  <2>4. UNCHANGED <<queue, browser, driver, drivers, launched, closed>>
    BY <1>l DEF Leave, poolVars
  <2> QED
    BY <1>l, <2>1, <2>2, <2>3, <2>4
<1>u. ASSUME NEW f \in Fetches, Unqueue(f) PROVE queue' \in Seq(Fetches)
  BY <1>u DEF Unqueue, RemoveAt
<1>1. ASSUME NEW f \in Fetches, Fetch(f) PROVE TypeOK'
  <2>1. queue' \in Seq(Fetches)
    <3>1. Append(queue, f) \in Seq(Fetches)
      OBVIOUS
    <3> QED
      BY <1>1, <3>1 DEF Fetch
  <2> QED
    BY <1>1, <2>1 DEF Fetch, poolVars
<1>2. ASSUME NEW f \in Fetches, Enter(f) PROVE TypeOK'
  <2>1. /\ pc' \in [Callers -> {"idle", "waiting"} \cup Inside \cup Ended \cup AppOnly]
        /\ on' \in [Callers -> Callers \cup {NoBrowser}]
    <3>1. CASE browser = NoBrowser
      BY <1>2, <3>1 DEF Enter
    <3>2. CASE browser # NoBrowser
      BY <1>2, <3>2 DEF Enter
    <3> QED
      BY <3>1, <3>2
  <2>2. queue' \in Seq(Fetches) /\ permits' \in 0..MaxConcurrent
    BY <1>2 DEF Enter
  <2> QED
    BY <1>2, <2>1, <2>2 DEF Enter, poolVars
<1>3. ASSUME NEW c \in Callers, DriverUp(c) PROVE TypeOK'
  BY <1>3 DEF DriverUp
<1>4. ASSUME NEW c \in Callers, BrowserUp(c) PROVE TypeOK'
  BY <1>4 DEF BrowserUp
<1>5. ASSUME NEW c \in Callers, StartFails(c) PROVE TypeOK'
  <2>1. CASE c = App
    BY <1>5, <2>1 DEF StartFails, poolVars
  <2>2. CASE c # App
    BY <1>5, <2>2, <1>l DEF StartFails
  <2> QED
    BY <2>1, <2>2
<1>6. ASSUME NEW f \in Fetches, NewContext(f) \/ NewPage(f) \/ Inspect(f) \/ PageFails(f) PROVE TypeOK'
  BY <1>6 DEF NewContext, NewPage, Inspect, PageFails, poolVars
<1>7. ASSUME NEW f \in Fetches, SetupFails(f) \/ CloseFails(f) PROVE TypeOK'
  BY <1>7, <1>l DEF SetupFails, CloseFails
<1>8. ASSUME NEW f \in Fetches, Read(f) PROVE TypeOK'
  BY <1>8 DEF Read, poolVars
<1>9. ASSUME NEW f \in Fetches, Close(f) PROVE TypeOK'
  BY <1>9, <1>l DEF Close
<1>10. ASSUME NEW f \in Fetches, Cancel(f) PROVE TypeOK'
  <2>1. CASE pc[f] = "waiting"
    BY <1>10, <2>1, <1>u DEF Cancel, poolVars
  <2>2. CASE pc[f] \in Inside
    <3>1. orphan' \in [Fetches -> Orphans] /\ open' \subseteq Fetches
      BY <1>10, <2>2 DEF Cancel, Abandon
    <3> QED
      BY <1>10, <2>2, <3>1, <1>l DEF Cancel
  <2> QED
    BY <1>10, <2>1, <2>2 DEF Cancel
<1>11. ASSUME AppStarts \/ Stop \/ BrowserClosed \/ DriverStopped \/ StopFails PROVE TypeOK'
  <2>1. CASE AppStarts \/ StopFails
    BY <2>1 DEF AppStarts, StopFails, poolVars
  <2>2. CASE Stop
    BY <2>2 DEF Stop, StopDriverNext, poolVars
  <2>3. CASE BrowserClosed
    BY <2>3 DEF BrowserClosed, StopDriverNext
  <2>4. CASE DriverStopped
    BY <2>4 DEF DriverStopped
  <2> QED
    BY <1>11, <2>1, <2>2, <2>3, <2>4
<1>12. ASSUME NEW b \in Callers, BrowserDies(b) PROVE TypeOK'
  BY <1>12 DEF BrowserDies
<1>13. ASSUME UNCHANGED vars PROVE TypeOK'
  BY <1>13 DEF vars, poolVars
<1>14. ASSUME NEW f \in Fetches, DriverOrphaned(f) \/ BrowserOrphaned(f) PROVE TypeOK'
  BY <1>14 DEF DriverOrphaned, BrowserOrphaned
<1> QED
  BY <1>1, <1>2, <1>3, <1>4, <1>5, <1>6, <1>7, <1>8, <1>9, <1>10, <1>11, <1>12, <1>13, <1>14
     DEF Next, Step, Page, AppNext

(* Slots: taking one adds a fetch to those inside, every way out gives it   *)
(* back.                                                                    *)
LEMMA SlotStep == IInv /\ [Next]_vars => SlotsAccounted'
<1> SUFFICES ASSUME TypeOK, SlotsAccounted, [Next]_vars PROVE SlotsAccounted'
  BY DEF IInv
<1> USE PoolAssumption
<1> DEFINE S == InsideFetches
<1>0. /\ S \in SUBSET Fetches
      /\ Cardinality(S) \in Nat
      /\ permits \in Int
      /\ permits + Cardinality(S) = MaxConcurrent
      /\ SlotsAccounted' <=> permits' + Cardinality(S') = MaxConcurrent
  BY InsideCounts, FS_CardinalityType, FS_Subset DEF InsideFetches, SlotsAccounted, TypeOK
<1>same. ASSUME permits' = permits, S' = S PROVE SlotsAccounted'
  BY <1>0, <1>same
<1>leave. ASSUME NEW f \in Fetches, NEW how \in Ended, pc[f] \in Inside, Leave(f, how)
          PROVE  SlotsAccounted'
  <2>1. f \in S /\ S' = S \ {f}
    BY <1>leave DEF Leave, Goto, InsideFetches, TypeOK, Callers, Ended, Inside, Starting, WithContext
  <2>2. Cardinality(S') = Cardinality(S) - 1
    BY <2>1, <1>0, InsideCounts
  <2>3. permits' = permits + 1
    BY <1>leave DEF Leave
  <2> QED
    BY <2>2, <2>3, <1>0
<1> USE DEF TypeOK, Callers, Inside, Starting, WithContext, Ended, AppOnly, Goto, InsideFetches
<1>1. ASSUME NEW f \in Fetches, Fetch(f) PROVE SlotsAccounted'
  BY <1>1, <1>same DEF Fetch
<1>2. ASSUME NEW f \in Fetches, Enter(f) PROVE SlotsAccounted'
  <2>1. f \notin S /\ S' = S \cup {f}
    BY <1>2 DEF Enter
  <2>2. Cardinality(S') = Cardinality(S) + 1
    BY <2>1, <1>0, InsideCounts
  <2>3. permits' = permits - 1
    BY <1>2 DEF Enter
  <2> QED
    BY <2>2, <2>3, <1>0
<1>3. ASSUME NEW c \in Callers, DriverUp(c) PROVE SlotsAccounted'
  BY <1>3, <1>same DEF DriverUp
<1>4. ASSUME NEW c \in Callers, BrowserUp(c) PROVE SlotsAccounted'
  BY <1>4, <1>same DEF BrowserUp
<1>5. ASSUME NEW c \in Callers, StartFails(c) PROVE SlotsAccounted'
  <2>1. CASE c = App
    BY <1>5, <2>1, <1>same DEF StartFails
  <2>2. CASE c # App
    BY <1>5, <2>2, <1>leave DEF StartFails
  <2> QED
    BY <2>1, <2>2
<1>6. ASSUME NEW f \in Fetches, NewContext(f) \/ NewPage(f) \/ Inspect(f) \/ Read(f) \/ PageFails(f)
      PROVE  SlotsAccounted'
  BY <1>6, <1>same DEF NewContext, NewPage, Inspect, Read, PageFails
<1>7. ASSUME NEW f \in Fetches, SetupFails(f) \/ CloseFails(f) \/ Close(f) PROVE SlotsAccounted'
  BY <1>7, <1>leave DEF SetupFails, CloseFails, Close
<1>8. ASSUME NEW f \in Fetches, Cancel(f) PROVE SlotsAccounted'
  BY <1>8, <1>same, <1>leave DEF Cancel
<1>9. ASSUME AppStarts \/ Stop \/ BrowserClosed \/ DriverStopped \/ StopFails PROVE SlotsAccounted'
  BY <1>9, <1>same DEF AppStarts, Stop, BrowserClosed, DriverStopped, StopFails
<1>10. ASSUME NEW b \in Callers, BrowserDies(b) PROVE SlotsAccounted'
  BY <1>10, <1>same DEF BrowserDies
<1>11. ASSUME UNCHANGED vars PROVE SlotsAccounted'
  BY <1>11, <1>same DEF vars
<1>12. ASSUME NEW f \in Fetches, DriverOrphaned(f) \/ BrowserOrphaned(f) PROVE SlotsAccounted'
  BY <1>12, <1>same DEF DriverOrphaned, BrowserOrphaned
<1> QED
  BY <1>1, <1>2, <1>3, <1>4, <1>5, <1>6, <1>7, <1>8, <1>9, <1>10, <1>11, <1>12
     DEF Next, Step, Page, AppNext

(* Launches: a fetch joins the launchers only while nothing was launched    *)
(* but by cancelled starts, and then all of them hold a slot.               *)
LEMMA LaunchStep == IInv /\ [Next]_vars => FewLaunchers' /\ BrowsersKnown'
<1> SUFFICES ASSUME IInv, [Next]_vars PROVE FewLaunchers' /\ BrowsersKnown'
  OBVIOUS
<1> USE PoolAssumption
<1>0. TypeOK /\ Cardinality(Launchers) <= MaxConcurrent /\ IsFiniteSet(Launchers)
  BY FS_Subset, FS_Union DEF IInv, FewLaunchers, Launchers
<1>a. SlotsAccounted' /\ TypeOK'
  BY SlotStep, TypeStep
<1>b. ASSUME Launchers' \subseteq Launchers PROVE FewLaunchers'
  <2>1. Cardinality(Launchers') <= Cardinality(Launchers)
    BY <1>0, <1>b, FS_Subset
  <2>2. Cardinality(Launchers) \in Nat /\ Cardinality(Launchers') \in Nat
    BY <1>0, <1>b, FS_Subset, FS_CardinalityType
  <2> QED
    BY <2>1, <2>2, <1>0 DEF FewLaunchers
<1>c. ASSUME Launchers' \subseteq InsideFetches' PROVE FewLaunchers'
  <2>1. IsFiniteSet(InsideFetches') /\ IsFiniteSet(Launchers')
    BY <1>c, FS_Subset DEF InsideFetches
  <2>2. Cardinality(Launchers') <= Cardinality(InsideFetches')
    BY <2>1, <1>c, FS_Subset
  <2>3. Cardinality(InsideFetches') \in Nat /\ Cardinality(Launchers') \in Nat
    BY <2>1, FS_CardinalityType
  <2>4. permits' \in Nat /\ permits' + Cardinality(InsideFetches') = MaxConcurrent
    BY <1>a DEF SlotsAccounted, InsideFetches, TypeOK
  <2> QED
    BY <2>2, <2>3, <2>4 DEF FewLaunchers
<1> USE DEF IInv, BrowsersKnown, TypeOK, Callers, Inside, Starting, WithContext, Ended, AppOnly, Goto, Launchers, Abandoned, Orphans
<1>1. ASSUME NEW f \in Fetches, Fetch(f) PROVE BrowsersKnown' /\ Launchers' \subseteq Launchers
  BY <1>1 DEF Fetch, poolVars
<1>2. ASSUME NEW f \in Fetches, Enter(f)
      PROVE  BrowsersKnown' /\ (Launchers' \subseteq Launchers \/ Launchers' \subseteq InsideFetches')
  <2>1. BrowsersKnown'
    BY <1>2 DEF Enter, poolVars
  <2>2. CASE browser = NoBrowser
    BY <1>2, <2>2 DEF Enter, poolVars, InsideFetches
  <2>3. CASE browser # NoBrowser
    BY <1>2, <2>3 DEF Enter, poolVars
  <2> QED
    BY <2>1, <2>2, <2>3
<1>3. ASSUME NEW c \in Callers, DriverUp(c) \/ BrowserUp(c) PROVE BrowsersKnown' /\ Launchers' \subseteq Launchers
  BY <1>3 DEF DriverUp, BrowserUp
<1>4. ASSUME NEW c \in Callers, StartFails(c) PROVE BrowsersKnown' /\ Launchers' \subseteq Launchers
  BY <1>4 DEF StartFails, Leave, poolVars
<1>5. ASSUME NEW f \in Fetches, NewContext(f) \/ NewPage(f) \/ Inspect(f) \/ Read(f) \/ PageFails(f)
      PROVE  BrowsersKnown' /\ Launchers' \subseteq Launchers
  BY <1>5 DEF NewContext, NewPage, Inspect, Read, PageFails, poolVars
<1>6. ASSUME NEW f \in Fetches, SetupFails(f) \/ CloseFails(f) \/ Close(f)
      PROVE  BrowsersKnown' /\ Launchers' \subseteq Launchers
  BY <1>6 DEF SetupFails, CloseFails, Close, Leave, poolVars
<1>7. ASSUME NEW f \in Fetches, Cancel(f) PROVE BrowsersKnown' /\ Launchers' \subseteq Launchers
  BY <1>7 DEF Cancel, Abandon, Leave, poolVars
<1>8. ASSUME AppStarts \/ Stop \/ BrowserClosed \/ DriverStopped \/ StopFails
      PROVE  BrowsersKnown' /\ Launchers' \subseteq Launchers
  BY <1>8 DEF AppStarts, Stop, BrowserClosed, DriverStopped, StopFails, StopDriverNext, poolVars
<1>9. ASSUME NEW b \in Callers, BrowserDies(b) PROVE BrowsersKnown' /\ Launchers' \subseteq Launchers
  BY <1>9 DEF BrowserDies
<1>10. ASSUME UNCHANGED vars PROVE BrowsersKnown' /\ Launchers' \subseteq Launchers
  BY <1>10 DEF vars, poolVars
<1>11. ASSUME NEW f \in Fetches, DriverOrphaned(f) \/ BrowserOrphaned(f)
       PROVE  BrowsersKnown' /\ Launchers' \subseteq Launchers
  BY <1>11 DEF DriverOrphaned, BrowserOrphaned
<1> HIDE DEF IInv, BrowsersKnown, TypeOK, Goto, Launchers, Abandoned
<1> QED
  BY <1>1, <1>2, <1>3, <1>4, <1>5, <1>6, <1>7, <1>8, <1>9, <1>10, <1>11, <1>b, <1>c
     DEF Next, Step, Page, AppNext

(* Contexts. *)
LEMMA LeakStep == IInv /\ [Next]_vars => OnlyFailuresLeak'
<1> SUFFICES ASSUME TypeOK, OnlyFailuresLeak, [Next]_vars PROVE OnlyFailuresLeak'
  BY DEF IInv
<1> USE PoolAssumption
<1> USE DEF TypeOK, Callers, WithContext, Inside, Starting, Goto, OnlyFailuresLeak
<1>1. ASSUME NEW f \in Fetches, Fetch(f) \/ Enter(f) \/ Cancel(f) PROVE OnlyFailuresLeak'
  BY <1>1 DEF Fetch, Enter, Cancel, Abandon, Leave
<1>2. ASSUME NEW c \in Callers, DriverUp(c) \/ BrowserUp(c) \/ StartFails(c) PROVE OnlyFailuresLeak'
  BY <1>2 DEF DriverUp, BrowserUp, StartFails, Leave
<1>3. ASSUME NEW f \in Fetches, NewContext(f) \/ NewPage(f) \/ SetupFails(f) PROVE OnlyFailuresLeak'
  BY <1>3 DEF NewContext, NewPage, SetupFails, Leave
<1>4. ASSUME NEW f \in Fetches, Page(f) PROVE OnlyFailuresLeak'
  BY <1>4 DEF Page, Inspect, Read, Close, PageFails, CloseFails, Leave
<1>5. ASSUME AppStarts \/ Stop \/ BrowserClosed \/ DriverStopped \/ StopFails PROVE OnlyFailuresLeak'
  BY <1>5 DEF AppStarts, Stop, BrowserClosed, DriverStopped, StopFails
<1>6. ASSUME NEW b \in Callers, BrowserDies(b) PROVE OnlyFailuresLeak'
  BY <1>6 DEF BrowserDies
<1>7. ASSUME UNCHANGED vars PROVE OnlyFailuresLeak'
  BY <1>7 DEF vars
<1>8. ASSUME NEW f \in Fetches, DriverOrphaned(f) \/ BrowserOrphaned(f) PROVE OnlyFailuresLeak'
  BY <1>8 DEF DriverOrphaned, BrowserOrphaned
<1> QED
  BY <1>1, <1>2, <1>3, <1>4, <1>5, <1>6, <1>7, <1>8 DEF Next, Step, AppNext

THEOREM InvariantHolds == Spec => []IInv
<1>1. IInv /\ [Next]_vars => IInv'
  BY TypeStep, SlotStep, LaunchStep, LeakStep DEF IInv
<1> QED
  BY <1>1, InitEstablishes, PTL DEF Spec

(* The state of the pool, the semaphore and the fetches keeps its types.    *)
THEOREM TypesAreKept == Spec => []TypeOK
<1>1. IInv => TypeOK
  BY DEF IInv
<1> QED
  BY <1>1, InvariantHolds, PTL

(* No path out of fetch_page loses or invents a slot of the semaphore.      *)
THEOREM SlotsAreAccounted == Spec => []SlotsAccounted
<1>1. IInv => SlotsAccounted
  BY DEF IInv
<1> QED
  BY <1>1, InvariantHolds, PTL

(* The unguarded start of get_context launches at most MaxConcurrent        *)
(* browsers for the fetches that are not cancelled inside it, over the      *)
(* pool's whole life, however many others are.                              *)
THEOREM LaunchesAreBounded == Spec => []LaunchesBounded
<1>1. IInv => LaunchesBounded
  <2> SUFFICES ASSUME IInv PROVE LaunchesBounded
    OBVIOUS
  <2>1. (launched \cap Fetches) \ Abandoned \subseteq Launchers /\ IsFiniteSet(Launchers)
    BY PoolAssumption, FS_Subset DEF Launchers
  <2>2. Cardinality((launched \cap Fetches) \ Abandoned) <= Cardinality(Launchers)
    BY <2>1, FS_Subset
  <2>3. Cardinality((launched \cap Fetches) \ Abandoned) \in Nat /\ Cardinality(Launchers) \in Nat
    BY <2>1, FS_Subset, FS_CardinalityType
  <2> QED
    BY <2>2, <2>3, PoolAssumption DEF IInv, FewLaunchers, LaunchesBounded
<1> QED
  BY <1>1, InvariantHolds, PTL

(* A context outlives only a fetch that raised or was cancelled.            *)
THEOREM OnlyFailuresLeakContexts == Spec => []OnlyFailuresLeak
<1>1. IInv => OnlyFailuresLeak
  BY DEF IInv
<1> QED
  BY <1>1, InvariantHolds, PTL

(* Once stopped, a pool that had a browser launches no other, except what a *)
(* cancelled start had asked for before.                                    *)
THEOREM StoppedPoolStaysQuiet == Spec => QuietAfterStop
<1>1. IInv /\ [Next]_vars => [Quiet => Quiet' /\ launched' = launched]_vars
  <2> DEFINE Goal == Quiet' /\ launched' = launched
  <2> SUFFICES ASSUME IInv, Next, Quiet PROVE Goal
    BY DEF vars, poolVars
  <2> USE PoolAssumption
  <2>1. browser # NoBrowser
    BY DEF IInv, BrowsersKnown, Quiet
  <2> USE DEF IInv, TypeOK, Callers, Starting, Goto, Quiet, Abandoned, Orphans
  <2>2. ASSUME NEW f \in Fetches, Fetch(f) \/ Enter(f) PROVE Goal
    BY <2>2, <2>1 DEF Fetch, Enter, poolVars
  <2>3. ASSUME NEW f \in Fetches, Cancel(f) PROVE Goal
    BY <2>3 DEF Cancel, Abandon, Leave, poolVars, Inside
  <2>4. ASSUME NEW c \in Callers, DriverUp(c) \/ BrowserUp(c) \/ StartFails(c) PROVE Goal
    BY <2>4 DEF DriverUp, BrowserUp, StartFails
  <2>5. ASSUME NEW f \in Fetches, NewContext(f) \/ NewPage(f) \/ SetupFails(f) PROVE Goal
    BY <2>5 DEF NewContext, NewPage, SetupFails, Leave, poolVars
  <2>6. ASSUME NEW f \in Fetches, Page(f) PROVE Goal
    BY <2>6 DEF Page, Inspect, Read, Close, PageFails, CloseFails, Leave, poolVars
  <2>7. ASSUME AppStarts \/ Stop \/ BrowserClosed \/ DriverStopped \/ StopFails PROVE Goal
    BY <2>7 DEF AppStarts, Stop, BrowserClosed, DriverStopped, StopFails
  <2>8. ASSUME NEW f \in Fetches, DriverOrphaned(f) \/ BrowserOrphaned(f) PROVE Goal
    BY <2>8 DEF DriverOrphaned, BrowserOrphaned
  <2>9. ASSUME NEW b \in Callers, BrowserDies(b) PROVE Goal
    BY <2>9 DEF BrowserDies
  <2> HIDE DEF Goal, Quiet, IInv, TypeOK, Goto
  <2> QED
    BY <2>2, <2>3, <2>4, <2>5, <2>6, <2>7, <2>8, <2>9 DEF Next, Step, AppNext
<1> QED
  BY <1>1, InvariantHolds, PTL DEF Spec, QuietAfterStop
=============================================================================
