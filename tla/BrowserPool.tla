---------------------------- MODULE BrowserPool ----------------------------
(***************************************************************************)
(* PlaywrightBrowserPool (src/scraping/browser_pool.py): concurrent calls  *)
(* of fetch_page share one asyncio semaphore and one lazily started        *)
(* browser; the application may call start and stop beside them.           *)
(*                                                                         *)
(* A stretch of a coroutine between two awaits is one action.  Every       *)
(* caller starts Playwright at most once, so a driver and the browser      *)
(* launched from it are named after the caller that started them.          *)
(* Cancelling a coroutine does not take back what it asked Playwright for: *)
(* the driver and the browser come up all the same, without an owner.      *)
(***************************************************************************)
EXTENDS Integers, Sequences, FiniteSets, SequencesExt

CONSTANTS
    Fetches,        \* the calls of fetch_page
    Allowed,        \* those whose domain is_domain_allowed accepts
    App,            \* the application, which may call start and stop
    MaxConcurrent,  \* the semaphore's initial value
    NoBrowser       \* the value None of _browser and _playwright

ASSUME PoolAssumption ==
    /\ IsFiniteSet(Fetches)
    /\ Allowed \subseteq Fetches
    /\ MaxConcurrent \in Nat \ {0}
    /\ App \notin Fetches
    /\ NoBrowser \notin Fetches \cup {App}

VARIABLES
    pc,        \* caller -> the await it stands at, or how it ended
    queue,     \* the fetches waiting for the semaphore, in order
    permits,   \* the semaphore's value
    browser,   \* _browser
    driver,    \* _playwright
    drivers,   \* the Playwright drivers that run
    launched,  \* the browsers ever launched
    closed,    \* those of them that were closed or died
    orphan,    \* fetch -> what its cancelled start left under way
    on,        \* caller -> the browser its call was made on
    open,      \* the fetches whose browser context was created, not closed
    html       \* fetch -> what the page it is to return shows

poolVars == <<browser, driver, drivers, launched, closed>>
vars == <<pc, queue, permits, poolVars, orphan, on, open, html>>

Callers == Fetches \cup {App}
Pages == {"plain", "challenge"}
NoPage == "none"

Starting == {"starting", "launching"}
WithContext == {"paging", "loading", "dismissing", "reading", "closing", "failing"}
Inside == Starting \cup {"contexting"} \cup WithContext
Orphans == {"none", "driver", "browser", "landed"}
Ended == {"refused", "returned", "challenged", "raised", "cancelled"}
AppOnly == {"up", "halting", "stopping", "stopped"}

TypeOK ==
    /\ pc \in [Callers -> {"idle", "waiting"} \cup Inside \cup Ended \cup AppOnly]
    /\ queue \in Seq(Fetches)
    /\ permits \in 0..MaxConcurrent
    /\ browser \in Callers \cup {NoBrowser}
    /\ driver \in Callers \cup {NoBrowser}
    /\ drivers \subseteq Callers
    /\ launched \subseteq Callers
    /\ closed \subseteq Callers
    /\ orphan \in [Fetches -> Orphans]
    /\ on \in [Callers -> Callers \cup {NoBrowser}]
    /\ open \subseteq Fetches
    /\ html \in [Fetches -> Pages \cup {NoPage}]

Init ==
    /\ pc = [c \in Callers |-> "idle"]
    /\ queue = <<>>
    /\ permits = MaxConcurrent
    /\ browser = NoBrowser
    /\ driver = NoBrowser
    /\ drivers = {}
    /\ launched = {}
    /\ closed = {}
    /\ orphan = [f \in Fetches |-> "none"]
    /\ on = [c \in Callers |-> NoBrowser]
    /\ open = {}
    /\ html = [f \in Fetches |-> NoPage]

Goto(c, where) == pc' = [pc EXCEPT ![c] = where]
Running(b) == b \in launched \ closed

-----------------------------------------------------------------------------
(* The semaphore. *)

(* Faulty variant: the slot is given back only when nothing was raised.    *)
LeaveUnlessRaised(f, how) ==
    /\ Goto(f, how)
    /\ permits' = IF how = "raised" THEN permits ELSE permits + 1
    /\ html' = IF how = "returned" THEN html ELSE [html EXCEPT ![f] = NoPage]
    /\ on' = [on EXCEPT ![f] = NoBrowser]
    /\ UNCHANGED <<queue, poolVars>>

(* The end of the async with block, however it is left: the slot is free    *)
(* again, and of the coroutine's locals only a page returned survives.      *)
Leave(f, how) ==
    /\ Goto(f, how)
    /\ permits' = permits + 1
    /\ html' = IF how = "returned" THEN html ELSE [html EXCEPT ![f] = NoPage]
    /\ on' = [on EXCEPT ![f] = NoBrowser]
    /\ UNCHANGED <<queue, poolVars>>

(* f gives up its place among the waiters. *)
Unqueue(f) == \E i \in DOMAIN queue : queue[i] = f /\ queue' = RemoveAt(queue, i)

(* fetch_page up to the semaphore: refuse the domain, or queue up. *)
Fetch(f) ==
    /\ pc[f] = "idle"
    /\ IF f \in Allowed
         THEN Goto(f, "waiting") /\ queue' = Append(queue, f)
         ELSE Goto(f, "refused") /\ UNCHANGED queue
    /\ UNCHANGED <<permits, poolVars, orphan, on, open, html>>

(* Faulty variant: no semaphore around get_context.                        *)
EnterUnlimited(f) ==
    /\ pc[f] = "waiting"
    /\ Unqueue(f)
    /\ permits' = IF permits > 0 THEN permits - 1 ELSE 0
    /\ IF browser = NoBrowser
         THEN Goto(f, "starting") /\ UNCHANGED on
         ELSE Goto(f, "contexting") /\ on' = [on EXCEPT ![f] = browser]
    /\ UNCHANGED <<poolVars, orphan, open, html>>

(* The longest waiter gets the slot, and get_context runs up to its first   *)
(* await: start if there is no browser yet, new_context otherwise.          *)
Enter(f) ==
    /\ pc[f] = "waiting"
    /\ queue # <<>> /\ Head(queue) = f
    /\ permits > 0
    /\ queue' = Tail(queue)
    /\ permits' = permits - 1
    /\ IF browser = NoBrowser
         THEN Goto(f, "starting") /\ UNCHANGED on
         ELSE Goto(f, "contexting") /\ on' = [on EXCEPT ![f] = browser]
    /\ UNCHANGED <<poolVars, orphan, open, html>>

-----------------------------------------------------------------------------
(* start, called by get_context or by the application. *)

AppStarts ==
    /\ pc[App] = "idle"
    /\ Goto(App, "starting")
    /\ UNCHANGED <<queue, permits, poolVars, orphan, on, open, html>>

(* async_playwright().start() returned; the launch follows at once. *)
DriverUp(c) ==
    /\ pc[c] = "starting"
    /\ drivers' = drivers \cup {c}
    /\ driver' = c
    /\ Goto(c, "launching")
    /\ UNCHANGED <<queue, permits, browser, launched, closed, orphan, on, open, html>>

(* chromium.launch returned: _browser is overwritten, whatever it held, and *)
(* get_context asks the new one for a context.                              *)
BrowserUp(c) ==
    /\ pc[c] = "launching"
    /\ c \in drivers
    /\ launched' = launched \cup {c}
    /\ browser' = c
    /\ IF c = App
         THEN Goto(c, "up") /\ UNCHANGED on
         ELSE Goto(c, "contexting") /\ on' = [on EXCEPT ![c] = c]
    /\ UNCHANGED <<queue, permits, driver, drivers, closed, orphan, open, html>>

(* Either call raised. *)
StartFails(c) ==
    /\ pc[c] \in Starting
    /\ IF c = App
         THEN Goto(c, "raised") /\ UNCHANGED <<queue, permits, poolVars, on, html>>
         ELSE Leave(c, "raised")
    /\ UNCHANGED <<orphan, open>>

-----------------------------------------------------------------------------
(* The rest of fetch_page. *)

NewContext(f) ==
    /\ pc[f] = "contexting"
    /\ Running(on[f])
    /\ open' = open \cup {f}
    /\ Goto(f, "paging")
    /\ UNCHANGED <<queue, permits, poolVars, orphan, on, html>>

NewPage(f) ==
    /\ pc[f] = "paging"
    /\ Running(on[f])
    /\ Goto(f, "loading")
    /\ UNCHANGED <<queue, permits, poolVars, orphan, on, open, html>>

(* new_context or new_page raised: outside the try block, nothing is closed. *)
SetupFails(f) ==
    /\ pc[f] \in {"contexting", "paging"}
    /\ Leave(f, "raised")
    /\ UNCHANGED <<orphan, open>>

(* goto, the scroll, the wait and the first content(): what the page shows  *)
(* then decides between the challenge branch and a second content().        *)
Inspect(f) ==
    /\ pc[f] = "loading"
    /\ Running(on[f])
    /\ \E shown \in Pages : Goto(f, IF shown = "challenge" THEN "dismissing" ELSE "reading")
    /\ UNCHANGED <<queue, permits, poolVars, orphan, on, open, html>>

(* The second content(): the page's scripts went on in between. *)
Read(f) ==
    /\ pc[f] = "reading"
    /\ Running(on[f])
    /\ \E shown \in Pages : html' = [html EXCEPT ![f] = shown]
    /\ Goto(f, "closing")
    /\ UNCHANGED <<queue, permits, poolVars, orphan, on, open>>

(* Faulty variant: the challenge branch leaves the context open.           *)
CloseUnlessChallenged(f) ==
    /\ pc[f] \in {"dismissing", "closing", "failing"}
    /\ UNCHANGED orphan
    /\ open' = IF pc[f] = "dismissing" THEN open ELSE open \ {f}
    /\ Leave(f, CASE pc[f] = "dismissing" -> "challenged"
                  [] pc[f] = "closing" -> "returned"
                  [] pc[f] = "failing" -> "raised")

(* context.close() returned: on a challenge after its screenshot, with the   *)
(* page, or on an error.                                                    *)
Close(f) ==
    /\ pc[f] \in {"dismissing", "closing", "failing"}
    /\ UNCHANGED orphan
    /\ open' = open \ {f}
    /\ Leave(f, CASE pc[f] = "dismissing" -> "challenged"
                  [] pc[f] = "closing" -> "returned"
                  [] pc[f] = "failing" -> "raised")

(* A call in the try block raised, close() included: the error handler      *)
(* takes its suppressed screenshot and closes the context (again).          *)
PageFails(f) ==
    /\ pc[f] \in {"loading", "dismissing", "reading", "closing"}
    /\ Goto(f, "failing")
    /\ UNCHANGED <<queue, permits, poolVars, orphan, on, open, html>>

(* The error handler's close() raised. *)
CloseFails(f) ==
    /\ pc[f] = "failing"
    /\ Leave(f, "raised")
    /\ UNCHANGED <<orphan, open>>

(* What the await of a cancelled fetch had asked Playwright for happens all  *)
(* the same: a start or a launch goes on without it, a context may still be  *)
(* made or closed.                                                          *)
Abandon(f) ==
    /\ orphan' = CASE pc[f] = "starting"  -> [orphan EXCEPT ![f] = "driver"]
                   [] pc[f] = "launching" -> [orphan EXCEPT ![f] = "browser"]
                   [] OTHER               -> orphan
    /\ \/ open' = open
       \/ pc[f] = "contexting" /\ Running(on[f]) /\ open' = open \cup {f}
       \/ pc[f] \in {"dismissing", "closing", "failing"} /\ open' = open \ {f}

(* Faulty variant: a cancelled waiter gives back a slot it never had.      *)
CancelGivesSlot(f) ==
    \/ /\ pc[f] = "waiting"
       /\ Goto(f, "cancelled")
       /\ permits' = permits + 1
       /\ Unqueue(f)
       /\ UNCHANGED <<poolVars, orphan, on, open, html>>
    \/ pc[f] \in Inside /\ Leave(f, "cancelled") /\ Abandon(f)

(* The caller cancels fetch_page: CancelledError is no Exception, so no     *)
(* handler closes the context; the semaphore's block is left all the same.  *)
Cancel(f) ==
    \/ /\ pc[f] = "waiting"
       /\ Goto(f, "cancelled")
       /\ Unqueue(f)
       /\ UNCHANGED <<permits, poolVars, orphan, on, open, html>>
    \/ pc[f] \in Inside /\ Leave(f, "cancelled") /\ Abandon(f)

(* The driver a cancelled start asked for runs; nobody asks it to launch.   *)
DriverOrphaned(f) ==
    /\ orphan[f] = "driver"
    /\ drivers' = drivers \cup {f}
    /\ orphan' = [orphan EXCEPT ![f] = "landed"]
    /\ UNCHANGED <<pc, queue, permits, browser, driver, launched, closed, on, open, html>>

(* The Chromium a cancelled start asked for is up, unless stop was quicker   *)
(* to stop its driver.  _browser knows nothing of it.                       *)
BrowserOrphaned(f) ==
    /\ orphan[f] = "browser"
    /\ f \in drivers
    /\ launched' = launched \cup {f}
    /\ orphan' = [orphan EXCEPT ![f] = "landed"]
    /\ UNCHANGED <<pc, queue, permits, browser, driver, drivers, closed, on, open, html>>

-----------------------------------------------------------------------------
(* stop, and the browser process. *)

StopDriverNext == IF driver = NoBrowser THEN "stopped" ELSE "stopping"

(* stop up to its first await: it keeps hold of the _browser it read. *)
Stop ==
    /\ pc[App] \in {"idle", "up"}
    /\ IF browser = NoBrowser
         THEN Goto(App, StopDriverNext) /\ on' = [on EXCEPT ![App] = driver]
         ELSE Goto(App, "halting") /\ on' = [on EXCEPT ![App] = browser]
    /\ UNCHANGED <<queue, permits, poolVars, orphan, open, html>>

(* Faulty variant: stop forgets the browser, so that fetches start again.  *)
BrowserClosedAndReset ==
    /\ pc[App] = "halting"
    /\ closed' = closed \cup {on[App]}
    /\ browser' = NoBrowser
    /\ Goto(App, StopDriverNext)
    /\ on' = [on EXCEPT ![App] = driver]
    /\ UNCHANGED <<queue, permits, driver, drivers, launched, orphan, open, html>>

(* browser.close() returned; the driver is read and stopped next.  _browser *)
(* keeps the closed browser.                                                *)
BrowserClosed ==
    /\ pc[App] = "halting"
    /\ closed' = closed \cup {on[App]}
    /\ Goto(App, StopDriverNext)
    /\ on' = [on EXCEPT ![App] = driver]
    /\ UNCHANGED <<queue, permits, browser, driver, drivers, launched, orphan, open, html>>

(* playwright.stop() returned: the driver and the browser launched from it  *)
(* are gone.                                                                *)
DriverStopped ==
    /\ pc[App] = "stopping"
    /\ drivers' = drivers \ {on[App]}
    /\ closed' = closed \cup (launched \cap {on[App]})
    /\ Goto(App, "stopped")
    /\ on' = [on EXCEPT ![App] = NoBrowser]
    /\ UNCHANGED <<queue, permits, browser, driver, launched, orphan, open, html>>

(* Either call of stop raised. *)
StopFails ==
    /\ pc[App] \in {"halting", "stopping"}
    /\ Goto(App, "raised")
    /\ on' = [on EXCEPT ![App] = NoBrowser]
    /\ UNCHANGED <<queue, permits, poolVars, orphan, open, html>>

(* A Chromium process dies.  Nothing looks at it but the calls made on it. *)
BrowserDies(b) ==
    /\ Running(b)
    /\ closed' = closed \cup {b}
    /\ UNCHANGED <<pc, queue, permits, browser, driver, drivers, launched, orphan, on, open, html>>

-----------------------------------------------------------------------------
Page(f) == Inspect(f) \/ Read(f) \/ Close(f) \/ PageFails(f) \/ CloseFails(f)

Step(f) ==
    \/ Enter(f)
    \/ DriverUp(f) \/ BrowserUp(f) \/ StartFails(f)
    \/ NewContext(f) \/ NewPage(f) \/ SetupFails(f)
    \/ Page(f)

AppNext ==
    \/ AppStarts \/ DriverUp(App) \/ BrowserUp(App) \/ StartFails(App)
    \/ Stop \/ BrowserClosed \/ DriverStopped \/ StopFails

Next ==
    \/ \E f \in Fetches :
          Fetch(f) \/ Step(f) \/ Cancel(f) \/ DriverOrphaned(f) \/ BrowserOrphaned(f)
    \/ AppNext
    \/ \E b \in Callers : BrowserDies(b)

Spec == Init /\ [][Next]_vars

(* Every Playwright call returns or raises in the end (goto has a timeout,  *)
(* the local browser is assumed to answer), and the event loop runs every   *)
(* coroutine that can go on.  Nobody need call, cancel, start or stop       *)
(* anything.                                                                *)
FairSpec == Spec /\ \A f \in Fetches : WF_vars(Step(f))

-----------------------------------------------------------------------------
(* Properties. *)

(* The semaphore's slots are all accounted for: every path out of the async *)
(* with block of fetch_page gives back exactly the slot it took.            *)
SlotsAccounted ==
    permits + Cardinality({f \in Fetches : pc[f] \in Inside}) = MaxConcurrent

(* The semaphore queues exactly the fetches that wait, each once: one that  *)
(* was cancelled is not handed a slot that then nobody gives back.          *)
WaitersQueued ==
    /\ ToSet(queue) = {f \in Fetches : pc[f] = "waiting"}
    /\ IsInjective(queue)

(* The fetches that were cancelled inside start. *)
Abandoned == {f \in Fetches : orphan[f] # "none"}

(* get_context checks _browser before the await of start and never after,   *)
(* so several browsers can be launched; but never more than MaxConcurrent   *)
(* by fetches that were not cancelled inside start, over the whole life of  *)
(* the pool, whatever fails or stops.  A cancelled start sets no _browser   *)
(* and adds a browser of its own (BrowsersWithinSlots).                     *)
LaunchesBounded == Cardinality((launched \cap Fetches) \ Abandoned) <= MaxConcurrent

(* A browser context outlives its fetch only when the fetch raised or was   *)
(* cancelled: a page returned and a challenge reported leave none behind.   *)
OnlyFailuresLeak ==
    \A f \in open : pc[f] \in WithContext \cup {"raised", "cancelled"}

(* A stopped pool stays quiet: once stop is done with a pool that had a     *)
(* browser, no fetch is inside start and no launch is under way for one     *)
(* that was cancelled there, no fetch enters start again and no browser     *)
(* comes up which nobody would close (stop, get_context).                   *)
Quiet ==
    /\ pc[App] = "stopped"
    /\ launched \ Abandoned # {}
    /\ \A f \in Fetches : pc[f] \notin Starting /\ orphan[f] # "browser"

QuietAfterStop == [][Quiet => Quiet' /\ launched' = launched]_vars

(* Every fetch that waits for a slot gets it and ends: no slot is lost, and *)
(* no waiter is overtaken for ever.                                         *)
FetchesEnd == \A f \in Fetches : pc[f] = "waiting" ~> pc[f] \in Ended

(* Every browser fetches launch is paid for with a slot of the semaphore,   *)
(* cancellation included.                                                   *)
BrowsersWithinSlots == Cardinality(launched \cap Fetches) <= MaxConcurrent

(* The module's docstring: "auto-stops on challenge detection".  No fetch   *)
(* returns the page of a challenge.                                         *)
ReturnedPagesAreClean ==
    \A f \in Fetches : pc[f] = "returned" => html[f] # "challenge"

(* The error handler's comment: "Screenshot + close on any error".  A fetch *)
(* that raises before its page is loaded leaves no context open.            *)
ErrorsCloseContext ==
    [][\A f \in Fetches :
        pc[f] \in {"contexting", "paging", "loading"} /\ pc'[f] = "raised" => f \notin open']_vars
=============================================================================
