--------------------------- MODULE UsbEventsProofs --------------------------
(***************************************************************************)
(* The invariants of UsbEvents, for any number of threads: who holds which *)
(* lock, what the event pipe holds, which descriptors are polled, and that *)
(* nobody sleeps without a thread that will wake him.                      *)
(***************************************************************************)
EXTENDS UsbEvents, FiniteSetTheorems, TLAPS

(* Where a thread holds events_lock; has let the others see that it does;  *)
(* holds event_waiters_lock; counts as closing.                            *)
Holds  == {"activate", "build", "poll", "pipe", "hotplug", "reap", "deactivate", "unlock",
           "closer", "do_close", "closed"}
Shows  == {"build", "poll", "pipe", "hotplug", "reap", "deactivate", "do_close", "closed"}
Waits  == {"recheck", "closing?", "active?", "sleep"}
Closes == {"lock_events", "closer", "do_close", "closed"}
Wakes  == {"activate", "build", "poll", "pipe", "hotplug", "reap", "deactivate",
           "unlock", "broadcast", "lock_events", "closer", "do_close", "closed"}

Closing == {t \in Threads : pc[t] \in Closes}

(* The types but for the counter of closes, which is exact.                *)
KindOK ==
  /\ pc \in [Threads -> Places]
  /\ transfer \in [Threads -> {"none", "queued", "done"}]
  /\ completed \in [Threads -> BOOLEAN]
  /\ {events_lock, waiters_lock} \subseteq Threads \cup {None}
  /\ event_handler_active \in BOOLEAN /\ redo \in BOOLEAN
  /\ asleep \subseteq Threads
  /\ open \subseteq Threads /\ pulled \subseteq Threads /\ attached \subseteq Threads
  /\ fds \subseteq Threads /\ polled \subseteq Threads /\ errors \subseteq Threads
  /\ event_flags \subseteq {"POLLFDS_MODIFIED", "USER_INTERRUPT"}
  /\ hotplug_msgs \in Nat /\ others \in 0..MaxOthers
  /\ revents \subseteq Threads \cup {Pipe}

LockInv ==
  /\ \A t \in Threads : events_lock = t <=> pc[t] \in Holds
  /\ \A t \in Threads : waiters_lock = t <=> pc[t] \in Waits
  /\ event_handler_active <=> \E t \in Threads : pc[t] \in Shows

CloseInv == device_close = Cardinality(Closing)

(* A handler that has seen the pipe finds something pending, because only  *)
(* a thread with events_lock takes anything off.                           *)
PipeInv ==
  /\ \A t \in Threads : pc[t] = "pipe" => Pending
  /\ PipeTellsPending

(* A callback is made only by a handler that will poll again.              *)
PollInv ==
  /\ "POLLFDS_MODIFIED" \notin event_flags => polled = fds
  /\ fds \subseteq open
  /\ \A t \in Threads : pc[t] = "hotplug" => redo
  /\ PollsOpenDevices

(* Whoever is about to sleep, too, has somebody to wake him.               *)
SleepInv ==
  /\ \A t \in asleep : pc[t] = "asleep"
  /\ \A t \in Threads : pc[t] = "sleep" \/ t \in asleep =>
       \E u \in Threads : pc[u] \in Wakes

EventsInv == KindOK /\ LockInv /\ CloseInv /\ PipeInv /\ PollInv /\ SleepInv

LEMMA InitEstablishes == EventsInit => EventsInv
<1> SUFFICES ASSUME EventsInit PROVE EventsInv  OBVIOUS
<1> USE UsbEventsAssumption DEF EventsInit
<1>1. KindOK
  <2>1. others \in 0..MaxOthers /\ hotplug_msgs \in Nat
    OBVIOUS
  <2>2. pc \in [Threads -> Places] /\ transfer \in [Threads -> {"none", "queued", "done"}]
    BY DEF Places
  <2> QED BY <2>1, <2>2 DEF KindOK
<1>2. LockInv
  BY DEF LockInv, Holds, Waits, Shows
<1>3. CloseInv
  <2>1. Closing = {}
    BY DEF Closing, Closes
  <2> QED BY <2>1, FS_EmptySet DEF CloseInv
<1>4. PipeInv
  BY DEF PipeInv, PipeTellsPending, Pending, PendingOf
<1>5. PollInv /\ SleepInv
  BY DEF PollInv, PollsOpenDevices, SleepInv
<1> QED BY <1>1, <1>2, <1>3, <1>4, <1>5 DEF EventsInv

LEMMA KindStep == KindOK /\ [EventsNext]_vars => KindOK'
<1> SUFFICES ASSUME KindOK, [EventsNext]_vars PROVE KindOK'
  OBVIOUS
<1> USE DEF KindOK, Goto, Places, lockVars, devVars, pollVars, pendingVars, threadVars
<1>1. ASSUME NEW t \in Threads, Open(t) PROVE KindOK'
  BY <1>1, UsbEventsAssumption DEF Open, Notify
<1>2. ASSUME NEW t \in Threads, SubmitSync(t) PROVE KindOK'
  BY <1>2, UsbEventsAssumption DEF SubmitSync
<1>3. ASSUME NEW t \in Threads, Close(t) PROVE KindOK'
  BY <1>3, UsbEventsAssumption DEF Close, CountOther
<1>4. ASSUME NEW t \in Threads, SyncLoop(t) PROVE KindOK'
  BY <1>4, UsbEventsAssumption DEF SyncLoop
<1>5. ASSUME NEW t \in Threads, TryUnlessClosing(t) PROVE KindOK'
  BY <1>5, UsbEventsAssumption DEF TryUnlessClosing
<1>6. ASSUME NEW t \in Threads, TryLock(t) PROVE KindOK'
  BY <1>6, UsbEventsAssumption DEF TryLock
<1>7. ASSUME NEW t \in Threads, Activate(t, "activate", Held(t)) PROVE KindOK'
  BY <1>7, UsbEventsAssumption DEF Activate, Held
<1>8. ASSUME NEW t \in Threads, Build(t) PROVE KindOK'
  BY <1>8, UsbEventsAssumption DEF Build
<1>9. ASSUME NEW t \in Threads, Poll(t) PROVE KindOK'
  BY <1>9, UsbEventsAssumption DEF Poll, Ready
<1>10. ASSUME NEW t \in Threads, PollInterrupted(t) PROVE KindOK'
  <2>1. others' \in 0..MaxOthers /\ hotplug_msgs' \in Nat
    BY <1>10, UsbEventsAssumption DEF PollInterrupted, CountOther
  <2> QED BY <1>10, <2>1 DEF PollInterrupted
<1>11. ASSUME NEW t \in Threads, HandlePipe(t) PROVE KindOK'
  BY <1>11, UsbEventsAssumption DEF HandlePipe
<1>12. ASSUME NEW t \in Threads, Reap(t) PROVE KindOK'
  <2>1. PICK u \in revents : /\ \/ u \in open \cap errors /\ Disconnected(u)
                                \/ u \in open \ errors /\ Reaped(u)
                                \/ u \notin open /\ UNCHANGED <<transfer, completed, fds,
                                     attached, event_flags, hotplug_msgs, event_pipe>>
                            /\ revents' = revents \ {u} /\ errors' = errors \ {u}
    BY <1>12 DEF Reap
  <2>2. /\ pc' \in [Threads -> Places]
        /\ UNCHANGED <<lockVars, open, pulled, device_close, polled, redo, others>>
    BY <1>12 DEF Reap
  <2>3. u \in open => u \in Threads
    OBVIOUS
  <2>4. transfer' \in [Threads -> {"none", "queued", "done"}]
    BY <2>1, <2>3 DEF Disconnected, Reaped
  <2>5. completed' \in [Threads -> BOOLEAN]
    <3>1. CASE u \in open /\ Disconnected(u)
      BY <3>1, <2>3 DEF Disconnected
    <3>2. CASE u \in open /\ Reaped(u)
      BY <3>2, <2>3 DEF Reaped
    <3> QED BY <2>1, <3>1, <3>2
  <2>6. fds' \subseteq Threads /\ attached' \subseteq Threads /\ hotplug_msgs' \in Nat
    BY <2>1 DEF Disconnected, Reaped
  <2>7. event_flags' = event_flags \/ event_flags' = event_flags \cup {"POLLFDS_MODIFIED"}
    BY <2>1 DEF Disconnected, Reaped
  <2>8. revents' \subseteq Threads \cup {Pipe} /\ errors' \subseteq Threads
    BY <2>1
  <2> QED BY <2>2, <2>4, <2>5, <2>6, <2>7, <2>8
<1>13. ASSUME NEW t \in Threads, Deactivate(t) PROVE KindOK'
  BY <1>13, UsbEventsAssumption DEF Deactivate
<1>14. ASSUME NEW t \in Threads, Unlock(t) PROVE KindOK'
  BY <1>14, UsbEventsAssumption DEF Unlock
<1>15. ASSUME NEW t \in Threads, Broadcast(t) PROVE KindOK'
  BY <1>15, UsbEventsAssumption DEF Broadcast
<1>16. ASSUME NEW t \in Threads, LockWaiters(t) PROVE KindOK'
  BY <1>16, UsbEventsAssumption DEF LockWaiters
<1>17. ASSUME NEW t \in Threads, Recheck(t) PROVE KindOK'
  BY <1>17, UsbEventsAssumption DEF Recheck
<1>18. ASSUME NEW t \in Threads, IsClosing(t) PROVE KindOK'
  BY <1>18, UsbEventsAssumption DEF IsClosing
<1>19. ASSUME NEW t \in Threads, IsActive(t) PROVE KindOK'
  BY <1>19, UsbEventsAssumption DEF IsActive
<1>20. ASSUME NEW t \in Threads, Sleep(t) PROVE KindOK'
  BY <1>20, UsbEventsAssumption DEF Sleep
<1>21. ASSUME NEW t \in Threads, WakeUp(t) PROVE KindOK'
  BY <1>21, UsbEventsAssumption DEF WakeUp
<1>22. ASSUME NEW t \in Threads, LockEvents(t) PROVE KindOK'
  BY <1>22, UsbEventsAssumption DEF LockEvents
<1>23. ASSUME NEW t \in Threads, Activate(t, "closer", "do_close") PROVE KindOK'
  BY <1>23, UsbEventsAssumption DEF Activate
<1>24. ASSUME NEW t \in Threads, DoClose(t) PROVE KindOK'
  BY <1>24, UsbEventsAssumption DEF DoClose, usbi_remove_pollfd, Notify
<1>25. ASSUME NEW t \in Threads, Closed(t) PROVE KindOK'
  BY <1>25, UsbEventsAssumption DEF Closed
<1>26. ASSUME NEW t \in Threads, TransferEnds(t) PROVE KindOK'
  BY <1>26, UsbEventsAssumption DEF TransferEnds
<1>27. CASE InterruptEventHandler
  BY <1>27, UsbEventsAssumption DEF InterruptEventHandler, CountOther
<1>28. CASE HotplugNotification
  BY <1>28, UsbEventsAssumption DEF HotplugNotification, CountOther
<1>29. CASE UNCHANGED vars
  BY <1>29 DEF vars
<1>30. ASSUME NEW t \in Threads, HotplugCallback(t) PROVE KindOK'
  <2>1. /\ pc' \in [Threads -> Places]
    <3>1. CASE pc' = [pc EXCEPT ![t] = IF revents # {} THEN "reap" ELSE "poll"]
      BY <3>1
    <3>2. ASSUME NEW u, pc' = [[pc EXCEPT ![t] = IF revents # {} THEN "reap" ELSE "poll"]
                                 EXCEPT ![u] = "idle"]
          PROVE  pc' \in [Threads -> Places]
      BY <3>2
    <3> QED BY <1>30, <3>1, <3>2 DEF HotplugCallback
  <2>2. open' \subseteq Threads /\ fds' \subseteq Threads
    BY <1>30 DEF HotplugCallback, usbi_remove_pollfd
  <2>3. event_flags' = event_flags \/ event_flags' = event_flags \cup {"POLLFDS_MODIFIED"}
    BY <1>30 DEF HotplugCallback, usbi_remove_pollfd, Notify
  <2> QED BY <1>30, <2>1, <2>2, <2>3 DEF HotplugCallback
<1>31. ASSUME NEW t \in Threads, Unplug(t) PROVE KindOK'
  BY <1>31, UsbEventsAssumption DEF Unplug
<1> QED BY <1>1, <1>2, <1>3, <1>4, <1>5, <1>6, <1>7, <1>8, <1>9, <1>10, <1>11,
  <1>12, <1>13, <1>14, <1>15, <1>16, <1>17, <1>18, <1>19, <1>20, <1>21, <1>22,
  <1>23, <1>24, <1>25, <1>26, <1>27, <1>28, <1>29, <1>30, <1>31
  DEF EventsNext, Working

LEMMA LockStep == KindOK /\ LockInv /\ [EventsNext]_vars => LockInv'
<1> SUFFICES ASSUME KindOK, LockInv, [EventsNext]_vars PROVE LockInv'
  OBVIOUS
<1>0. pc \in [Threads -> Places] /\ None \notin Threads
  BY UsbEventsAssumption DEF KindOK
<1> USE <1>0 DEF LockInv, Goto, Holds, Shows, Waits, lockVars, devVars, pollVars, pendingVars, threadVars
<1>1. ASSUME NEW t \in Threads, Open(t) PROVE LockInv'
  BY <1>1 DEF Open, Notify
<1>2. ASSUME NEW t \in Threads, SubmitSync(t) PROVE LockInv'
  BY <1>2 DEF SubmitSync
<1>3. ASSUME NEW t \in Threads, Close(t) PROVE LockInv'
  BY <1>3 DEF Close, CountOther
<1>4. ASSUME NEW t \in Threads, SyncLoop(t) PROVE LockInv'
  BY <1>4 DEF SyncLoop
<1>5. ASSUME NEW t \in Threads, TryUnlessClosing(t) PROVE LockInv'
  BY <1>5 DEF TryUnlessClosing
<1>6. ASSUME NEW t \in Threads, TryLock(t) PROVE LockInv'
  BY <1>6 DEF TryLock
<1>7. ASSUME NEW t \in Threads, Activate(t, "activate", Held(t)) PROVE LockInv'
  BY <1>7 DEF Activate, Held
<1>8. ASSUME NEW t \in Threads, Build(t) PROVE LockInv'
  BY <1>8 DEF Build
<1>9. ASSUME NEW t \in Threads, Poll(t) PROVE LockInv'
  BY <1>9 DEF Poll, Ready
<1>10. ASSUME NEW t \in Threads, PollInterrupted(t) PROVE LockInv'
  BY <1>10 DEF PollInterrupted, CountOther
<1>11. ASSUME NEW t \in Threads, HandlePipe(t) PROVE LockInv'
  BY <1>11 DEF HandlePipe
<1>12. ASSUME NEW t \in Threads, Reap(t) PROVE LockInv'
  BY <1>12 DEF Reap, Disconnected, Reaped
<1>13. ASSUME NEW t \in Threads, Deactivate(t) PROVE LockInv'
  BY <1>13 DEF Deactivate
<1>14. ASSUME NEW t \in Threads, Unlock(t) PROVE LockInv'
  BY <1>14 DEF Unlock
<1>15. ASSUME NEW t \in Threads, Broadcast(t) PROVE LockInv'
  BY <1>15 DEF Broadcast
<1>16. ASSUME NEW t \in Threads, LockWaiters(t) PROVE LockInv'
  BY <1>16 DEF LockWaiters
<1>17. ASSUME NEW t \in Threads, Recheck(t) PROVE LockInv'
  BY <1>17 DEF Recheck
<1>18. ASSUME NEW t \in Threads, IsClosing(t) PROVE LockInv'
  BY <1>18 DEF IsClosing
<1>19. ASSUME NEW t \in Threads, IsActive(t) PROVE LockInv'
  BY <1>19 DEF IsActive
<1>20. ASSUME NEW t \in Threads, Sleep(t) PROVE LockInv'
  BY <1>20 DEF Sleep
<1>21. ASSUME NEW t \in Threads, WakeUp(t) PROVE LockInv'
  BY <1>21 DEF WakeUp
<1>22. ASSUME NEW t \in Threads, LockEvents(t) PROVE LockInv'
  BY <1>22 DEF LockEvents
<1>23. ASSUME NEW t \in Threads, Activate(t, "closer", "do_close") PROVE LockInv'
  BY <1>23 DEF Activate
<1>24. ASSUME NEW t \in Threads, DoClose(t) PROVE LockInv'
  BY <1>24 DEF DoClose, usbi_remove_pollfd, Notify
<1>25. ASSUME NEW t \in Threads, Closed(t) PROVE LockInv'
  BY <1>25 DEF Closed
<1>26. ASSUME NEW t \in Threads, TransferEnds(t) PROVE LockInv'
  BY <1>26 DEF TransferEnds
<1>27. CASE InterruptEventHandler
  BY <1>27 DEF InterruptEventHandler, CountOther
<1>28. CASE HotplugNotification
  BY <1>28 DEF HotplugNotification, CountOther
<1>29. CASE UNCHANGED vars
  BY <1>29 DEF vars
<1>30. ASSUME NEW t \in Threads, HotplugCallback(t) PROVE LockInv'
  BY <1>30 DEF HotplugCallback, usbi_remove_pollfd, Notify
<1>31. ASSUME NEW t \in Threads, Unplug(t) PROVE LockInv'
  BY <1>31 DEF Unplug
<1> QED BY <1>1, <1>2, <1>3, <1>4, <1>5, <1>6, <1>7, <1>8, <1>9, <1>10, <1>11,
  <1>12, <1>13, <1>14, <1>15, <1>16, <1>17, <1>18, <1>19, <1>20, <1>21, <1>22,
  <1>23, <1>24, <1>25, <1>26, <1>27, <1>28, <1>29, <1>30, <1>31
  DEF EventsNext, Working

(* A close adds to those that close, its end takes away.                   *)
LEMMA CloseStep == KindOK /\ CloseInv /\ [EventsNext]_vars => CloseInv'
<1> SUFFICES ASSUME KindOK, CloseInv, [EventsNext]_vars PROVE CloseInv'
  OBVIOUS
<1>0. IsFiniteSet(Closing) /\ pc \in [Threads -> Places]
  BY FS_Subset, UsbEventsAssumption DEF Closing, KindOK
<1> USE <1>0 DEF CloseInv, Goto, Closing, Closes, lockVars, devVars, pollVars, pendingVars, threadVars
<1>1. ASSUME NEW t \in Threads, Open(t) PROVE CloseInv'
  BY <1>1 DEF Open, Notify
<1>2. ASSUME NEW t \in Threads, SubmitSync(t) PROVE CloseInv'
  BY <1>2 DEF SubmitSync
<1>3. ASSUME NEW t \in Threads, Close(t) PROVE CloseInv'
  <2>1. Closing' = Closing \cup {t} /\ t \notin Closing
    BY <1>3 DEF Close
  <2> HIDE DEF Closing
  <2>2. Cardinality(Closing') = Cardinality(Closing) + 1
    BY <2>1, FS_AddElement
  <2> QED BY <1>3, <2>2 DEF Close
<1>4. ASSUME NEW t \in Threads, SyncLoop(t) PROVE CloseInv'
  BY <1>4 DEF SyncLoop
<1>5. ASSUME NEW t \in Threads, TryUnlessClosing(t) PROVE CloseInv'
  BY <1>5 DEF TryUnlessClosing
<1>6. ASSUME NEW t \in Threads, TryLock(t) PROVE CloseInv'
  BY <1>6 DEF TryLock
<1>7. ASSUME NEW t \in Threads, Activate(t, "activate", Held(t)) PROVE CloseInv'
  BY <1>7 DEF Activate, Held
<1>8. ASSUME NEW t \in Threads, Build(t) PROVE CloseInv'
  BY <1>8 DEF Build
<1>9. ASSUME NEW t \in Threads, Poll(t) PROVE CloseInv'
  BY <1>9 DEF Poll, Ready
<1>10. ASSUME NEW t \in Threads, PollInterrupted(t) PROVE CloseInv'
  BY <1>10 DEF PollInterrupted, CountOther
<1>11. ASSUME NEW t \in Threads, HandlePipe(t) PROVE CloseInv'
  BY <1>11 DEF HandlePipe
<1>12. ASSUME NEW t \in Threads, Reap(t) PROVE CloseInv'
  BY <1>12 DEF Reap, Disconnected, Reaped
<1>13. ASSUME NEW t \in Threads, Deactivate(t) PROVE CloseInv'
  BY <1>13 DEF Deactivate
<1>14. ASSUME NEW t \in Threads, Unlock(t) PROVE CloseInv'
  BY <1>14 DEF Unlock
<1>15. ASSUME NEW t \in Threads, Broadcast(t) PROVE CloseInv'
  BY <1>15 DEF Broadcast
<1>16. ASSUME NEW t \in Threads, LockWaiters(t) PROVE CloseInv'
  BY <1>16 DEF LockWaiters
<1>17. ASSUME NEW t \in Threads, Recheck(t) PROVE CloseInv'
  BY <1>17 DEF Recheck
<1>18. ASSUME NEW t \in Threads, IsClosing(t) PROVE CloseInv'
  BY <1>18 DEF IsClosing
<1>19. ASSUME NEW t \in Threads, IsActive(t) PROVE CloseInv'
  BY <1>19 DEF IsActive
<1>20. ASSUME NEW t \in Threads, Sleep(t) PROVE CloseInv'
  BY <1>20 DEF Sleep
<1>21. ASSUME NEW t \in Threads, WakeUp(t) PROVE CloseInv'
  BY <1>21 DEF WakeUp
<1>22. ASSUME NEW t \in Threads, LockEvents(t) PROVE CloseInv'
  BY <1>22 DEF LockEvents
<1>23. ASSUME NEW t \in Threads, Activate(t, "closer", "do_close") PROVE CloseInv'
  BY <1>23 DEF Activate
<1>24. ASSUME NEW t \in Threads, DoClose(t) PROVE CloseInv'
  BY <1>24 DEF DoClose, usbi_remove_pollfd, Notify
<1>25. ASSUME NEW t \in Threads, Closed(t) PROVE CloseInv'
  <2>1. Closing' = Closing \ {t} /\ t \in Closing
    BY <1>25 DEF Closed
  <2> HIDE DEF Closing
  <2>2. Cardinality(Closing') = Cardinality(Closing) - 1
    BY <2>1, FS_RemoveElement
  <2> QED BY <1>25, <2>2 DEF Closed
<1>26. ASSUME NEW t \in Threads, TransferEnds(t) PROVE CloseInv'
  BY <1>26 DEF TransferEnds
<1>27. CASE InterruptEventHandler
  BY <1>27 DEF InterruptEventHandler, CountOther
<1>28. CASE HotplugNotification
  BY <1>28 DEF HotplugNotification, CountOther
<1>29. CASE UNCHANGED vars
  BY <1>29 DEF vars
<1>30. ASSUME NEW t \in Threads, HotplugCallback(t) PROVE CloseInv'
  BY <1>30 DEF HotplugCallback, usbi_remove_pollfd, Notify
<1>31. ASSUME NEW t \in Threads, Unplug(t) PROVE CloseInv'
  BY <1>31 DEF Unplug
<1> QED BY <1>1, <1>2, <1>3, <1>4, <1>5, <1>6, <1>7, <1>8, <1>9, <1>10, <1>11,
  <1>12, <1>13, <1>14, <1>15, <1>16, <1>17, <1>18, <1>19, <1>20, <1>21, <1>22,
  <1>23, <1>24, <1>25, <1>26, <1>27, <1>28, <1>29, <1>30, <1>31
  DEF EventsNext, Working

LEMMA ClosersCount ==
  ASSUME KindOK, CloseInv
  PROVE /\ device_close \in 0..Cardinality(Threads)
        /\ \A t \in Threads : pc[t] \in Closes => device_close > 0
        /\ device_close > 0 => \E t \in Threads : pc[t] \in Closes
<1>1. /\ IsFiniteSet(Closing) /\ Cardinality(Closing) \in Nat
      /\ Cardinality(Threads) \in Nat
      /\ Cardinality(Closing) <= Cardinality(Threads)
  BY FS_Subset, FS_CardinalityType, UsbEventsAssumption DEF Closing
<1>2. Cardinality(Closing) = 0 <=> Closing = {}
  BY <1>1, FS_EmptySet
<1>3. Closing = {} <=> \A t \in Threads : pc[t] \notin Closes
  BY DEF Closing
<1> HIDE DEF Closing
<1> QED BY <1>1, <1>2, <1>3 DEF CloseInv

LEMMA PipeStep ==
  KindOK /\ LockInv /\ CloseInv /\ PipeInv /\ [EventsNext]_vars => PipeInv'
<1> SUFFICES ASSUME KindOK, LockInv, CloseInv, PipeInv, [EventsNext]_vars PROVE PipeInv'
  OBVIOUS
<1>0. /\ pc \in [Threads -> Places] /\ None \notin Threads
      /\ device_close \in Nat /\ hotplug_msgs \in Nat
      /\ \A t \in Threads : pc[t] \in Closes => device_close > 0
      /\ \A t, u \in Threads : pc[t] \in Holds /\ pc[u] \in Holds => t = u
  <2>1. hotplug_msgs \in Nat /\ Cardinality(Threads) \in Nat
    BY FS_CardinalityType, UsbEventsAssumption DEF KindOK
  <2> QED BY <2>1, ClosersCount, UsbEventsAssumption DEF KindOK, LockInv
<1> USE <1>0 DEF PipeInv, PipeTellsPending, Pending, PendingOf, Goto, Holds, Closes,
                 lockVars, devVars, pollVars, pendingVars, threadVars
<1>1. ASSUME NEW t \in Threads, Open(t) PROVE PipeInv'
  BY <1>1 DEF Open, Notify, Signal
<1>2. ASSUME NEW t \in Threads, SubmitSync(t) PROVE PipeInv'
  BY <1>2 DEF SubmitSync
<1>3. ASSUME NEW t \in Threads, Close(t) PROVE PipeInv'
  BY <1>3 DEF Close, CountOther, Signal
<1>4. ASSUME NEW t \in Threads, SyncLoop(t) PROVE PipeInv'
  BY <1>4 DEF SyncLoop
<1>5. ASSUME NEW t \in Threads, TryUnlessClosing(t) PROVE PipeInv'
  BY <1>5 DEF TryUnlessClosing
<1>6. ASSUME NEW t \in Threads, TryLock(t) PROVE PipeInv'
  BY <1>6 DEF TryLock
<1>7. ASSUME NEW t \in Threads, Activate(t, "activate", Held(t)) PROVE PipeInv'
  BY <1>7 DEF Activate, Held
<1>8. ASSUME NEW t \in Threads, Build(t) PROVE PipeInv'
  BY <1>8 DEF Build, ClearIfIdle
<1>9. ASSUME NEW t \in Threads, Poll(t) PROVE PipeInv'
  <2>1. pc'[t] = "pipe" => event_pipe > 0
    BY <1>9, UsbEventsAssumption DEF Poll, Ready, KindOK
  <2> QED BY <1>9, <2>1 DEF Poll
<1>10. ASSUME NEW t \in Threads, PollInterrupted(t) PROVE PipeInv'
  BY <1>10 DEF PollInterrupted, CountOther
<1>11. ASSUME NEW t \in Threads, HandlePipe(t) PROVE PipeInv'
  BY <1>11 DEF HandlePipe, ClearIfIdle
<1>12. ASSUME NEW t \in Threads, Reap(t) PROVE PipeInv'
  BY <1>12 DEF Reap, Disconnected, Reaped, Signal
<1>13. ASSUME NEW t \in Threads, Deactivate(t) PROVE PipeInv'
  BY <1>13 DEF Deactivate
<1>14. ASSUME NEW t \in Threads, Unlock(t) PROVE PipeInv'
  BY <1>14 DEF Unlock
<1>15. ASSUME NEW t \in Threads, Broadcast(t) PROVE PipeInv'
  BY <1>15 DEF Broadcast
<1>16. ASSUME NEW t \in Threads, LockWaiters(t) PROVE PipeInv'
  BY <1>16 DEF LockWaiters
<1>17. ASSUME NEW t \in Threads, Recheck(t) PROVE PipeInv'
  BY <1>17 DEF Recheck
<1>18. ASSUME NEW t \in Threads, IsClosing(t) PROVE PipeInv'
  BY <1>18 DEF IsClosing
<1>19. ASSUME NEW t \in Threads, IsActive(t) PROVE PipeInv'
  BY <1>19 DEF IsActive
<1>20. ASSUME NEW t \in Threads, Sleep(t) PROVE PipeInv'
  BY <1>20 DEF Sleep
<1>21. ASSUME NEW t \in Threads, WakeUp(t) PROVE PipeInv'
  BY <1>21 DEF WakeUp
<1>22. ASSUME NEW t \in Threads, LockEvents(t) PROVE PipeInv'
  BY <1>22 DEF LockEvents
<1>23. ASSUME NEW t \in Threads, Activate(t, "closer", "do_close") PROVE PipeInv'
  BY <1>23 DEF Activate
<1>24. ASSUME NEW t \in Threads, DoClose(t) PROVE PipeInv'
  BY <1>24 DEF DoClose, usbi_remove_pollfd, Notify, Signal
<1>25. ASSUME NEW t \in Threads, Closed(t) PROVE PipeInv'
  BY <1>25 DEF Closed, ClearIfIdle
<1>26. ASSUME NEW t \in Threads, TransferEnds(t) PROVE PipeInv'
  BY <1>26 DEF TransferEnds
<1>27. CASE InterruptEventHandler
  BY <1>27 DEF InterruptEventHandler, CountOther, Signal
<1>28. CASE HotplugNotification
  BY <1>28 DEF HotplugNotification, CountOther, Signal
<1>29. CASE UNCHANGED vars
  BY <1>29 DEF vars
<1>30. ASSUME NEW t \in Threads, HotplugCallback(t) PROVE PipeInv'
  BY <1>30 DEF HotplugCallback, usbi_remove_pollfd, Notify, Signal
<1>31. ASSUME NEW t \in Threads, Unplug(t) PROVE PipeInv'
  BY <1>31 DEF Unplug
<1> QED BY <1>1, <1>2, <1>3, <1>4, <1>5, <1>6, <1>7, <1>8, <1>9, <1>10, <1>11,
  <1>12, <1>13, <1>14, <1>15, <1>16, <1>17, <1>18, <1>19, <1>20, <1>21, <1>22,
  <1>23, <1>24, <1>25, <1>26, <1>27, <1>28, <1>29, <1>30, <1>31
  DEF EventsNext, Working

LEMMA PollStep == KindOK /\ LockInv /\ PollInv /\ [EventsNext]_vars => PollInv'
<1> SUFFICES ASSUME KindOK, LockInv, PollInv, [EventsNext]_vars PROVE PollInv'
  OBVIOUS
<1>0. /\ pc \in [Threads -> Places]
      /\ \A t, u \in Threads : pc[t] \in Holds /\ pc[u] \in Holds => t = u
  BY UsbEventsAssumption DEF KindOK, LockInv
<1> USE <1>0 DEF PollInv, PollsOpenDevices, Goto, Holds, lockVars, devVars, pollVars, pendingVars,
                 threadVars
<1>1. ASSUME NEW t \in Threads, Open(t) PROVE PollInv'
  BY <1>1 DEF Open, Notify
<1>2. ASSUME NEW t \in Threads, SubmitSync(t) PROVE PollInv'
  BY <1>2 DEF SubmitSync
<1>3. ASSUME NEW t \in Threads, Close(t) PROVE PollInv'
  BY <1>3 DEF Close, CountOther
<1>4. ASSUME NEW t \in Threads, SyncLoop(t) PROVE PollInv'
  BY <1>4 DEF SyncLoop
<1>5. ASSUME NEW t \in Threads, TryUnlessClosing(t) PROVE PollInv'
  BY <1>5 DEF TryUnlessClosing
<1>6. ASSUME NEW t \in Threads, TryLock(t) PROVE PollInv'
  BY <1>6 DEF TryLock
<1>7. ASSUME NEW t \in Threads, Activate(t, "activate", Held(t)) PROVE PollInv'
  BY <1>7 DEF Activate, Held
<1>8. ASSUME NEW t \in Threads, Build(t) PROVE PollInv'
  BY <1>8 DEF Build
<1>9. ASSUME NEW t \in Threads, Poll(t) PROVE PollInv'
  BY <1>9 DEF Poll, Ready
<1>10. ASSUME NEW t \in Threads, PollInterrupted(t) PROVE PollInv'
  BY <1>10 DEF PollInterrupted, CountOther
<1>11. ASSUME NEW t \in Threads, HandlePipe(t) PROVE PollInv'
  BY <1>11 DEF HandlePipe
<1>12. ASSUME NEW t \in Threads, Reap(t) PROVE PollInv'
  BY <1>12 DEF Reap, Disconnected, Reaped
<1>13. ASSUME NEW t \in Threads, Deactivate(t) PROVE PollInv'
  BY <1>13 DEF Deactivate
<1>14. ASSUME NEW t \in Threads, Unlock(t) PROVE PollInv'
  BY <1>14 DEF Unlock
<1>15. ASSUME NEW t \in Threads, Broadcast(t) PROVE PollInv'
  BY <1>15 DEF Broadcast
<1>16. ASSUME NEW t \in Threads, LockWaiters(t) PROVE PollInv'
  BY <1>16 DEF LockWaiters
<1>17. ASSUME NEW t \in Threads, Recheck(t) PROVE PollInv'
  BY <1>17 DEF Recheck
<1>18. ASSUME NEW t \in Threads, IsClosing(t) PROVE PollInv'
  BY <1>18 DEF IsClosing
<1>19. ASSUME NEW t \in Threads, IsActive(t) PROVE PollInv'
  BY <1>19 DEF IsActive
<1>20. ASSUME NEW t \in Threads, Sleep(t) PROVE PollInv'
  BY <1>20 DEF Sleep
<1>21. ASSUME NEW t \in Threads, WakeUp(t) PROVE PollInv'
  BY <1>21 DEF WakeUp
<1>22. ASSUME NEW t \in Threads, LockEvents(t) PROVE PollInv'
  BY <1>22 DEF LockEvents
<1>23. ASSUME NEW t \in Threads, Activate(t, "closer", "do_close") PROVE PollInv'
  BY <1>23 DEF Activate
<1>24. ASSUME NEW t \in Threads, DoClose(t) PROVE PollInv'
  BY <1>24 DEF DoClose, usbi_remove_pollfd, Notify
<1>25. ASSUME NEW t \in Threads, Closed(t) PROVE PollInv'
  BY <1>25 DEF Closed
<1>26. ASSUME NEW t \in Threads, TransferEnds(t) PROVE PollInv'
  BY <1>26 DEF TransferEnds
<1>27. CASE InterruptEventHandler
  BY <1>27 DEF InterruptEventHandler, CountOther
<1>28. CASE HotplugNotification
  BY <1>28 DEF HotplugNotification, CountOther
<1>29. CASE UNCHANGED vars
  BY <1>29 DEF vars
<1>30. ASSUME NEW t \in Threads, HotplugCallback(t) PROVE PollInv'
  BY <1>30 DEF HotplugCallback, usbi_remove_pollfd, Notify
<1>31. ASSUME NEW t \in Threads, Unplug(t) PROVE PollInv'
  BY <1>31 DEF Unplug
<1> QED BY <1>1, <1>2, <1>3, <1>4, <1>5, <1>6, <1>7, <1>8, <1>9, <1>10, <1>11,
  <1>12, <1>13, <1>14, <1>15, <1>16, <1>17, <1>18, <1>19, <1>20, <1>21, <1>22,
  <1>23, <1>24, <1>25, <1>26, <1>27, <1>28, <1>29, <1>30, <1>31
  DEF EventsNext, Working

(* Only a broadcast ends a thread's being able to wake: it wakes all who   *)
(* sleep, and while it has the waiters' lock nobody is about to.           *)
LEMMA SleepStep ==
  KindOK /\ LockInv /\ CloseInv /\ SleepInv /\ [EventsNext]_vars => SleepInv'
<1> SUFFICES ASSUME KindOK, LockInv, CloseInv, SleepInv, [EventsNext]_vars PROVE SleepInv'
  OBVIOUS
<1>0. /\ pc \in [Threads -> Places] /\ asleep \subseteq Threads /\ None \notin Threads
      /\ device_close > 0 => \E t \in Threads : pc[t] \in Closes
      /\ event_handler_active => \E t \in Threads : pc[t] \in Shows
      /\ \A t \in Threads : pc[t] \in Waits => waiters_lock = t
  BY ClosersCount, UsbEventsAssumption DEF KindOK, LockInv
<1> USE <1>0 DEF SleepInv, Goto, Wakes, Closes, Shows, Waits, lockVars, devVars, pollVars, pendingVars,
                 threadVars
<1>1. ASSUME NEW t \in Threads, Open(t) PROVE SleepInv'
  BY <1>1 DEF Open, Notify
<1>2. ASSUME NEW t \in Threads, SubmitSync(t) PROVE SleepInv'
  BY <1>2 DEF SubmitSync
<1>3. ASSUME NEW t \in Threads, Close(t) PROVE SleepInv'
  BY <1>3 DEF Close, CountOther
<1>4. ASSUME NEW t \in Threads, SyncLoop(t) PROVE SleepInv'
  BY <1>4 DEF SyncLoop
<1>5. ASSUME NEW t \in Threads, TryUnlessClosing(t) PROVE SleepInv'
  BY <1>5 DEF TryUnlessClosing
<1>6. ASSUME NEW t \in Threads, TryLock(t) PROVE SleepInv'
  BY <1>6 DEF TryLock
<1>7. ASSUME NEW t \in Threads, Activate(t, "activate", Held(t)) PROVE SleepInv'
  BY <1>7 DEF Activate, Held
<1>8. ASSUME NEW t \in Threads, Build(t) PROVE SleepInv'
  BY <1>8 DEF Build
<1>9. ASSUME NEW t \in Threads, Poll(t) PROVE SleepInv'
  BY <1>9 DEF Poll, Ready
<1>10. ASSUME NEW t \in Threads, PollInterrupted(t) PROVE SleepInv'
  BY <1>10 DEF PollInterrupted, CountOther
<1>11. ASSUME NEW t \in Threads, HandlePipe(t) PROVE SleepInv'
  BY <1>11 DEF HandlePipe
<1>12. ASSUME NEW t \in Threads, Reap(t) PROVE SleepInv'
  BY <1>12 DEF Reap, Disconnected, Reaped
<1>13. ASSUME NEW t \in Threads, Deactivate(t) PROVE SleepInv'
  BY <1>13 DEF Deactivate
<1>14. ASSUME NEW t \in Threads, Unlock(t) PROVE SleepInv'
  BY <1>14 DEF Unlock
<1>15. ASSUME NEW t \in Threads, Broadcast(t) PROVE SleepInv'
  BY <1>15 DEF Broadcast
<1>16. ASSUME NEW t \in Threads, LockWaiters(t) PROVE SleepInv'
  BY <1>16 DEF LockWaiters
<1>17. ASSUME NEW t \in Threads, Recheck(t) PROVE SleepInv'
  BY <1>17 DEF Recheck
<1>18. ASSUME NEW t \in Threads, IsClosing(t) PROVE SleepInv'
  BY <1>18 DEF IsClosing
<1>19. ASSUME NEW t \in Threads, IsActive(t) PROVE SleepInv'
  BY <1>19 DEF IsActive
<1>20. ASSUME NEW t \in Threads, Sleep(t) PROVE SleepInv'
  BY <1>20 DEF Sleep
<1>21. ASSUME NEW t \in Threads, WakeUp(t) PROVE SleepInv'
  BY <1>21 DEF WakeUp
<1>22. ASSUME NEW t \in Threads, LockEvents(t) PROVE SleepInv'
  BY <1>22 DEF LockEvents
<1>23. ASSUME NEW t \in Threads, Activate(t, "closer", "do_close") PROVE SleepInv'
  BY <1>23 DEF Activate
<1>24. ASSUME NEW t \in Threads, DoClose(t) PROVE SleepInv'
  BY <1>24 DEF DoClose, usbi_remove_pollfd, Notify
<1>25. ASSUME NEW t \in Threads, Closed(t) PROVE SleepInv'
  BY <1>25 DEF Closed
<1>26. ASSUME NEW t \in Threads, TransferEnds(t) PROVE SleepInv'
  BY <1>26 DEF TransferEnds
<1>27. CASE InterruptEventHandler
  BY <1>27 DEF InterruptEventHandler, CountOther
<1>28. CASE HotplugNotification
  BY <1>28 DEF HotplugNotification, CountOther
<1>29. CASE UNCHANGED vars
  BY <1>29 DEF vars
<1>30. ASSUME NEW t \in Threads, HotplugCallback(t) PROVE SleepInv'
  BY <1>30 DEF HotplugCallback, usbi_remove_pollfd, Notify
<1>31. ASSUME NEW t \in Threads, Unplug(t) PROVE SleepInv'
  BY <1>31 DEF Unplug
<1> QED BY <1>1, <1>2, <1>3, <1>4, <1>5, <1>6, <1>7, <1>8, <1>9, <1>10, <1>11,
  <1>12, <1>13, <1>14, <1>15, <1>16, <1>17, <1>18, <1>19, <1>20, <1>21, <1>22,
  <1>23, <1>24, <1>25, <1>26, <1>27, <1>28, <1>29, <1>30, <1>31
  DEF EventsNext, Working

LEMMA InvStep == EventsInv /\ [EventsNext]_vars => EventsInv'
BY KindStep, LockStep, CloseStep, PipeStep, PollStep, SleepStep DEF EventsInv

LEMMA InvImplies ==
  EventsInv => EventsTypeOK /\ PipeTellsPending /\ PollsOpenDevices /\ SleepersAreWoken
<1> SUFFICES ASSUME EventsInv
             PROVE EventsTypeOK /\ PipeTellsPending /\ PollsOpenDevices /\ SleepersAreWoken
  OBVIOUS
<1>1. PipeTellsPending /\ PollsOpenDevices
  BY DEF EventsInv, PipeInv, PollInv
<1>2. SleepersAreWoken
  BY DEF EventsInv, SleepInv, KindOK, SleepersAreWoken, Wakes
<1>3. EventsTypeOK
  <2>1. device_close \in 0..Cardinality(Threads)
    BY ClosersCount DEF EventsInv
  <2>2. event_pipe \in Nat
    BY <1>1 DEF PipeTellsPending
  <2> QED BY <2>1, <2>2 DEF EventsInv, KindOK, EventsTypeOK
<1> QED BY <1>1, <1>2, <1>3

LEMMA EventsInvariant == EventsSpec => []EventsInv
BY InitEstablishes, InvStep, PTL DEF EventsSpec

(* Every variable keeps its type; device_close is the number of threads    *)
(* that are closing a device.                                              *)
THEOREM EventsTypeCorrect == EventsSpec => []EventsTypeOK
BY EventsInvariant, InvImplies, PTL

(* For any number of threads, the event pipe holds a byte exactly as long  *)
(* as something is pending.                                                *)
THEOREM PipeCorrect == EventsSpec => []PipeTellsPending
BY EventsInvariant, InvImplies, PTL

(* For any number of threads, a poll that may block has descriptors of     *)
(* open devices only, and only a callback closes a device under a handler. *)
THEOREM PollsCorrect == EventsSpec => []PollsOpenDevices
BY EventsInvariant, InvImplies, PTL

(* For any number of threads, whoever sleeps has somebody who will wake    *)
(* him: no interleaving of the handing over of event handling loses it.    *)
THEOREM SleepersCorrect == EventsSpec => []SleepersAreWoken
BY EventsInvariant, InvImplies, PTL
=============================================================================
