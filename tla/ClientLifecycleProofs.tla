------------------------ MODULE ClientLifecycleProofs ------------------------
(***************************************************************************)
(* Theorems about ClientLifecycle: a control is asked to close at most     *)
(* once, and the Client.close() that closed the client leaves no control   *)
(* open that it promised to close, for any number of controls and callers. *)
(*                                                                         *)
(* The argument for ClosesOnceAndAll.  _closing is set in the step in      *)
(* which a call decides to write the request, so at most one call ever     *)
(* writes it (RequestInv).  Until the client is closed every open control  *)
(* is registered, unless its done future was cancelled (OwnerInv); from    *)
(* then on a promised control that is still open is in the snapshot        *)
(* Client.close() iterates over, or being closed (PromiseInv); and the     *)
(* client itself cancels futures of closed controls only (CancelInv), so a *)
(* control that stays open is one whose done() an application gave up.     *)
(***************************************************************************)
EXTENDS ClientLifecycle, TLAPS

\* A control channel exists once connect() returned; its done future holds an
\* outcome of the channel only when the channel closed.
ChannelInv ==
  \A c \in Controls :
    /\ chan[c] # "none" <=> conn[c] = "returned"
    /\ done[c] \in {"result", "error"} => chan[c] = "closed"
    /\ chan[c] = "closed" => done[c] # "pending"
    /\ c \in closing => chan[c] # "none"

\* The first call that closes a control writes the request, and no other does.
RequestInv ==
  /\ \A c \in Controls : requests[c] <= 1 /\ (requests[c] > 0 => c \in closing)
  /\ \A k \in Closers :
       /\ pc[k] \in {"writing", "waiting"} => on[k] \in closing
       /\ pc[k] = "writing" => requests[on[k]] = 0
  /\ \A j, k \in Closers :
       pc[j] = "writing" /\ pc[k] = "writing" /\ on[j] = on[k] => j = k

\* A closed client has one owner, the only call that walks over the controls;
\* an open one has every open control registered.
OwnerInv ==
  /\ clientClosed <=> owner # Nothing
  /\ \A k \in ClientClosers : pc[k] \notin {"idle", "again"} => k = owner
  /\ \A k \in ControlClosers : pc[k] # "discovery"
  /\ ~clientClosed =>
       \A c \in Controls : chan[c] = "open" => c \in controls \/ done[c] = "cancelled"

Settled(c) == chan[c] = "closed" \/ done[c] = "cancelled"

\* Where the owner is, and what it still answers for.
PromiseInv ==
  owner # Nothing =>
    /\ pc[owner] = "discovery" =>
         \A c \in promised : Settled(c) \/ c \in controls
    /\ pc[owner] \in {"writing", "waiting"} =>
         \A c \in promised : Settled(c) \/ c \in todo[owner] \/ c = on[owner]
    /\ pc[owner] \in {"gathering", "returned"} => \A c \in promised : Settled(c)

\* The future of a promised control that stays open was cancelled with a call of
\* done() of the application: the client cancels a watcher, and with it the
\* future, only when the control is closed.
CancelInv ==
  \A c \in Controls : done[c] = "cancelled" =>
    \/ \E w \in Waiters : Target[w] = c /\ wpc[w] = "cancelled"
    \/ owner # Nothing /\ (c \in promised => chan[c] = "closed")

IInv == TypeOK /\ ChannelInv /\ RequestInv /\ OwnerInv /\ PromiseInv /\ CancelInv

LEMMA InitIInv == Init => IInv
<1> SUFFICES ASSUME Init PROVE IInv
  OBVIOUS
<1>1. TypeOK
  BY LifecycleAssumption DEF Init, TypeOK, Closers
<1>2. ChannelInv /\ RequestInv /\ CancelInv
  BY LifecycleAssumption DEF Init, ChannelInv, RequestInv, CancelInv, Closers
<1>3. OwnerInv /\ PromiseInv
  BY LifecycleAssumption DEF Init, OwnerInv, PromiseInv, Closers
<1> QED BY <1>1, <1>2, <1>3 DEF IInv

\* Every step keeps the types.
LEMMA StepKeepsTypes ==
  ASSUME TypeOK, RequestInv, [Next]_vars
  PROVE  TypeOK'
<1> USE LifecycleAssumption DEF TypeOK, Closers, channelVars, clientVars, callVars
<1>1. ASSUME NEW c \in Controls, ConnectStart(c) PROVE TypeOK'
  BY <1>1 DEF ConnectStart
<1>2. ASSUME NEW c \in Controls, ConnectFails(c) PROVE TypeOK'
  BY <1>2 DEF ConnectFails
<1>3. ASSUME NEW c \in Controls, Opened(c) PROVE TypeOK'
  BY <1>3 DEF Opened
<1>4. ASSUME NEW c \in Controls, ChannelFails(c) PROVE TypeOK'
  BY <1>4 DEF ChannelFails, Finished
<1>5. ASSUME NEW c \in Controls, CloseRsp(c) PROVE TypeOK'
  BY <1>5 DEF CloseRsp, Finished
<1>6. ASSUME NEW c \in Controls, WatcherStarts(c) PROVE TypeOK'
  BY <1>6 DEF WatcherStarts
<1>7. ASSUME NEW c \in Controls, WatcherWakes(c) PROVE TypeOK'
  BY <1>7 DEF WatcherWakes
<1>8. ASSUME NEW w \in Waiters, WaitStart(w) PROVE TypeOK'
  BY <1>8 DEF WaitStart
<1>9. ASSUME NEW w \in Waiters, WaitCancelled(w) PROVE TypeOK'
  BY <1>9 DEF WaitCancelled
<1>10. ASSUME NEW w \in Waiters, WaitReturns(w) PROVE TypeOK'
  BY <1>10 DEF WaitReturns
<1>11. ASSUME NEW k \in ControlClosers, ControlClose(k) PROVE TypeOK'
  BY <1>11 DEF ControlClose, Begin
<1>12. ASSUME NEW k \in ClientClosers, ClientClose(k) PROVE TypeOK'
  BY <1>12 DEF ClientClose
<1>13. ASSUME NEW k \in ClientClosers, ClientCloseAgain(k) PROVE TypeOK'
  BY <1>13 DEF ClientCloseAgain
<1>14. ASSUME NEW k \in Closers, DiscoveryClosed(k) PROVE TypeOK'
  BY <1>14 DEF DiscoveryClosed, NextControl, Begin
<1>15. ASSUME NEW k \in Closers, RequestWritten(k) PROVE TypeOK'
  <2>1. on[k] \in Controls
    BY <1>15 DEF RequestWritten, RequestInv
  <2>2. requests' \in [Controls -> Nat]
    BY <1>15, <2>1 DEF RequestWritten
  <2> QED BY <1>15, <2>2 DEF RequestWritten
<1>16. ASSUME NEW k \in Closers, CloseDone(k) PROVE TypeOK'
  BY <1>16 DEF CloseDone, AfterClose, NextControl, Begin
<1>17. ASSUME NEW k \in Closers, CloseTimesOut(k) PROVE TypeOK'
  BY <1>17 DEF CloseTimesOut, AfterClose, NextControl, Begin, Finished
<1>18. ASSUME NEW k \in Closers, CloseCancelled(k) PROVE TypeOK'
  BY <1>18 DEF CloseCancelled
<1>19. ASSUME NEW k \in Closers, Gathered(k) PROVE TypeOK'
  BY <1>19 DEF Gathered
<1>20. ASSUME NEW k \in Closers, CallerCancelled(k) PROVE TypeOK'
  BY <1>20 DEF CallerCancelled
<1>21. CASE UNCHANGED vars
  BY <1>21 DEF vars
<1> QED BY <1>1, <1>2, <1>3, <1>4, <1>5, <1>6, <1>7,
            <1>8, <1>9, <1>10, <1>11, <1>12, <1>13, <1>14,
            <1>15, <1>16, <1>17, <1>18, <1>19, <1>20, <1>21 DEF Next, CloseStep

\* A channel goes from none to open to closed, and its future follows.
LEMMA StepKeepsChannels ==
  ASSUME TypeOK, ChannelInv, RequestInv, [Next]_vars
  PROVE  ChannelInv'
<1> USE LifecycleAssumption DEF TypeOK, ChannelInv, RequestInv, Closers, channelVars, clientVars, callVars
<1>1. ASSUME NEW c \in Controls, ConnectStart(c) PROVE ChannelInv'
  BY <1>1 DEF ConnectStart
<1>2. ASSUME NEW c \in Controls, ConnectFails(c) PROVE ChannelInv'
  BY <1>2 DEF ConnectFails
<1>3. ASSUME NEW c \in Controls, Opened(c) PROVE ChannelInv'
  BY <1>3 DEF Opened
<1>4. ASSUME NEW c \in Controls, ChannelFails(c) PROVE ChannelInv'
  BY <1>4 DEF ChannelFails, Finished
<1>5. ASSUME NEW c \in Controls, CloseRsp(c) PROVE ChannelInv'
  BY <1>5 DEF CloseRsp, Finished
<1>6. ASSUME NEW c \in Controls, WatcherStarts(c) PROVE ChannelInv'
  BY <1>6 DEF WatcherStarts
<1>7. ASSUME NEW c \in Controls, WatcherWakes(c) PROVE ChannelInv'
  BY <1>7 DEF WatcherWakes
<1>8. ASSUME NEW w \in Waiters, WaitStart(w) PROVE ChannelInv'
  BY <1>8 DEF WaitStart
<1>9. ASSUME NEW w \in Waiters, WaitCancelled(w) PROVE ChannelInv'
  BY <1>9 DEF WaitCancelled
<1>10. ASSUME NEW w \in Waiters, WaitReturns(w) PROVE ChannelInv'
  BY <1>10 DEF WaitReturns
<1>11. ASSUME NEW k \in ControlClosers, ControlClose(k) PROVE ChannelInv'
  BY <1>11 DEF ControlClose, Begin
<1>12. ASSUME NEW k \in ClientClosers, ClientClose(k) PROVE ChannelInv'
  BY <1>12 DEF ClientClose
<1>13. ASSUME NEW k \in ClientClosers, ClientCloseAgain(k) PROVE ChannelInv'
  BY <1>13 DEF ClientCloseAgain
<1>14. ASSUME NEW k \in Closers, DiscoveryClosed(k) PROVE ChannelInv'
  BY <1>14 DEF DiscoveryClosed, NextControl, Begin
<1>15. ASSUME NEW k \in Closers, RequestWritten(k) PROVE ChannelInv'
  BY <1>15 DEF RequestWritten
<1>16. ASSUME NEW k \in Closers, CloseDone(k) PROVE ChannelInv'
  BY <1>16 DEF CloseDone, AfterClose, NextControl, Begin
<1>17. ASSUME NEW k \in Closers, CloseTimesOut(k) PROVE ChannelInv'
  BY <1>17 DEF CloseTimesOut, AfterClose, NextControl, Begin, Finished
<1>18. ASSUME NEW k \in Closers, CloseCancelled(k) PROVE ChannelInv'
  BY <1>18 DEF CloseCancelled
<1>19. ASSUME NEW k \in Closers, Gathered(k) PROVE ChannelInv'
  BY <1>19 DEF Gathered
<1>20. ASSUME NEW k \in Closers, CallerCancelled(k) PROVE ChannelInv'
  BY <1>20 DEF CallerCancelled
<1>21. CASE UNCHANGED vars
  BY <1>21 DEF vars
<1> QED BY <1>1, <1>2, <1>3, <1>4, <1>5, <1>6, <1>7,
            <1>8, <1>9, <1>10, <1>11, <1>12, <1>13, <1>14,
            <1>15, <1>16, <1>17, <1>18, <1>19, <1>20, <1>21 DEF Next, CloseStep

\* One call writes the request of a control.
LEMMA StepKeepsRequests ==
  ASSUME TypeOK, RequestInv, [Next]_vars
  PROVE  RequestInv'
<1> USE LifecycleAssumption DEF TypeOK, RequestInv, Closers, channelVars, clientVars, callVars
<1>1. ASSUME NEW c \in Controls, ConnectStart(c) PROVE RequestInv'
  BY <1>1 DEF ConnectStart
<1>2. ASSUME NEW c \in Controls, ConnectFails(c) PROVE RequestInv'
  BY <1>2 DEF ConnectFails
<1>3. ASSUME NEW c \in Controls, Opened(c) PROVE RequestInv'
  BY <1>3 DEF Opened
<1>4. ASSUME NEW c \in Controls, ChannelFails(c) PROVE RequestInv'
  BY <1>4 DEF ChannelFails, Finished
<1>5. ASSUME NEW c \in Controls, CloseRsp(c) PROVE RequestInv'
  BY <1>5 DEF CloseRsp, Finished
<1>6. ASSUME NEW c \in Controls, WatcherStarts(c) PROVE RequestInv'
  BY <1>6 DEF WatcherStarts
<1>7. ASSUME NEW c \in Controls, WatcherWakes(c) PROVE RequestInv'
  BY <1>7 DEF WatcherWakes
<1>8. ASSUME NEW w \in Waiters, WaitStart(w) PROVE RequestInv'
  BY <1>8 DEF WaitStart
<1>9. ASSUME NEW w \in Waiters, WaitCancelled(w) PROVE RequestInv'
  BY <1>9 DEF WaitCancelled
<1>10. ASSUME NEW w \in Waiters, WaitReturns(w) PROVE RequestInv'
  BY <1>10 DEF WaitReturns
<1>11. ASSUME NEW k \in ControlClosers, ControlClose(k) PROVE RequestInv'
  BY <1>11 DEF ControlClose, Begin
<1>12. ASSUME NEW k \in ClientClosers, ClientClose(k) PROVE RequestInv'
  BY <1>12 DEF ClientClose
<1>13. ASSUME NEW k \in ClientClosers, ClientCloseAgain(k) PROVE RequestInv'
  BY <1>13 DEF ClientCloseAgain
<1>14. ASSUME NEW k \in Closers, DiscoveryClosed(k) PROVE RequestInv'
  BY <1>14 DEF DiscoveryClosed, NextControl, Begin
<1>15. ASSUME NEW k \in Closers, RequestWritten(k) PROVE RequestInv'
  BY <1>15 DEF RequestWritten
<1>16. ASSUME NEW k \in Closers, CloseDone(k) PROVE RequestInv'
  BY <1>16 DEF CloseDone, AfterClose, NextControl, Begin
<1>17. ASSUME NEW k \in Closers, CloseTimesOut(k) PROVE RequestInv'
  BY <1>17 DEF CloseTimesOut, AfterClose, NextControl, Begin, Finished
<1>18. ASSUME NEW k \in Closers, CloseCancelled(k) PROVE RequestInv'
  BY <1>18 DEF CloseCancelled
<1>19. ASSUME NEW k \in Closers, Gathered(k) PROVE RequestInv'
  BY <1>19 DEF Gathered
<1>20. ASSUME NEW k \in Closers, CallerCancelled(k) PROVE RequestInv'
  BY <1>20 DEF CallerCancelled
<1>21. CASE UNCHANGED vars
  BY <1>21 DEF vars
<1> QED BY <1>1, <1>2, <1>3, <1>4, <1>5, <1>6, <1>7,
            <1>8, <1>9, <1>10, <1>11, <1>12, <1>13, <1>14,
            <1>15, <1>16, <1>17, <1>18, <1>19, <1>20, <1>21 DEF Next, CloseStep

\* The client has one owner, and registers every control it opens.
LEMMA StepKeepsOwner ==
  ASSUME TypeOK, ChannelInv, OwnerInv, [Next]_vars
  PROVE  OwnerInv'
<1> USE LifecycleAssumption DEF TypeOK, ChannelInv, OwnerInv, Closers, channelVars, clientVars, callVars
<1>1. ASSUME NEW c \in Controls, ConnectStart(c) PROVE OwnerInv'
  BY <1>1 DEF ConnectStart
<1>2. ASSUME NEW c \in Controls, ConnectFails(c) PROVE OwnerInv'
  BY <1>2 DEF ConnectFails
<1>3. ASSUME NEW c \in Controls, Opened(c) PROVE OwnerInv'
  BY <1>3 DEF Opened
<1>4. ASSUME NEW c \in Controls, ChannelFails(c) PROVE OwnerInv'
  BY <1>4 DEF ChannelFails, Finished
<1>5. ASSUME NEW c \in Controls, CloseRsp(c) PROVE OwnerInv'
  BY <1>5 DEF CloseRsp, Finished
<1>6. ASSUME NEW c \in Controls, WatcherStarts(c) PROVE OwnerInv'
  BY <1>6 DEF WatcherStarts
<1>7. ASSUME NEW c \in Controls, WatcherWakes(c) PROVE OwnerInv'
  BY <1>7 DEF WatcherWakes
<1>8. ASSUME NEW w \in Waiters, WaitStart(w) PROVE OwnerInv'
  BY <1>8 DEF WaitStart
<1>9. ASSUME NEW w \in Waiters, WaitCancelled(w) PROVE OwnerInv'
  BY <1>9 DEF WaitCancelled
<1>10. ASSUME NEW w \in Waiters, WaitReturns(w) PROVE OwnerInv'
  BY <1>10 DEF WaitReturns
<1>11. ASSUME NEW k \in ControlClosers, ControlClose(k) PROVE OwnerInv'
  BY <1>11 DEF ControlClose, Begin
<1>12. ASSUME NEW k \in ClientClosers, ClientClose(k) PROVE OwnerInv'
  BY <1>12 DEF ClientClose
<1>13. ASSUME NEW k \in ClientClosers, ClientCloseAgain(k) PROVE OwnerInv'
  BY <1>13 DEF ClientCloseAgain
<1>14. ASSUME NEW k \in Closers, DiscoveryClosed(k) PROVE OwnerInv'
  BY <1>14 DEF DiscoveryClosed, NextControl, Begin
<1>15. ASSUME NEW k \in Closers, RequestWritten(k) PROVE OwnerInv'
  BY <1>15 DEF RequestWritten
<1>16. ASSUME NEW k \in Closers, CloseDone(k) PROVE OwnerInv'
  BY <1>16 DEF CloseDone, AfterClose, NextControl, Begin
<1>17. ASSUME NEW k \in Closers, CloseTimesOut(k) PROVE OwnerInv'
  BY <1>17 DEF CloseTimesOut, AfterClose, NextControl, Begin, Finished
<1>18. ASSUME NEW k \in Closers, CloseCancelled(k) PROVE OwnerInv'
  BY <1>18 DEF CloseCancelled
<1>19. ASSUME NEW k \in Closers, Gathered(k) PROVE OwnerInv'
  BY <1>19 DEF Gathered
<1>20. ASSUME NEW k \in Closers, CallerCancelled(k) PROVE OwnerInv'
  BY <1>20 DEF CallerCancelled
<1>21. CASE UNCHANGED vars
  BY <1>21 DEF vars
<1> QED BY <1>1, <1>2, <1>3, <1>4, <1>5, <1>6, <1>7,
            <1>8, <1>9, <1>10, <1>11, <1>12, <1>13, <1>14,
            <1>15, <1>16, <1>17, <1>18, <1>19, <1>20, <1>21 DEF Next, CloseStep

\* The owner keeps what it promised, until it gives up.
LEMMA StepKeepsPromise ==
  ASSUME TypeOK, ChannelInv, RequestInv, OwnerInv, PromiseInv, [Next]_vars
  PROVE  PromiseInv'
<1> USE LifecycleAssumption DEF TypeOK, ChannelInv, RequestInv, OwnerInv, PromiseInv, Settled, Closers, channelVars, clientVars, callVars
<1>1. ASSUME NEW c \in Controls, ConnectStart(c) PROVE PromiseInv'
  BY <1>1 DEF ConnectStart
<1>2. ASSUME NEW c \in Controls, ConnectFails(c) PROVE PromiseInv'
  BY <1>2 DEF ConnectFails
<1>3. ASSUME NEW c \in Controls, Opened(c) PROVE PromiseInv'
  BY <1>3 DEF Opened
<1>4. ASSUME NEW c \in Controls, ChannelFails(c) PROVE PromiseInv'
  BY <1>4 DEF ChannelFails, Finished
<1>5. ASSUME NEW c \in Controls, CloseRsp(c) PROVE PromiseInv'
  BY <1>5 DEF CloseRsp, Finished
<1>6. ASSUME NEW c \in Controls, WatcherStarts(c) PROVE PromiseInv'
  BY <1>6 DEF WatcherStarts
<1>7. ASSUME NEW c \in Controls, WatcherWakes(c) PROVE PromiseInv'
  BY <1>7 DEF WatcherWakes
<1>8. ASSUME NEW w \in Waiters, WaitStart(w) PROVE PromiseInv'
  BY <1>8 DEF WaitStart
<1>9. ASSUME NEW w \in Waiters, WaitCancelled(w) PROVE PromiseInv'
  BY <1>9 DEF WaitCancelled
<1>10. ASSUME NEW w \in Waiters, WaitReturns(w) PROVE PromiseInv'
  BY <1>10 DEF WaitReturns
<1>11. ASSUME NEW k \in ControlClosers, ControlClose(k) PROVE PromiseInv'
  BY <1>11 DEF ControlClose, Begin
<1>12. ASSUME NEW k \in ClientClosers, ClientClose(k) PROVE PromiseInv'
  BY <1>12 DEF ClientClose
<1>13. ASSUME NEW k \in ClientClosers, ClientCloseAgain(k) PROVE PromiseInv'
  BY <1>13 DEF ClientCloseAgain
<1>14. ASSUME NEW k \in Closers, DiscoveryClosed(k) PROVE PromiseInv'
  BY <1>14 DEF DiscoveryClosed, NextControl, Begin
<1>15. ASSUME NEW k \in Closers, RequestWritten(k) PROVE PromiseInv'
  BY <1>15 DEF RequestWritten
<1>16. ASSUME NEW k \in Closers, CloseDone(k) PROVE PromiseInv'
  BY <1>16 DEF CloseDone, AfterClose, NextControl, Begin
<1>17. ASSUME NEW k \in Closers, CloseTimesOut(k) PROVE PromiseInv'
  BY <1>17 DEF CloseTimesOut, AfterClose, NextControl, Begin, Finished
<1>18. ASSUME NEW k \in Closers, CloseCancelled(k) PROVE PromiseInv'
  BY <1>18 DEF CloseCancelled
<1>19. ASSUME NEW k \in Closers, Gathered(k) PROVE PromiseInv'
  BY <1>19 DEF Gathered
<1>20. ASSUME NEW k \in Closers, CallerCancelled(k) PROVE PromiseInv'
  BY <1>20 DEF CallerCancelled
<1>21. CASE UNCHANGED vars
  BY <1>21 DEF vars
<1> QED BY <1>1, <1>2, <1>3, <1>4, <1>5, <1>6, <1>7,
            <1>8, <1>9, <1>10, <1>11, <1>12, <1>13, <1>14,
            <1>15, <1>16, <1>17, <1>18, <1>19, <1>20, <1>21 DEF Next, CloseStep

\* Who cancels the future of a control.
LEMMA StepKeepsCancels ==
  ASSUME TypeOK, ChannelInv, RequestInv, OwnerInv, PromiseInv, CancelInv, [Next]_vars
  PROVE  CancelInv'
<1> USE LifecycleAssumption DEF TypeOK, ChannelInv, RequestInv, OwnerInv, PromiseInv, CancelInv, Settled, Closers, channelVars, clientVars, callVars
<1>1. ASSUME NEW c \in Controls, ConnectStart(c) PROVE CancelInv'
  BY <1>1 DEF ConnectStart
<1>2. ASSUME NEW c \in Controls, ConnectFails(c) PROVE CancelInv'
  BY <1>2 DEF ConnectFails
<1>3. ASSUME NEW c \in Controls, Opened(c) PROVE CancelInv'
  BY <1>3 DEF Opened
<1>4. ASSUME NEW c \in Controls, ChannelFails(c) PROVE CancelInv'
  BY <1>4 DEF ChannelFails, Finished
<1>5. ASSUME NEW c \in Controls, CloseRsp(c) PROVE CancelInv'
  BY <1>5 DEF CloseRsp, Finished
<1>6. ASSUME NEW c \in Controls, WatcherStarts(c) PROVE CancelInv'
  BY <1>6 DEF WatcherStarts
<1>7. ASSUME NEW c \in Controls, WatcherWakes(c) PROVE CancelInv'
  BY <1>7 DEF WatcherWakes
<1>8. ASSUME NEW w \in Waiters, WaitStart(w) PROVE CancelInv'
  BY <1>8 DEF WaitStart
<1>9. ASSUME NEW w \in Waiters, WaitCancelled(w) PROVE CancelInv'
  BY <1>9 DEF WaitCancelled
<1>10. ASSUME NEW w \in Waiters, WaitReturns(w) PROVE CancelInv'
  BY <1>10 DEF WaitReturns
<1>11. ASSUME NEW k \in ControlClosers, ControlClose(k) PROVE CancelInv'
  BY <1>11 DEF ControlClose, Begin
<1>12. ASSUME NEW k \in ClientClosers, ClientClose(k) PROVE CancelInv'
  BY <1>12 DEF ClientClose
<1>13. ASSUME NEW k \in ClientClosers, ClientCloseAgain(k) PROVE CancelInv'
  BY <1>13 DEF ClientCloseAgain
<1>14. ASSUME NEW k \in Closers, DiscoveryClosed(k) PROVE CancelInv'
  BY <1>14 DEF DiscoveryClosed, NextControl, Begin
<1>15. ASSUME NEW k \in Closers, RequestWritten(k) PROVE CancelInv'
  BY <1>15 DEF RequestWritten
<1>16. ASSUME NEW k \in Closers, CloseDone(k) PROVE CancelInv'
  BY <1>16 DEF CloseDone, AfterClose, NextControl, Begin
<1>17. ASSUME NEW k \in Closers, CloseTimesOut(k) PROVE CancelInv'
  BY <1>17 DEF CloseTimesOut, AfterClose, NextControl, Begin, Finished
<1>18. ASSUME NEW k \in Closers, CloseCancelled(k) PROVE CancelInv'
  BY <1>18 DEF CloseCancelled
<1>19. ASSUME NEW k \in Closers, Gathered(k) PROVE CancelInv'
  BY <1>19 DEF Gathered
<1>20. ASSUME NEW k \in Closers, CallerCancelled(k) PROVE CancelInv'
  BY <1>20 DEF CallerCancelled
<1>21. CASE UNCHANGED vars
  BY <1>21 DEF vars
<1> QED BY <1>1, <1>2, <1>3, <1>4, <1>5, <1>6, <1>7,
            <1>8, <1>9, <1>10, <1>11, <1>12, <1>13, <1>14,
            <1>15, <1>16, <1>17, <1>18, <1>19, <1>20, <1>21 DEF Next, CloseStep

\* The invariants above hold in every state of every run.
THEOREM Invariance == Spec => []IInv
<1>1. IInv /\ [Next]_vars => IInv'
  BY StepKeepsTypes, StepKeepsChannels, StepKeepsRequests, StepKeepsOwner, StepKeepsPromise,
     StepKeepsCancels DEF IInv
<1> QED BY InitIInv, <1>1, PTL DEF Spec

-----------------------------------------------------------------------------
\* Every variable holds a value the code can give it, and a control is tracked
\* only while its channel exists and its watcher has not ended.
THEOREM TypeCorrect == Spec => []TypeOK
<1>1. IInv => TypeOK
  BY DEF IInv
<1> QED BY Invariance, <1>1, PTL

\* However many calls of close() race on a control, the engine is asked to close
\* it at most once; and the Client.close() that closed the client returns with
\* every control closed that was open at its start, except those on whose done()
\* the application gave up.
THEOREM ControlsClosedOnce == Spec => []ClosesOnceAndAll
<1>1. IInv => ClosesOnceAndAll
  BY DEF IInv, TypeOK, RequestInv, PromiseInv, CancelInv, Settled, ClosesOnceAndAll
<1> QED BY Invariance, <1>1, PTL

\* What the documents promise without exception - client close closes the open
\* control channels - is true of an application that never waits on done().
THEOREM PromiseWithoutWaiters ==
  ASSUME Waiters = {}
  PROVE  Spec => []ClientCloseClosesControls
<1>1. ClosesOnceAndAll => ClientCloseClosesControls
  BY DEF ClosesOnceAndAll, ClientCloseClosesControls
<1> QED BY ControlsClosedOnce, <1>1, PTL
=============================================================================
