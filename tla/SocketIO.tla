------------------------------ MODULE SocketIO ------------------------------
(***************************************************************************)
(* SocketImpl::read, read_with_timeout, wait_for_data and write of         *)
(* src/scim_socket.cpp: one call at a time on a blocking stream socket.    *)
(* Time passes in select () only and is counted in ticks; data is counted, *)
(* not stored.  Signals interrupt system calls; the peer sends, stops      *)
(* sending, closes, or the connection breaks.                              *)
(***************************************************************************)
EXTENDS Integers

CONSTANTS
  Timeouts,  \* the timeouts a caller gives, in ticks; -1 is infinity
  Size,      \* how many bytes a call asks for or sends
  MaxIntr,   \* bound on the signals that interrupt one call
  MayBreak   \* the connection may fail with an error other than EINTR

ASSUME SocketIOAssumption ==
  Size \in Nat \ {0} /\ MaxIntr \in Nat /\ MayBreak \in BOOLEAN

ASSUME TimeoutsAssumption == \A t \in Timeouts : t \in Int /\ t >= -1

VARIABLES
  at,       \* idle, enter, select, read, write, done
  op,       \* the call: "read", "wait" or "write"
  asked,    \* the timeout given by the caller
  timeout,  \* *timeout of wait_for_data_internal
  begin,    \* begin_tv
  since,    \* when the current select () was entered
  tv,       \* and its time limit
  left,     \* size: bytes still to be read or written
  nbytes,   \* bytes moved so far
  ret,      \* the value returned
  clock,    \* time since the call
  intr,     \* interrupts so far
  avail, closed, broken \* the kernel: bytes to read, peer gone, error pending

call   == <<op, asked>>
wait   == <<timeout, begin, since, tv>>
count  == <<left, nbytes, ret>>
link   == <<avail, closed, broken>>
IOVars == <<at, call, wait, count, clock, intr, link>>

IOInit ==
  /\ at = "idle" /\ op = "read" /\ asked = 0
  /\ timeout = 0 /\ begin = 0 /\ since = 0 /\ tv = 0
  /\ left = 0 /\ nbytes = 0 /\ ret = 0 /\ clock = 0 /\ intr = 0
  /\ avail = 0 /\ closed = FALSE /\ broken = FALSE

\* A call starts: read_with_timeout (a plain read () when the timeout is
\* negative), wait_for_data or write.
Call(o, t) ==
  /\ at \in {"idle", "done"}
  /\ op' = o /\ asked' = t /\ timeout' = t
  /\ left' = Size /\ nbytes' = 0 /\ ret' = -1
  /\ clock' = 0 /\ intr' = 0 /\ begin' = 0 /\ since' = 0 /\ tv' = 0
  /\ at' = IF o = "write" THEN "write"
           ELSE IF o = "read" /\ t < 0 THEN "read" ELSE "enter"
  /\ UNCHANGED link

Return(r) == at' = "done" /\ ret' = r

-----------------------------------------------------------------------------
(* wait_for_data_internal                                                  *)

Enter ==
  /\ at = "enter" /\ at' = "select"
  /\ begin' = clock /\ since' = clock /\ tv' = timeout
  /\ UNCHANGED <<call, timeout, count, clock, intr, link>>

Signalled == avail > 0 \/ closed \/ broken

\* select () sleeps.
Tick ==
  /\ at = "select" /\ ~Signalled
  /\ timeout > 0 /\ clock - since < tv
  /\ clock' = clock + 1
  /\ UNCHANGED <<at, call, wait, count, intr, link>>

\* (Mutant: the time spent is not taken off the timeout.)
AccountNot == UNCHANGED <<timeout, tv>>

\* After every return of select () the time since begin_tv is taken off the
\* timeout, and the rest is the limit of the next select ().
Account ==
  /\ timeout' = IF timeout <= 0 THEN timeout
                ELSE IF timeout - (clock - begin) > 0 THEN timeout - (clock - begin)
                ELSE 0
  /\ tv' = IF timeout > 0 THEN timeout' ELSE tv

\* Data, end of file or an error on the socket wakes select ().
SelectReady ==
  /\ at = "select" /\ Signalled
  /\ Account
  /\ IF op = "wait" THEN Return(1) ELSE at' = "read" /\ UNCHANGED ret
  /\ UNCHANGED <<call, begin, since, left, nbytes, clock, intr, link>>

\* (Mutant: the end of the time does not end the wait.)
SelectForever ==
  /\ at = "select" /\ ~Signalled /\ timeout >= 0 /\ clock - since >= tv
  /\ Account /\ since' = clock
  /\ UNCHANGED <<at, ret, call, begin, left, nbytes, clock, intr, link>>

\* The time limit is reached.
SelectTimeout ==
  /\ at = "select" /\ ~Signalled /\ timeout >= 0 /\ clock - since >= tv
  /\ Account
  /\ IF timeout' = 0 THEN Return(IF op = "wait" THEN 0 ELSE nbytes)
                     ELSE UNCHANGED <<at, ret>>
  /\ since' = clock
  /\ UNCHANGED <<call, begin, left, nbytes, clock, intr, link>>

\* EINTR: account for the time and select again.
SelectIntr ==
  /\ at = "select" /\ intr < MaxIntr
  /\ intr' = intr + 1 /\ Account /\ since' = clock
  /\ UNCHANGED <<at, call, begin, count, clock, link>>

-----------------------------------------------------------------------------
(* read and read_with_timeout                                              *)

\* (Mutant: a partial read is taken for a complete one.)
ReadOnce ==
  /\ at = "read" /\ ~broken /\ avail > 0
  /\ \E k \in 1..avail :
       /\ k <= left
       /\ avail' = avail - k /\ left' = left - k /\ nbytes' = nbytes + k
       /\ Return(nbytes + k)
  /\ UNCHANGED <<call, wait, clock, intr, closed, broken>>

\* Some bytes are read: plain read () returns, read_with_timeout goes on
\* until it has all of them.
ReadSome ==
  /\ at = "read" /\ ~broken /\ avail > 0
  /\ \E k \in 1..avail :
       /\ k <= left
       /\ avail' = avail - k /\ left' = left - k /\ nbytes' = nbytes + k
       /\ IF asked < 0 \/ k = left THEN Return(nbytes + k)
                                   ELSE at' = "enter" /\ UNCHANGED ret
  /\ UNCHANGED <<call, wait, clock, intr, closed, broken>>

\* End of file.
ReadEnd ==
  /\ at = "read" /\ ~broken /\ avail = 0 /\ closed
  /\ Return(nbytes)
  /\ UNCHANGED <<call, wait, left, nbytes, clock, intr, link>>

\* An error other than EINTR is remembered, and read () tries again.
ReadError ==
  /\ at = "read" /\ broken
  /\ UNCHANGED IOVars

-----------------------------------------------------------------------------
(* write                                                                   *)

\* (Mutant: only one chunk is written.)
WriteOnce ==
  /\ at = "write" /\ ~broken
  /\ \E k \in 1..left :
       /\ k = left \/ intr < MaxIntr
       /\ intr' = IF k = left THEN intr ELSE intr + 1
       /\ left' = left - k /\ nbytes' = nbytes + k
       /\ Return(k)
  /\ UNCHANGED <<call, wait, clock, link>>

\* A chunk is written: all that is left, unless a signal comes in between.
\* The kernel may still take data for a peer that has just closed.
WriteSome ==
  /\ at = "write" /\ ~broken
  /\ \E k \in 1..left :
       /\ k = left \/ intr < MaxIntr
       /\ intr' = IF k = left THEN intr ELSE intr + 1
       /\ left' = left - k /\ nbytes' = nbytes + k
       /\ ret' = k
       /\ at' = IF k = left THEN "done" ELSE "write"
  /\ UNCHANGED <<call, wait, clock, link>>

\* EINTR before anything was written: try again.
WriteIntr ==
  /\ at = "write" /\ intr < MaxIntr
  /\ intr' = intr + 1 /\ ret' = -1
  /\ UNCHANGED <<at, call, wait, left, nbytes, clock, link>>

\* EPIPE or another error: give up.
WriteError ==
  /\ at = "write" /\ (broken \/ closed)
  /\ Return(-1)
  /\ UNCHANGED <<call, wait, left, nbytes, clock, intr, link>>

-----------------------------------------------------------------------------
(* The peer.                                                               *)

OtherEnd ==
  /\ \/ avail < Size /\ ~closed /\ avail' = avail + 1 /\ UNCHANGED <<closed, broken>>
     \/ ~closed /\ closed' = TRUE /\ UNCHANGED <<avail, broken>>
     \/ MayBreak /\ ~broken /\ broken' = TRUE /\ UNCHANGED <<avail, closed>>
  /\ UNCHANGED <<at, call, wait, count, clock, intr>>

Caller == \E o \in {"read", "wait", "write"}, t \in Timeouts : Call(o, t)

Step ==
  \/ Enter \/ Tick \/ SelectReady \/ SelectTimeout \/ SelectIntr
  \/ ReadSome \/ ReadEnd \/ ReadError
  \/ WriteSome \/ WriteIntr \/ WriteError

IONext == Caller \/ Step \/ OtherEnd

IOSpec == IOInit /\ [][IONext]_IOVars

\* The call's own steps and the clock go on.
IOFairSpec == IOSpec /\ WF_IOVars(Step)

-----------------------------------------------------------------------------
(* Properties.                                                             *)

\* Every variable has its type; no more bytes are moved than were asked for.
IOTypeOK ==
  /\ at \in {"idle", "enter", "select", "read", "write", "done"}
  /\ op \in {"read", "wait", "write"} /\ asked \in Timeouts \cup {0}
  /\ timeout \in Int /\ begin \in Nat /\ since \in Nat /\ tv \in Int
  /\ left \in 0..Size /\ nbytes \in 0..Size /\ left + nbytes <= Size /\ ret \in Int
  /\ clock \in Nat /\ intr \in 0..MaxIntr
  /\ avail \in 0..Size /\ closed \in BOOLEAN /\ broken \in BOOLEAN

\* A call with a timeout never takes longer than that, however its waiting is
\* divided by partial reads and interrupts.
Deadline == asked >= 0 => clock <= asked

GaveUp ==
  /\ at = "done" /\ asked >= 0 /\ ~closed /\ ~broken
  /\ (op = "wait" /\ ret = 0) \/ (op = "read" /\ ret < Size)

\* A wait or a read that returns with less than was asked for, from a peer
\* that is still there, has waited for as long as its caller told it to,
\* provided that no signal interrupted it: partial reads cost no time.
NotEarlyUnlessInterrupted == GaveUp /\ intr = 0 => clock >= asked

\* A positive return value of write means that everything was sent.
WriteComplete == at = "done" /\ op = "write" /\ ret > 0 => left = 0

InTime == at # "idle" /\ op # "write" /\ asked >= 0

\* Every read and every wait that is given a timeout returns as long as the
\* connection does not fail, however the peer dribbles or stops sending and
\* however often the waiting is interrupted and resumed.
ReturnsUnlessBroken == InTime ~> (at = "done" \/ broken)
=============================================================================
