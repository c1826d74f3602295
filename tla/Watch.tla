--------------------------------- MODULE Watch ---------------------------------
(***************************************************************************)
(* telegram_watch (ops/watch.py): wait for a burst of incoming messages    *)
(* and return it whole.  Messages arrive while the chats are being         *)
(* resolved, while the call waits, while it looks up a chat; the queue is  *)
(* bounded; the clock goes on as it likes, and timers may fire late.       *)
(***************************************************************************)
EXTENDS Safety, Integers, SequencesExt

CONSTANTS
  WatchConfig,   \* the configuration, as in Safety
  Peers,         \* who may write: peers, as in Safety
  Calls,         \* [chats: ids named, timeout, debounce, limit]
  QueueSize,     \* QUEUE_MAXSIZE
  MaxTime, MaxArrivals

ASSUME WatchAssumption ==
  /\ \A peer \in Peers : peer.kind \in Kinds /\ peer.id # None
  /\ \A c \in Calls : c.timeout \in Nat /\ c.debounce \in Nat /\ c.limit \in Nat \ {0}
  /\ QueueSize \in Nat \ {0} /\ {MaxTime, MaxArrivals} \subseteq Nat
  /\ None \notin {"limit", "timeout", "quiet"}

VARIABLES
  call, phase,   \* the parameters; "idle", "opening", "setup", "wait", "lookup", "done", "refused"
  now, deadline, \* monotonic(), and where the call must end
  arrivals,      \* every message since the account was open: [peer, attached, at]
  queue, late,   \* numbers of arrivals: waiting, and those that found the queue full
  item, unknown, \* the one being looked up, and those whose chat was not to be learned
  events, kept,  \* what is reported, and when the last of it was
  ends, until,   \* where the collection and this wait end
  bounded,       \* bounded_by_debounce
  reason

watchVars == <<call, phase, now, deadline, arrivals, queue, late, item, unknown, events, kept,
               ends, until, bounded, reason>>

parameters == <<call, deadline>>

WatchInit ==
  /\ call \in Calls /\ phase = "idle"
  /\ now = 0 /\ deadline = 0
  /\ arrivals = <<>> /\ queue = <<>> /\ late = {}
  /\ item = None /\ unknown = {}
  /\ events = <<>> /\ kept = 0
  /\ ends = 0 /\ until = 0 /\ bounded = FALSE /\ reason = None

-----------------------------------------------------------------------------
(* Time, and messages.                                                      *)

\* What waits is taken at once; a timer may be late.
Tick ==
  /\ phase \notin {"idle", "done", "refused"} /\ now < MaxTime
  /\ phase = "wait" => queue = <<>>
  /\ now' = now + 1
  /\ UNCHANGED <<call, phase, deadline, arrivals, queue, late, item, unknown, events, kept,
                 ends, until, bounded, reason>>

\* (Variation: the one that has waited longest makes room.)
EvictOldest(n) ==
  IF Len(queue) < QueueSize THEN queue' = Append(queue, n) /\ UNCHANGED late
  ELSE queue' = Append(Tail(queue), n) /\ late' = late \cup {n}

\* A full queue drops the newest.
put_nowait(n) ==
  IF Len(queue) < QueueSize THEN queue' = Append(queue, n) /\ UNCHANGED late
  ELSE late' = late \cup {n} /\ UNCHANGED queue

\* on_new_message: subscribed before anything else is awaited.
Arrives(peer, attached) ==
  /\ phase \in {"setup", "wait", "lookup"} /\ Len(arrivals) < MaxArrivals
  /\ arrivals' = Append(arrivals, [peer |-> peer, attached |-> attached, at |-> now])
  /\ put_nowait(Len(arrivals) + 1)
  /\ UNCHANGED <<parameters, phase, now, item, unknown, events, kept, ends, until, bounded,
                 reason>>

-----------------------------------------------------------------------------
(* What a message must be to be reported.                                   *)

admits(peer) ==
  /\ ~ HardDeny(peer)
  /\ call.chats # {} => peer.id \in call.chats
  /\ Allowed(WatchConfig, "READ_CHAT", peer)

-----------------------------------------------------------------------------
(* collect_burst and filtering_source.                                      *)

Finish(why) == phase' = "done" /\ reason' = why /\ UNCHANGED <<until, bounded>>

GivesUp == Finish(IF bounded THEN "quiet" ELSE "timeout")

\* collect_burst's loop: the whole budget before the first message, then the debounce,
\* never past the end.
NextWait(some, end) ==
  LET remaining == end - now
      window == IF some /\ call.debounce < remaining THEN call.debounce ELSE remaining
  IN IF remaining <= 0 THEN Finish("timeout")
     ELSE IF window = 0 THEN Finish("quiet")
     ELSE /\ phase' = "wait" /\ until' = now + window
          /\ bounded' = (some /\ call.debounce < remaining)
          /\ UNCHANGED reason

\* (Variation: what is refused restarts the wait.)
WaitAfresh(n) ==
  /\ NextWait(events # <<>>, ends)
  /\ UNCHANGED <<events, kept>>

\* A dropped message costs nothing: the same wait goes on, if it is not over.
Drop(n) ==
  /\ IF until - now <= 0 THEN GivesUp
     ELSE phase' = "wait" /\ UNCHANGED <<until, bounded, reason>>
  /\ UNCHANGED <<events, kept>>

Keep(n) ==
  /\ events' = Append(events, n)
  /\ kept' = now
  /\ IF Len(events') >= call.limit THEN Finish("limit") ELSE NextWait(TRUE, ends)

Screen(n) == IF admits(arrivals[n].peer) THEN Keep(n) ELSE Drop(n)

\* The next of the queue; one without its chat has it looked up, if there is time.
Take ==
  /\ phase = "wait" /\ queue # <<>>
  /\ queue' = Tail(queue)
  /\ LET n == Head(queue)
     IN \/ /\ arrivals[n].attached
           /\ Screen(n)
           /\ UNCHANGED <<item, unknown>>
        \/ /\ ~ arrivals[n].attached /\ now < deadline
           /\ phase' = "lookup" /\ item' = n
           /\ UNCHANGED <<unknown, events, kept, until, bounded, reason>>
        \/ /\ ~ arrivals[n].attached /\ now >= deadline
           /\ unknown' = unknown \cup {n}
           /\ Drop(n)
           /\ UNCHANGED item
  /\ UNCHANGED <<parameters, now, arrivals, late, ends>>

\* get_chat answers, fails, or is out of time.
LookedUp(found) ==
  /\ phase = "lookup"
  /\ item' = None
  /\ IF found THEN Screen(item) /\ UNCHANGED unknown
     ELSE Drop(item) /\ unknown' = unknown \cup {item}
  /\ UNCHANGED <<parameters, now, arrivals, queue, late, ends>>

\* wait_for gives up; what came before that was taken first.
WaitEnds ==
  /\ phase = "wait" /\ now >= until
  /\ queue # <<>> => arrivals[Head(queue)].at >= until
  /\ GivesUp
  /\ UNCHANGED <<parameters, now, arrivals, queue, late, item, unknown, events, kept, ends>>

-----------------------------------------------------------------------------
(* handle_watch.                                                            *)

handle_watch ==
  /\ phase = "idle"
  /\ deadline' = now + call.timeout
  /\ phase' = IF call.chats = {} /\ ~ MayEnumerate(WatchConfig, FALSE)
              THEN "refused" ELSE "opening"
  /\ UNCHANGED <<call, now, arrivals, queue, late, item, unknown, events, kept, ends, until,
                 bounded, reason>>

\* open_account, then incoming_messages.
Subscribe ==
  /\ phase = "opening" /\ phase' = "setup"
  /\ UNCHANGED <<parameters, now, arrivals, queue, late, item, unknown, events, kept, ends,
                 until, bounded, reason>>

Named == {peer \in Peers : peer.id \in call.chats}

\* Every chat named must be one that may be read; the setup may have used up the time.
Resolved ==
  /\ phase = "setup"
  /\ IF \E peer \in Named : HardDeny(peer) \/ ~ Allowed(WatchConfig, "READ_CHAT", peer)
     THEN phase' = "refused" /\ UNCHANGED <<ends, until, bounded, reason>>
     ELSE /\ ends' = Max({now, deadline})
          /\ NextWait(FALSE, ends')
  /\ UNCHANGED <<parameters, now, arrivals, queue, late, item, unknown, events, kept>>

WatchNext ==
  \/ handle_watch \/ Subscribe \/ Resolved
  \/ Tick \/ \E peer \in Peers, attached \in BOOLEAN : Arrives(peer, attached)
  \/ Take \/ \E found \in BOOLEAN : LookedUp(found)
  \/ WaitEnds

WatchSpec == WatchInit /\ [][WatchNext]_watchVars

-----------------------------------------------------------------------------
(* Properties.                                                              *)

\* The messages that could have been reported.
Wanted ==
  {n \in DOMAIN arrivals :
     /\ Promised(WatchConfig, "READ_CHAT", arrivals[n].peer)
     /\ call.chats # {} => arrivals[n].peer.id \in call.chats} \ unknown

\* The messages before the first that found the queue full.
BeforeOverflow == {n \in DOMAIN arrivals : \A m \in late : n < m}

\* The burst is reported as it came: only what the policy promises and the caller named,
\* in order, and up to the first overflow without a gap, from the moment the chats are
\* being resolved.  What is refused leaves no trace, not in how long the call waits
\* either; and the reason given is the true one: quiet means that the debounce went by
\* after the last message with no other in it, inside the time allowed; timeout that the
\* time allowed had passed (collect_burst, filtering_source, incoming_messages).
BurstIsWhole ==
  /\ ToSet(events) \subseteq Wanted
  /\ \A i, j \in DOMAIN events : i < j => events[i] < events[j]
  /\ \A n \in Wanted \cap BeforeOverflow, i \in DOMAIN events :
       n < events[i] => n \in ToSet(events)
  /\ phase = "wait" =>
       until = IF events = <<>> THEN ends ELSE Min({ends, kept + call.debounce})
  /\ call.debounce = 0 => Len(events) <= 1
  /\ reason = "limit" => Len(events) = call.limit
  /\ reason = "timeout" => now >= deadline
  /\ reason = "quiet" =>
       /\ events # <<>> /\ kept + call.debounce < deadline /\ now >= kept + call.debounce
       /\ call.debounce > 0 /\ (\A n \in DOMAIN arrivals : arrivals[n].attached) =>
            \A n \in Wanted \cap BeforeOverflow :
              n \in ToSet(events) \/ arrivals[n].at >= kept + call.debounce

=============================================================================
