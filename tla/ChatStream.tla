----------------------------- MODULE ChatStream -----------------------------
(***************************************************************************)
(* The live chat stream (server/src/modules/chat): the process-wide        *)
(* registry of stream connections and of turns in flight, the detached     *)
(* tasks that run a turn and publish its frames, the generator task that   *)
(* feeds the legacy consumer, the stop tokens, and the handlers that open  *)
(* a stream, move its subscription, send a message and stop a reply.       *)
(*                                                                         *)
(* One registry call is one step (it holds the registry's mutex), and so   *)
(* is one call of the cancellation tracker (its RwLock); every await       *)
(* between two of them is a place where other tasks run.                   *)
(***************************************************************************)
EXTENDS Integers, FiniteSets, Sequences

CONSTANTS
    Conns,          \* connection ids, each used once (UUIDs)
    Users,
    Conversations,
    Turns,          \* calls of start_generation; a turn's number is also the
                    \* id of the assistant message it creates
    Puts,           \* bound: subscription PUTs in flight at a time
    NoTurn, NoConv,
    Owner(_),       \* the user a conversation belongs to
    Host,           \* "legacy", or "agent_core" (ZIEE_CHAT_AGENT_CORE=1)
    UserCap,        \* per_user_max_connections
    GlobalCap,      \* global_max_connections
    QueueCap,       \* CHAT_STREAM_CHANNEL_CAPACITY
    BufferCap,      \* MAX_BUFFER_BYTES, in content frames
    MaxChunks,      \* bound: content frames of one turn
    MaxRaw,         \* bound: extension events of one turn
    Resumes,        \* whether users answer approvals (tool_approvals)
    Stops,          \* whether users stop replies
    Disconnects,    \* whether senders hang up or time out (TimeoutLayer)
    Panics          \* whether tasks of a turn panic

ASSUME HostAssumption == Host \in {"legacy", "agent_core"}

ASSUME SizesAssumption ==
    /\ UserCap \in Nat \ {0} /\ GlobalCap \in Nat \ {0} /\ QueueCap \in Nat \ {0}
    /\ BufferCap \in Nat \ {0} /\ MaxChunks \in Nat /\ MaxRaw \in Nat
    /\ Resumes \in BOOLEAN /\ Stops \in BOOLEAN /\ Disconnects \in BOOLEAN
    /\ Panics \in BOOLEAN

ASSUME NamesAssumption ==
    /\ NoTurn \notin Turns /\ NoConv \notin Conversations /\ Users # {}
    /\ \A c \in Conversations : Owner(c) \in Users

VARIABLES
    conns,      \* the streams, and their entries in the registry
    slots,      \* generations: the replay buffer of each turn in flight
    turns,      \* the turns: handler, consumer task, generator task
    last,       \* the last assistant message of each conversation
    senders,    \* CANCELLATION_TRACKER: whose stop token a message id reaches
    puts        \* PUTs between the ownership check and set_subscription

vars == <<conns, slots, turns, last, senders, puts>>

\* Frames of a turn are numbered: 0 is started, then the content, then the end.
End == MaxChunks + 1
Frame == [turn : Turns, no : 0..End]

\* stream: the SSE response body; listed: the registry's entry, which owns the
\* only sender of the queue; unread: how many events the queue holds; seen: the
\* frames queued since the last change of subscription.
Conn == [stream : {"unopened", "open", "ended", "refused"}, listed : BOOLEAN,
         user : Users, active : Conversations \cup {NoConv},
         wants : Conversations \cup {NoConv}, unread : 0..QueueCap,
         hello : BOOLEAN, seen : Seq(Frame)]

\* started is kept apart from the content, which is evicted oldest first.
Buffer == [started : Seq(Frame), frames : Seq(Frame)]

\* gen, sent, tail, saved: the generator, its output channel, and whether what
\* it accumulated is in the database.
Turn == [pc : {"none", "setup", "token", "spawned", "running", "ended", "done",
               "failed", "dropped", "crashed"},
         conv : Conversations \cup {NoConv}, msg : Turns \cup {NoTurn},
         n : 0..MaxChunks, fired : BOOLEAN, raws : 0..MaxRaw,
         finish : {"none", "complete", "error", "cancelled", "aborted"},
         gen : {"none", "working", "saved", "gone"}, sent : 0..MaxChunks,
         tail : {"open", "complete", "error", "closed"}, saved : BOOLEAN]

Put == [conn : Conns, conv : Conversations \cup {NoConv}]

EmptyBuffer == [started |-> <<>>, frames |-> <<>>]

NewTurn == [pc |-> "none", conv |-> NoConv, msg |-> NoTurn, n |-> 0,
            fired |-> FALSE, raws |-> 0, finish |-> "none",
            gen |-> "none", sent |-> 0, tail |-> "open", saved |-> FALSE]


Init ==
    /\ conns = [k \in Conns |->
          [stream |-> "unopened", listed |-> FALSE, user |-> CHOOSE u \in Users : TRUE,
           active |-> NoConv, wants |-> NoConv, unread |-> 0, hello |-> FALSE,
           seen |-> <<>>]]
    /\ slots = [c \in {} |-> EmptyBuffer]
    /\ turns = [t \in Turns |-> NewTurn]
    /\ last = [c \in Conversations |-> NoTurn]
    /\ senders = [t \in Turns |-> NoTurn]
    /\ puts = [p \in Puts |-> <<>>]

-----------------------------------------------------------------------------
(* The registry's connections.  cs stands for a value of conns. *)

Listed(cs) == {k \in Conns : cs[k].listed}
ListedOf(cs, u) == {k \in Listed(cs) : cs[k].user = u}

\* remove_conn: the entry goes, and with it the queue's only sender.
Unlist(conn) == [conn EXCEPT !.listed = FALSE]

\* prune_closed_locked: at a cap, entries whose stream is gone are swept.
Swept(cs, scope, cap) ==
    [k \in Conns |->
        IF Cardinality(scope) >= cap /\ k \in scope /\ cs[k].stream = "ended"
        THEN Unlist(cs[k]) ELSE cs[k]]

Refused(cs, k, u) == [cs EXCEPT ![k].stream = "refused", ![k].user = u]
Entered(cs, k, u) == [cs EXCEPT ![k].stream = "open", ![k].listed = TRUE,
                                ![k].user = u, ![k].unread = 1]

\* register, and the handshake that tells the client the connection's id.
Open(k, u) ==
    /\ conns[k].stream = "unopened"
    /\ LET all  == Swept(conns, Listed(conns), GlobalCap)
           mine == Swept(all, ListedOf(all, u), UserCap)
       IN  conns' = IF Cardinality(Listed(all)) >= GlobalCap THEN Refused(all, k, u)
                    ELSE IF Cardinality(ListedOf(mine, u)) >= UserCap
                    THEN Refused(mine, k, u)
                    ELSE Entered(mine, k, u)
    /\ UNCHANGED <<slots, turns, last, senders, puts>>

\* The stream yields the next event of its queue to the client.
Read(k) ==
    /\ conns[k].stream = "open" /\ conns[k].unread > 0
    /\ conns' = [conns EXCEPT ![k].unread = @ - 1, ![k].hello = TRUE]
    /\ UNCHANGED <<slots, turns, last, senders, puts>>

\* The client goes, the token expires or the account is deactivated: the body is
\* dropped, polled or not, and ConnGuard unregisters.
Close(k) ==
    /\ conns[k].stream = "open"
    /\ conns' = [conns EXCEPT ![k] = [Unlist(conns[k]) EXCEPT !.stream = "ended"]]
    /\ UNCHANGED <<slots, turns, last, senders, puts>>

\* Mutant: the handler keeps a sender, so the queue never reports its end.
DrainedNever(k) == FALSE /\ UNCHANGED vars

\* An entry that was removed: once the queue is drained, recv returns None.
Drained(k) ==
    /\ conns[k].stream = "open" /\ ~conns[k].listed /\ conns[k].unread = 0
    /\ conns' = [conns EXCEPT ![k].stream = "ended"]
    /\ UNCHANGED <<slots, turns, last, senders, puts>>

-----------------------------------------------------------------------------
(* The registry's turns *)

InFlight(c) == c \in DOMAIN slots

With(c, b) == [d \in DOMAIN slots \cup {c} |-> IF d = c THEN b ELSE slots[d]]
Without(c) == [d \in DOMAIN slots \ {c} |-> slots[d]]

\* Mutant: the buffer is not capped.
PushAll(b, f) ==
    IF f.no = 0 THEN [b EXCEPT !.started = <<f>>]
    ELSE [b EXCEPT !.frames = Append(@, f)]

\* Mutant: the cap evicts the newest frame.
PushDroppingNewest(b, f) ==
    IF f.no = 0 THEN [b EXCEPT !.started = <<f>>]
    ELSE IF Len(b.frames) = BufferCap THEN b
    ELSE [b EXCEPT !.frames = Append(@, f)]

Push(b, f) ==
    IF f.no = 0 THEN [b EXCEPT !.started = <<f>>]
    ELSE [b EXCEPT !.frames =
            IF Len(@) = BufferCap THEN Append(Tail(@), f) ELSE Append(@, f)]

Replay(b) == b.started \o b.frames

\* try_send of one event to each of the owner's connections on c; the ones whose
\* queue is full are removed.  note is what the client will see of it.
Delivered(c, note) ==
    [k \in Conns |->
        IF ~(k \in ListedOf(conns, Owner(c)) /\ conns[k].active = c) THEN conns[k]
        ELSE IF conns[k].unread = QueueCap THEN Unlist(conns[k])
        ELSE [conns[k] EXCEPT !.unread = @ + 1, !.seen = @ \o note]]

\* publish_frame of a frame of turn t.
Publish(t, no) ==
    LET c == turns[t].conv
        f == [turn |-> t, no |-> no]
    IN  /\ conns' = Delivered(c, <<f>>)
        /\ slots' = IF no = End THEN Without(c)
                    ELSE With(c, Push(IF InFlight(c) THEN slots[c] ELSE EmptyBuffer, f))

\* Mutant: a connection is caught up with what is published after its PUT only.
SubscribeLive(conn, c) ==
    [conn EXCEPT !.active = c, !.seen = <<>>]

\* set_subscription of a listed connection: point it at c, replay what c's buffer
\* holds, and remove it when its queue does not take all of that.
Subscribe(conn, c) ==
    LET replay == IF c \in DOMAIN slots THEN Replay(slots[c]) ELSE <<>>
        room   == QueueCap - conn.unread
        sent   == [conn EXCEPT !.active = c]
    IN  IF Len(replay) <= room
        THEN [sent EXCEPT !.unread = @ + Len(replay), !.seen = replay]
        ELSE [sent EXCEPT !.unread = QueueCap, !.seen = SubSeq(replay, 1, room),
                          !.listed = FALSE]

\* The client scopes its stream to another conversation of its user, or to none;
\* the handler gets as far as its ownership check.
PutCheck(p, k, c) ==
    /\ puts[p] = <<>>
    /\ conns[k].stream = "open" /\ conns[k].hello /\ conns[k].wants # c
    /\ c # NoConv => Owner(c) = conns[k].user
    /\ puts' = [puts EXCEPT ![p] = <<[conn |-> k, conv |-> c]>>]
    /\ conns' = [conns EXCEPT ![k].wants = c]
    /\ UNCHANGED <<slots, turns, last, senders>>

PutApply(p) ==
    /\ puts[p] # <<>>
    /\ LET k == puts[p][1].conn
       IN  conns' = IF conns[k].listed
                    THEN [conns EXCEPT ![k] = Subscribe(conns[k], puts[p][1].conv)]
                    ELSE conns
    /\ puts' = [puts EXCEPT ![p] = <<>>]
    /\ UNCHANGED <<slots, turns, last, senders>>

-----------------------------------------------------------------------------
(* A turn: the handler *)

Live(t) == turns[t].pc \in {"setup", "token", "spawned", "running"}

Step(t, from, to) == turns[t].pc = from /\ turns' = [turns EXCEPT ![t].pc = to]

\* Mutant: the slot is taken without a look at who has it.
BeginUnchecked(t, c) ==
    /\ turns[t].pc = "none"
    /\ turns' = [turns EXCEPT ![t].pc = "setup", ![t].conv = c]
    /\ slots' = With(c, EmptyBuffer)
    /\ UNCHANGED <<conns, last, senders, puts>>

\* begin_generation; the send that finds the conversation taken is answered 409
\* and changes nothing.
Begin(t, c) ==
    /\ turns[t].pc = "none" /\ ~InFlight(c)
    /\ turns' = [turns EXCEPT ![t].pc = "setup", ![t].conv = c]
    /\ slots' = With(c, EmptyBuffer)
    /\ UNCHANGED <<conns, last, senders, puts>>

\* send_message, or setup of the agent host, fails: end_generation.
SetupFails(t) ==
    /\ Step(t, "setup", "failed")
    /\ slots' = Without(turns[t].conv)
    /\ UNCHANGED <<conns, last, senders, puts>>

\* Mutant: the conversation is free again once the rows are there.
SetupDoneFreeing(t) ==
    /\ turns[t].pc = "setup"
    /\ turns' = [turns EXCEPT ![t].pc = "token", ![t].msg = t, ![t].gen = "working"]
    /\ last' = [last EXCEPT ![turns[t].conv] = t]
    /\ slots' = Without(turns[t].conv)
    /\ UNCHANGED <<conns, senders, puts>>

\* The rows are there.  Answering an approval resumes the conversation's last
\* assistant message (provide_assistant_message), any other send creates one.
\* The legacy path has spawned its generator.
SetupDone(t) ==
    LET c == turns[t].conv IN
    /\ turns[t].pc = "setup"
    /\ \E msg \in {t} \cup (IF Resumes THEN {last[c]} \ {NoTurn} ELSE {}) :
          /\ turns' = [turns EXCEPT ![t].pc = "token", ![t].msg = msg,
                            ![t].gen = IF Host = "legacy" THEN "working" ELSE "none"]
          /\ last' = [last EXCEPT ![c] = msg]
    /\ UNCHANGED <<conns, slots, senders, puts>>

\* create_token, keyed by the assistant message.  The agent host's handler goes
\* on to publish the started frame.
CreateToken(t) ==
    /\ Step(t, "token", "spawned")
    /\ senders' = [senders EXCEPT ![turns[t].msg] = t]
    /\ IF Host = "agent_core" THEN Publish(t, 0) ELSE UNCHANGED <<conns, slots>>
    /\ UNCHANGED <<last, puts>>

\* The sender hangs up, or the request times out, at one of the handler's awaits:
\* its future is dropped.
Dropped(t) ==
    /\ Disconnects
    /\ turns[t].pc \in {"setup", "token"} \cup (IF Host = "agent_core" THEN {"spawned"} ELSE {})
    /\ turns' = [turns EXCEPT ![t].pc = "dropped"]
    /\ UNCHANGED <<conns, slots, last, senders, puts>>

-----------------------------------------------------------------------------
(* A turn: the legacy generator (send_message's task) and its channel *)

\* The consumer has let go of the channel's receiver.
Deaf(t) ==
    \/ turns[t].pc \in {"dropped", "done"}
    \/ turns[t].pc = "ended" /\ turns[t].finish \in {"cancelled", "aborted"}

\* A chunk; when nobody listens, what was accumulated is saved and the task ends.
GenChunk(t) ==
    /\ turns[t].gen = "working"
    /\ \/ /\ ~Deaf(t) /\ turns[t].tail = "open" /\ turns[t].sent < MaxChunks
          /\ turns' = [turns EXCEPT ![t].sent = @ + 1]
       \/ /\ Deaf(t)
          /\ turns' = [turns EXCEPT ![t].gen = "gone", ![t].saved = TRUE]
    /\ UNCHANGED <<conns, slots, last, senders, puts>>

\* Mutant: the terminal chunk is sent before finalize.
GenEndUnsaved(t) ==
    /\ turns[t].gen = "working" /\ turns[t].tail = "open"
    /\ turns' = [turns EXCEPT ![t].gen = "saved", ![t].tail = "complete"]
    /\ UNCHANGED <<conns, slots, last, senders, puts>>

\* finalize of the last iteration
GenSave(t) ==
    /\ turns[t].gen = "working"
    /\ turns' = [turns EXCEPT ![t].gen = "saved", ![t].saved = TRUE]
    /\ UNCHANGED <<conns, slots, last, senders, puts>>

\* The terminal chunk.
GenEnd(t) ==
    /\ turns[t].gen = "saved"
    /\ turns' = [turns EXCEPT ![t].gen = "gone",
                       ![t].tail = IF @ = "open" THEN "complete" ELSE @]
    /\ UNCHANGED <<conns, slots, last, senders, puts>>

\* An error: what was accumulated is saved if it can be, the error is sent, and the
\* task ends, or, when a tool result could not be appended, goes on with its loop
\* (the break leaves the inner loop only).
GenFails(t) ==
    /\ turns[t].gen = "working" /\ turns[t].tail = "open"
    /\ \E goesOn \in BOOLEAN :
          turns' = [turns EXCEPT ![t].tail = "error",
                          ![t].gen = IF goesOn THEN "working" ELSE "gone"]
    /\ UNCHANGED <<conns, slots, last, senders, puts>>

\* A panic, or an end without a terminal chunk: the channel closes.
GenDies(t) ==
    /\ Panics /\ turns[t].gen = "working" /\ turns[t].tail = "open"
    /\ turns' = [turns EXCEPT ![t].gen = "gone", ![t].tail = "closed"]
    /\ UNCHANGED <<conns, slots, last, senders, puts>>

GenStep(t) == GenChunk(t) \/ GenSave(t) \/ GenEnd(t) \/ GenFails(t) \/ GenDies(t)

-----------------------------------------------------------------------------
(* A turn: the task that publishes *)

\* The first poll of the spawned task.  The legacy consumer publishes started.
Start(t) ==
    /\ Step(t, "spawned", "running")
    /\ IF Host = "legacy" THEN Publish(t, 0) ELSE UNCHANGED <<conns, slots>>
    /\ UNCHANGED <<last, senders, puts>>

\* A content frame: the next chunk of the channel, or whatever the agent emits.
Content(t) ==
    /\ turns[t].pc = "running" /\ turns[t].n < MaxChunks
    /\ Host = "legacy" => turns[t].n < turns[t].sent
    /\ Publish(t, turns[t].n + 1)
    /\ turns' = [turns EXCEPT ![t].n = @ + 1]
    /\ UNCHANGED <<last, senders, puts>>

\* An extension's event: raw, neither buffered nor numbered.  The legacy consumer
\* drains what is left of them after the terminal frame, the agent host before.
RawEvent(t) ==
    /\ \/ turns[t].pc = "running"
       \/ turns[t].pc = "ended" /\ Host = "legacy" /\ turns[t].finish # "aborted"
    /\ turns[t].raws < MaxRaw
    /\ conns' = Delivered(turns[t].conv, <<>>)
    /\ turns' = [turns EXCEPT ![t].raws = @ + 1]
    /\ UNCHANGED <<slots, last, senders, puts>>

Terminal(t, finish) ==
    /\ turns[t].pc = "running"
    /\ turns' = [turns EXCEPT ![t].pc = "ended", ![t].finish = finish]
    /\ Publish(t, End)
    /\ UNCHANGED <<last, senders, puts>>

\* Mutant: the channel's end without a terminal chunk is not an arm of the select.
ReadTailOrHang(t) ==
    /\ Host = "legacy" /\ turns[t].n = turns[t].sent
    /\ turns[t].tail \in {"complete", "error"}
    /\ Terminal(t, turns[t].tail)

\* The legacy channel is read to its end.
ReadTail(t) ==
    /\ Host = "legacy" /\ turns[t].n = turns[t].sent /\ turns[t].tail # "open"
    /\ Terminal(t, IF turns[t].tail = "complete" THEN "complete" ELSE "error")

\* Mutant: the stop token is looked at when a chunk arrives.
CancelOnChunk(t) ==
    /\ Host = "legacy" /\ turns[t].fired
    /\ turns[t].n < turns[t].sent
    /\ Terminal(t, "cancelled")

\* The legacy consumer's 250 ms poll of the stop token: the timer is set anew in
\* every turn of the select loop, so it only runs out while the channel is idle.
Cancel(t) ==
    /\ Host = "legacy" /\ turns[t].fired
    /\ turns[t].n = turns[t].sent /\ turns[t].tail = "open"
    /\ Terminal(t, "cancelled")

\* The agent host's loop returns; its cancel bridge may have stopped it.
AgentEnds(t) ==
    /\ Host = "agent_core"
    /\ \E finish \in {"complete", "error"} \cup (IF turns[t].fired THEN {"cancelled"} ELSE {}) :
          Terminal(t, finish)

\* Mutant: a panic in the consumer frees nothing.
PanicUnguarded(t) ==
    /\ Panics /\ Step(t, "running", "crashed")
    /\ UNCHANGED <<conns, slots, last, senders, puts>>

\* A panic of the task.  In the legacy consumer TerminalGuard publishes an error
\* and spawns the removal of the token; the agent host has no guard.
Panic(t) ==
    /\ Panics
    /\ \/ Host = "legacy" /\ Terminal(t, "aborted")
       \/ /\ Host = "agent_core" /\ Step(t, "running", "crashed")
          /\ UNCHANGED <<conns, slots, last, senders, puts>>

\* Mutant: the token of the conversation's last message is removed.
CleanupLast(t) ==
    /\ Step(t, "ended", "done")
    /\ senders' = [senders EXCEPT ![last[turns[t].conv]] = NoTurn]
    /\ UNCHANGED <<conns, slots, last, puts>>

\* Mutant: no removal of the token's sender.
CleanupLeaving(t) ==
    /\ Step(t, "ended", "done")
    /\ UNCHANGED <<conns, slots, last, senders, puts>>

\* remove_download, keyed by the message; the agent host then calls
\* end_generation.
Cleanup(t) ==
    /\ Step(t, "ended", "done")
    /\ senders' = [senders EXCEPT ![turns[t].msg] = NoTurn]
    /\ slots' = IF Host = "agent_core" THEN Without(turns[t].conv) ELSE slots
    /\ UNCHANGED <<conns, last, puts>>

\* stop_generation of a message: the token its id reaches fires, and is forgotten.
\* Without one the answer is 409 and nothing changes.
Stop(msg) ==
    /\ Stops /\ senders[msg] # NoTurn
    /\ turns' = [turns EXCEPT ![senders[msg]].fired = TRUE]
    /\ senders' = [senders EXCEPT ![msg] = NoTurn]
    /\ UNCHANGED <<conns, slots, last, puts>>

-----------------------------------------------------------------------------

HandlerStep(t) == SetupFails(t) \/ SetupDone(t) \/ CreateToken(t)

TaskStep(t) ==
    Start(t) \/ Content(t) \/ RawEvent(t) \/ ReadTail(t) \/ Cancel(t) \/ Cleanup(t)

Next ==
    \/ \E k \in Conns :
          \/ \E u \in Users : Open(k, u)
          \/ Read(k) \/ Close(k) \/ Drained(k)
    \/ \E p \in Puts :
          \/ \E k \in Conns, c \in Conversations \cup {NoConv} : PutCheck(p, k, c)
          \/ PutApply(p)
    \/ \E t \in Turns :
          \/ \E c \in Conversations : Begin(t, c)
          \/ Dropped(t) \/ Panic(t) \/ Stop(t) \/ AgentEnds(t)
          \/ HandlerStep(t) \/ TaskStep(t) \/ GenStep(t)

Spec == Init /\ [][Next]_vars

\* Handlers answer, spawned tasks run, and a connected client reads; nothing is
\* asked of the provider behind a generator, of senders or of users.
FairSpec ==
    /\ Spec
    /\ \A t \in Turns : WF_vars(HandlerStep(t)) /\ WF_vars(TaskStep(t)) /\ WF_vars(GenEnd(t))
    /\ \A k \in Conns : WF_vars(Read(k)) /\ WF_vars(Drained(k))

-----------------------------------------------------------------------------
(* Type correctness *)

\* Every variable keeps its shape: queues within their capacity, buffers within
\* theirs (registry.rs, buffers.rs).
TypeOK ==
    /\ conns \in [Conns -> Conn]
    /\ DOMAIN slots \subseteq Conversations
    /\ \A c \in DOMAIN slots :
          slots[c] \in Buffer /\ Len(slots[c].started) <= 1
                              /\ Len(slots[c].frames) <= BufferCap
    /\ turns \in [Turns -> Turn]
    /\ last \in [Conversations -> Turns \cup {NoTurn}]
    /\ senders \in [Turns -> Turns \cup {NoTurn}]
    /\ puts \in [Puts -> {<<>>} \cup {<<q>> : q \in Put}]

-----------------------------------------------------------------------------
(* Safety *)

LiveIn(c) == {t \in Turns : Live(t) /\ turns[t].conv = c}

\* One turn per conversation: no second send, resume or scheduled prompt gets
\* past begin_generation while a turn is between its claim and its terminal frame.
OneTurnPerConversation ==
    \A c \in Conversations : Cardinality(LiveIn(c)) <= 1

\* A conversation is marked generating exactly while a turn is live in it: the
\* scheduler's poll of is_generating sees no end that is none, and no failure, panic
\* or stop leaves a mark that answers 409 from then on.  Only a sender who went away
\* during set-up leaves one.
SlotFollowsTurns ==
    \A c \in Conversations :
        /\ LiveIn(c) # {} => InFlight(c)
        /\ InFlight(c) => LiveIn(c) # {}
              \/ \E t \in Turns : turns[t].pc = "dropped" /\ turns[t].conv = c

\* How many of n content frames a buffer retains.
Retained(n) == IF n < BufferCap THEN n ELSE BufferCap

\* A mid-stream join has no gap and no duplicate: since its last change of
\* subscription, a connection listed on the conversation of a running turn got
\* started once and from there on one unbroken run of the turn's content up to the
\* last frame published, nothing else in between, and at least as much of it as a
\* buffer retains (set_subscription replays under the lock that publish_frame
\* takes).
CaughtUp ==
    \A k \in Listed(conns), t \in Turns :
        turns[t].pc = "running" /\ conns[k].active = turns[t].conv
        => LET s == conns[k].seen
               n == turns[t].n
           IN  \E m \in 1..Len(s) :
                  /\ s[m] = [turn |-> t, no |-> 0]
                  /\ \A i \in 1..(m - 1) : s[i].turn # t
                  /\ \A i \in (m + 1)..Len(s) : s[i] = [turn |-> t, no |-> n - (Len(s) - i)]
                  /\ Len(s) - m \in Retained(n)..n

\* The connections charged against the caps have a stream behind them (ConnGuard),
\* and are no more than the caps.
ListedAreOpen ==
    /\ \A k \in Listed(conns) : conns[k].stream = "open"
    /\ Cardinality(Listed(conns)) <= GlobalCap
    /\ \A u \in Users : Cardinality(ListedOf(conns, u)) <= UserCap

\* A stop request reaches the turn it names: from create_token to its terminal
\* frame the id of a message the turn created finds that turn's own token, unless
\* it was used.
StopReachesTurn ==
    \A t \in Turns :
        /\ turns[t].pc \in {"spawned", "running"} /\ turns[t].msg = t
        => senders[t] = t \/ turns[t].fired

\* The stop token of a message outlives no turn: when the message's turns are all
\* over, its id reaches nothing.
NoStaleToken ==
    \A msg \in Turns :
        senders[msg] # NoTurn => \E t \in Turns :
            turns[t].msg = msg /\ turns[t].pc \in {"spawned", "running", "ended"}

\* When a turn that completed is announced (sync:conversation), the reply is in
\* the database: the generator saves before it sends the terminal chunk.
CompletedIsSaved ==
    \A t \in Turns :
        Host = "legacy" /\ turns[t].finish = "complete" => turns[t].saved

-----------------------------------------------------------------------------
(* Action properties *)

\* A 429 is only ever answered when the caps are used up by streams that are open.
RefusedOnlyWhenFull ==
    [][\A k \in Conns :
          conns[k].stream = "unopened" /\ conns'[k].stream = "refused" =>
             LET open == {j \in Conns : conns[j].stream = "open"}
                 own  == {j \in open : conns[j].user = conns'[k].user}
             IN  Cardinality(open) >= GlobalCap \/ Cardinality(own) >= UserCap]_vars

-----------------------------------------------------------------------------
(* What it implements *)

Holder == [c \in Conversations |->
    IF LiveIn(c) = {} THEN NoTurn ELSE CHOOSE t \in LiveIn(c) : TRUE]

Lock == INSTANCE TurnLock WITH
            holder <- Holder, spent <- {t \in Turns : turns[t].pc # "none"}

\* start_generation and its tasks keep the promise of begin_generation, step by
\* step: no turn takes over a conversation from another.
ImplementsTurnLock == Lock!Spec

-----------------------------------------------------------------------------
(* Liveness *)

\* A connection that was removed does not stay open behind the caps.
RemovedStreamEnds ==
    \A k \in Conns :
        conns[k].stream = "open" /\ ~conns[k].listed ~> conns[k].stream # "open"

\* A stop that found its turn ends it, even when the provider hangs.
StopEndsTurn ==
    \A t \in Turns : turns[t].fired /\ turns[t].pc = "running" ~> turns[t].pc # "running"

\* However its generator ends (a finished reply, an error, a failed save, a
\* panic), a turn ends after it and frees its conversation.
GeneratorEndsTurn ==
    \A t \in Turns : Live(t) /\ turns[t].gen \in {"saved", "gone"} ~> ~Live(t)
=============================================================================
