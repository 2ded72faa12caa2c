---------------------------- MODULE RequestPath ----------------------------
(***************************************************************************)
(* A request from AsyncLLM.generate() to the engine core and back.         *)
(*                                                                         *)
(* In the API server one event loop runs the coroutines of the calls, the  *)
(* tasks that feed streamed inputs, the task that reads the output socket  *)
(* and the output handler; a coroutine runs undisturbed from one await to  *)
(* the next, and that stretch is one action here.  A monitor thread watches *)
(* the engine process.  In the engine an input thread, the main loop and   *)
(* an output thread hand messages on through queues.                       *)
(*                                                                         *)
(* The OutputProcessor, its per-call collectors and the scheduler are not  *)
(* part of the repository: they are what AsyncLLM and EngineCore use them  *)
(* for.  Deep sleep (DeepSleep.tla) and several engines (DPClient.tla) are *)
(* elsewhere.  Sockets never make a sender wait (they have no high-water   *)
(* mark), so sending is part of the sender's action.                       *)
(***************************************************************************)
EXTENDS Integers, FiniteSets, Sequences, SequencesExt

CONSTANTS
    Setups,         \* [calls, cap, tokens, slice, crashes, faults] records
    Buffers         \* bound: encode buffers the output thread may own

\* A call asks for n requests, or streams its input in chunks, which excludes a
\* fan-out and stop strings (_validate_streaming_input_sampling_params)
CallShape == [n : Nat \ {0}, chunks : Nat, raw : BOOLEAN, stop : Nat]

ASSUME BuffersAssumption == Buffers \in Nat \ {0}

ASSUME SetupsAssumption ==
    \A s \in Setups :
        /\ IsFiniteSet(DOMAIN s.calls)
        /\ \A g \in DOMAIN s.calls :
               /\ s.calls[g] \in CallShape
               /\ s.calls[g].chunks > 0 => s.calls[g].n = 1 /\ s.calls[g].stop = 0
        /\ {s.cap, s.tokens, s.crashes, s.faults} \subseteq Nat
        /\ s.slice \in Nat \ {0}

VARIABLES
    setup,      \* the calls and limits of this behaviour
    task,       \* call -> where its coroutine is
    feeder,     \* call -> its handle_inputs task: [on, sent]
    queue,      \* call -> its RequestOutputCollector: [outs, last, err]
    got,        \* call -> what it has yielded, in order
    states,     \* ids the OutputProcessor knows (request_states)
    client,     \* [dead, reading, outputs, known, asked]: the AsyncMPClient
    handler,    \* output_handler: [on, todo, aborts], and the calls that its failure
                \* will not reach (history: missed)
    toEngine,   \* the input socket
    engine,     \* [alive, inq, abq, running, batch, outq], and the ids of which an
                \* input was refused (history)
    wire,       \* output socket and send buffers: [sent, content, pending, free]
    crashes,    \* crashes so far
    faults      \* requests whose preprocessing failed, streams that raised, and
                \* errors in the output reader and the output handler

vars == <<setup, task, feeder, queue, got, states, client, handler, toEngine,
          engine, wire, crashes, faults>>

Calls == DOMAIN setup.calls
Shape(g) == setup.calls[g]     \* [n, chunks, raw, stop]
Streams(g) == Shape(g).chunks > 0
Names == UNION {DOMAIN s.calls : s \in Setups}
Ids(g) == {<<g, i>> : i \in 1 .. Shape(g).n}
AllIds == UNION {Ids(g) : g \in Calls}

NoFunction == [x \in {} |-> x]
EmptyQueue == [outs |-> <<>>, last |-> FALSE, err |-> "none"]

Init ==
    /\ setup \in Setups
    /\ task = [g \in Calls |-> "new"]
    /\ feeder = [g \in Calls |-> [on |-> FALSE, sent |-> 0]]
    /\ queue = [g \in Calls |-> EmptyQueue]
    /\ got = [g \in Calls |-> <<>>]
    /\ states = {}
    /\ client = [dead |-> FALSE, reading |-> TRUE, outputs |-> <<>>,
                 known |-> FALSE, asked |-> {}]
    /\ handler = [on |-> TRUE, todo |-> <<>>, aborts |-> {}, missed |-> {}]
    /\ toEngine = <<>>
    /\ engine = [alive |-> "up", inq |-> <<>>, abq |-> <<>>,
                 running |-> NoFunction, batch |-> {}, outq |-> <<>>,
                 refused |-> {}]
    /\ wire = [sent |-> <<>>, content |-> [b \in 1 .. Buffers |-> <<>>],
               pending |-> <<>>, free |-> <<>>]
    /\ crashes = 0
    /\ faults = 0

Ended == {"done", "failed", "rejected", "gone"}
Engines == <<engine, wire, crashes>>

(***************************************************************************)
(* AsyncLLM: adding a request                                              *)
(***************************************************************************)
Add(id, input, final) == [type |-> "ADD", id |-> id, input |-> input, final |-> final]
Abort(ids) == [type |-> "ABORT", ids |-> ids]

\* _call_utility_async: sent at once, its future is kept in utility_results
Utility(g) == [type |-> "UTILITY", call |-> g]

\* errored: the engine is known dead, or the output handler has ended
Errored == client.dead \/ ~handler.on

\* check_admission
Admits(n) == Cardinality(states) + n <= setup.cap

\* q.close() ends the task that feeds a streamed input
Close(g) == feeder' = [feeder EXCEPT ![g].on = FALSE]

\* Register the ids in order and send each one; a dead engine stops at the first
Registered(g) == IF client.dead THEN {<<g, 1>>} ELSE Ids(g)

\* _add_request, for each id
Sent(g) ==
    /\ states' = states \cup Registered(g)
    /\ IF client.dead
       THEN task' = [task EXCEPT ![g] = "failed"] /\ UNCHANGED toEngine
       ELSE /\ task' = [task EXCEPT ![g] = "reading"]
            /\ toEngine' = toEngine \o [i \in 1 .. Shape(g).n |-> Add(<<g, i>>, TRUE, TRUE)]
    /\ UNCHANGED feeder

\* The rest of add_request once nothing is left to await: _add_request for the
\* request, or for every child of a fan-out (whose admission was checked at the
\* start); a streamed input starts its task instead
Added(g) ==
    IF Streams(g)
    THEN /\ feeder' = [feeder EXCEPT ![g].on = TRUE]
         /\ task' = [task EXCEPT ![g] = "reading"]
         /\ UNCHANGED <<states, toEngine>>
    ELSE IF Shape(g).n = 1 /\ ~Admits(1)
    THEN task' = [task EXCEPT ![g] = "rejected"] /\ UNCHANGED <<feeder, states, toEngine>>
    ELSE Sent(g)

\* Tokenising a raw prompt must not block the event loop
Prepared(g) ==
    IF Shape(g).raw /\ ~Streams(g)
    THEN task' = [task EXCEPT ![g] = "inputs"] /\ UNCHANGED <<feeder, states, toEngine>>
    ELSE Added(g)

\* generate, encode: add_request up to its first await
Generate(g) ==
    /\ task[g] = "new"
    /\ IF Errored
       THEN /\ task' = [task EXCEPT ![g] = "failed"]
            /\ UNCHANGED <<feeder, states, toEngine, client>>
       ELSE IF Shape(g).n > 1 /\ ~Admits(Shape(g).n)
       THEN /\ task' = [task EXCEPT ![g] = "rejected"]
            /\ UNCHANGED <<feeder, states, toEngine, client>>
       ELSE IF client.known
       THEN Prepared(g) /\ UNCHANGED client
       ELSE /\ task' = [task EXCEPT ![g] = "tasks"]
            /\ client' = [client EXCEPT !.asked = @ \cup {g}]
            /\ toEngine' = Append(toEngine, Utility(g))
            /\ UNCHANGED <<feeder, states>>
    /\ UNCHANGED <<setup, queue, got, handler, Engines, faults>>

\* get_supported_tasks returned (its future is set); the result is kept
GotTasks(g) ==
    /\ task[g] = "tasks"
    /\ g \notin client.asked
    /\ client' = [client EXCEPT !.known = TRUE]
    /\ Prepared(g)
    /\ UNCHANGED <<setup, queue, got, handler, Engines, faults>>

\* process_inputs_async returned
GotInputs(g) ==
    /\ task[g] = "inputs"
    /\ Added(g)
    /\ UNCHANGED <<setup, queue, got, client, handler, Engines, faults>>

(***************************************************************************)
(* Streamed inputs: handle_inputs                                          *)
(***************************************************************************)
\* RequestOutputCollector.put of an error replaces what was not read
Raised(q, err) == [outs |-> <<>>, last |-> FALSE, err |-> err]

\* _add_request for one input, or for the empty one that ends the session
CanFeed(id) == (id \in states \/ Admits(1)) /\ ~client.dead

\* _add_request of a session: registered before it is sent, if admitted
Fed(id, messages) ==
    /\ states' = IF id \in states \/ Admits(1) THEN states \cup {id} ELSE states
    /\ toEngine' = IF CanFeed(id) THEN toEngine \o messages ELSE toEngine

FeedChunk(g) ==
    LET id == <<g, 1>>
    IN  /\ feeder[g].on /\ feeder[g].sent < Shape(g).chunks
        /\ CanFeed(id)
        /\ feeder' = [feeder EXCEPT ![g].sent = @ + 1]
        /\ Fed(id, <<Add(id, TRUE, FALSE)>>)
        /\ UNCHANGED <<setup, task, queue, got, client, handler, Engines, faults>>

\* The input cannot be added, or the caller's own generator raised: the error
\* goes to the reader and the session is ended all the same
FeedFails(g) ==
    LET id == <<g, 1>>
    IN  /\ feeder[g].on /\ feeder[g].sent < Shape(g).chunks
        /\ IF CanFeed(id) THEN faults < setup.faults /\ faults' = faults + 1
                          ELSE UNCHANGED faults
        /\ feeder' = [feeder EXCEPT ![g].on = FALSE]
        /\ queue' = [queue EXCEPT ![g] = Raised(@, "input")]
        /\ Fed(id, <<Add(id, FALSE, TRUE)>>)
        /\ UNCHANGED <<setup, task, got, client, handler, Engines>>

FeedFinal(g) ==
    LET id == <<g, 1>>
    IN  /\ feeder[g].on /\ feeder[g].sent = Shape(g).chunks
        /\ feeder' = [feeder EXCEPT ![g].on = FALSE]
        /\ Fed(id, <<Add(id, FALSE, TRUE)>>)
        /\ UNCHANGED <<setup, task, queue, got, client, handler, Engines, faults>>

(***************************************************************************)
(* AsyncLLM: reading, cancelling, aborting                                 *)
(***************************************************************************)
\* abort_requests_async: nothing to say to a dead engine
SendAborts(ids) ==
    toEngine' = IF ids = {} \/ client.dead THEN toEngine ELSE Append(toEngine, Abort(ids))

\* abort: forget the ids and tell the engine
AbortIds(ids) == states' = states \ ids /\ SendAborts(ids \cap states)

\* The loop of generate(): take what the collector holds and yield it
Read(g) ==
    /\ task[g] = "reading"
    /\ queue[g].err = "none" /\ (queue[g].outs # <<>> \/ queue[g].last)
    /\ got' = [got EXCEPT ![g] = @ \o queue[g].outs]
    /\ queue' = [queue EXCEPT ![g] = EmptyQueue]
    /\ IF queue[g].last
       THEN task' = [task EXCEPT ![g] = "done"] /\ Close(g)
       ELSE UNCHANGED <<task, feeder>>
    /\ UNCHANGED <<setup, states, client, handler, toEngine, Engines, faults>>

\* EngineDeadError: no abort; any other error, of the input stream or of the
\* output handler: abort
ReadError(g) ==
    /\ task[g] = "reading"
    /\ queue[g].err # "none"
    /\ task' = [task EXCEPT ![g] = "failed"]
    /\ Close(g)
    /\ IF queue[g].err = "dead" THEN UNCHANGED <<states, toEngine>> ELSE AbortIds(Ids(g))
    /\ UNCHANGED <<setup, queue, got, client, handler, Engines, faults>>

\* The client disconnects: CancelledError or GeneratorExit at an await.  Before
\* add_request has returned there is no collector, and nothing registered
Cancel(g) ==
    /\ task[g] \in {"new", "tasks", "inputs", "reading"}
    /\ task' = [task EXCEPT ![g] = "gone"]
    /\ Close(g)
    /\ IF task[g] = "reading" THEN AbortIds(Ids(g)) ELSE UNCHANGED <<states, toEngine>>
    /\ UNCHANGED <<setup, queue, got, client, handler, Engines, faults>>

(***************************************************************************)
(* The engine process                                                      *)
(***************************************************************************)
Output(id, tok, fin) == [id |-> id, tok |-> tok, fin |-> fin]
Outputs(outs) == [type |-> "outputs", outs |-> outs]
DEAD == [type |-> "dead"]

\* process_input_sockets: an abort goes to both queues, so that a running step
\* sees it early and an ADD still waiting in the input queue is not leaked
InputThread ==
    LET message == Head(toEngine)
    IN  /\ engine.alive = "up" /\ toEngine # <<>>
        /\ toEngine' = Tail(toEngine)
        /\ engine' = [engine EXCEPT
               !.inq = Append(@, message),
               !.abq = IF message.type = "ABORT" THEN Append(@, message.ids) ELSE @]
        /\ UNCHANGED <<setup, task, feeder, queue, got, states, client, handler,
                       wire, crashes, faults>>

\* _handle_request_preproc_error: an output without a token that ends the request
Refusal(id) == Outputs(<<Output(id, 0, TRUE)>>)

\* preprocess_add_request raised: answered from the input thread
PreprocessFails ==
    LET message == Head(toEngine)
    IN  /\ engine.alive = "up" /\ toEngine # <<>>
        /\ message.type = "ADD"
        /\ faults < setup.faults /\ faults' = faults + 1
        /\ toEngine' = Tail(toEngine)
        /\ engine' = [engine EXCEPT
               !.refused = @ \cup {message.id},
               !.outq = Append(@, Refusal(message.id))]
        /\ UNCHANGED <<setup, task, feeder, queue, got, states, client, handler,
                       wire, crashes>>

\* The scheduler: a new request, or one more input of a session
Taken(running, message) ==
    LET id == message.id
        old == IF id \in DOMAIN running THEN running[id]
               ELSE [inputs |-> IF message.input THEN 0 ELSE 1, made |-> 0, final |-> FALSE]
        new == [old EXCEPT !.inputs = IF message.input THEN @ + 1 ELSE @,
                           !.final = message.final]
    IN  [i \in DOMAIN running \cup {id} |-> IF i = id THEN new ELSE running[i]]

Without(running, ids) == [i \in DOMAIN running \ ids |-> running[i]]

\* Mutant: the main loop leaves aborts to the eager queue
HandledAdds(message) ==
    CASE message.type = "ADD" -> [engine EXCEPT !.running = Taken(@, message)]
      [] message.type = "ABORT" -> engine
      [] message.type = "UTILITY" -> [engine EXCEPT !.outq = Append(@, message)]

\* _handle_client_request
Handled(message) ==
    CASE message.type = "ADD" -> [engine EXCEPT !.running = Taken(@, message)]
      [] message.type = "ABORT" -> [engine EXCEPT !.running = Without(@, message.ids)]
      [] message.type = "UTILITY" -> [engine EXCEPT !.outq = Append(@, message)]

\* _process_input_queue drains the queue before a step
HandleInput ==
    /\ engine.alive = "up" /\ engine.batch = {} /\ engine.inq # <<>>
    /\ engine' = [Handled(Head(engine.inq)) EXCEPT !.inq = Tail(@)]
    /\ UNCHANGED <<setup, task, feeder, queue, got, states, client, handler,
                   toEngine, wire, crashes, faults>>

Goal(request) == request.inputs * setup.tokens
Schedulable == {id \in DOMAIN engine.running :
                   LET request == engine.running[id]
                   IN  request.made < Goal(request) \/ request.final}

\* step: schedule and execute
StepBegin ==
    /\ engine.alive = "up" /\ engine.batch = {} /\ engine.inq = <<>>
    /\ Schedulable # {}
    /\ engine' = [engine EXCEPT !.batch = Schedulable]
    /\ UNCHANGED <<setup, task, feeder, queue, got, states, client, handler,
                   toEngine, wire, crashes, faults>>

\* One token of a request, and whether it is its last
Made(request) == IF request.made < Goal(request) THEN request.made + 1 ELSE request.made
Finishes(request) == request.final /\ Made(request) = Goal(request)
TokenOf(request) == IF request.made < Goal(request) THEN request.made + 1 ELSE 0

\* _process_aborts_queue: what arrived while the step was running
Aborted == UNION ToSet(engine.abq)

\* step: _process_aborts_queue, update_from_output, then _process_engine_step
\* hands the outputs to the output thread
StepEnd ==
    LET left == Without(engine.running, Aborted)
        batch == engine.batch \cap DOMAIN left
        outs == SetToSeq({Output(id, TokenOf(left[id]), Finishes(left[id])) : id \in batch})
        finished == {id \in batch : Finishes(left[id])}
        moved == [id \in DOMAIN left |->
                     IF id \in batch THEN [left[id] EXCEPT !.made = Made(left[id])]
                     ELSE left[id]]
    IN  /\ engine.alive = "up" /\ engine.batch # {}
        /\ engine' = [engine EXCEPT
               !.abq = <<>>, !.batch = {},
               !.running = Without(moved, finished),
               !.outq = IF outs = <<>> THEN @ ELSE Append(@, Outputs(outs))]
        /\ UNCHANGED <<setup, task, feeder, queue, got, states, client, handler,
                       toEngine, wire, crashes, faults>>

Sending(b) == \E i \in DOMAIN wire.sent : wire.sent[i].buf = b

\* Of the buffers sent, newest first, the oldest ones are reclaimed, as far as
\* zmq has finished with them
Held == Max({i \in DOMAIN wire.pending : Sending(wire.pending[i])} \cup {0})
Reclaimed == SubSeq(wire.pending, Held + 1, Len(wire.pending))

\* At most one buffer per socket and one more is kept for reuse
Kept(buffers) == SubSeq(buffers, 1, Min({2, Len(buffers)}))

Unused == {b \in 1 .. Buffers : ~Sending(b) /\ b \notin ToSet(wire.pending \o wire.free)}

\* process_output_sockets: encode into a buffer zmq has released, or a new one,
\* and send without copying
OutputThread ==
    LET message == Head(engine.outq)
        free == Kept(wire.free \o Reverse(Reclaimed))
        buf == IF free = <<>> THEN CHOOSE b \in Unused : TRUE ELSE Last(free)
    IN  /\ engine.alive \in {"up", "dying"} /\ engine.outq # <<>>
        /\ message # DEAD
        /\ free # <<>> \/ Unused # {}
        /\ wire' = [wire EXCEPT !.sent = Append(@, [buf |-> buf]),
                                !.content[buf] = message,
                                !.pending = <<buf>> \o SubSeq(@, 1, Held),
                                !.free = SubSeq(free, 1, Len(free) - 1)]
        /\ engine' = [engine EXCEPT !.outq = Tail(@)]
        /\ UNCHANGED <<setup, task, feeder, queue, got, states, client, handler,
                       toEngine, crashes, faults>>

\* The last message of a dying engine; the process ends behind it
OutputDead ==
    /\ engine.alive = "dying" /\ engine.outq # <<>> /\ Head(engine.outq) = DEAD
    /\ wire' = [wire EXCEPT !.sent = Append(@, [buf |-> 0])]
    /\ engine' = [engine EXCEPT !.outq = <<>>, !.alive = "dead"]
    /\ UNCHANGED <<setup, task, feeder, queue, got, states, client, handler,
                   toEngine, crashes, faults>>

\* The main loop raises: run_engine_core sends ENGINE_CORE_DEAD
Raise ==
    /\ engine.alive = "up" /\ crashes < setup.crashes
    /\ crashes' = crashes + 1
    /\ engine' = [engine EXCEPT !.alive = "dying", !.outq = Append(@, DEAD)]
    /\ UNCHANGED <<setup, task, feeder, queue, got, states, client, handler,
                   toEngine, wire, faults>>

\* The process is killed: nothing is said
Kill ==
    /\ engine.alive = "up" /\ crashes < setup.crashes
    /\ crashes' = crashes + 1
    /\ engine' = [engine EXCEPT !.alive = "dead", !.outq = <<>>]
    /\ UNCHANGED <<setup, task, feeder, queue, got, states, client, handler,
                   toEngine, wire, faults>>

(***************************************************************************)
(* The client's tasks                                                      *)
(***************************************************************************)
ERROR == [type |-> "error"]

\* _process_utility_output
Resolved(call) == [client EXCEPT !.asked = @ \ {call}]

\* The first message is off the wire; zmq is done with its buffer
TakenOff(first) ==
    [wire EXCEPT
        !.sent = Tail(@),
        !.content = [b \in DOMAIN @ |-> IF first \notin ToSet(Tail(wire.sent))
                                           /\ b = first.buf THEN <<>> ELSE @[b]]]

\* process_outputs_socket: outputs to the handler, a utility result to its
\* future, ENGINE_CORE_DEAD (validate_alive) to everyone
Receive ==
    LET first == Head(wire.sent)
        message == IF first.buf = 0 THEN DEAD ELSE wire.content[first.buf]
    IN  /\ client.reading /\ wire.sent # <<>>
        /\ wire' = TakenOff(first)
        /\ client' =
             CASE message.type = "dead" ->
                    [client EXCEPT !.dead = TRUE, !.reading = FALSE,
                                   !.outputs = Append(@, ERROR)]
               [] message.type = "UTILITY" -> Resolved(message.call)
               [] message.type = "outputs" ->
                    [client EXCEPT !.outputs = Append(@, message)]
        /\ UNCHANGED <<setup, task, feeder, queue, got, states, handler, toEngine,
                       engine, crashes, faults>>

\* A message cannot be decoded, or what is done with it raises: the reader ends
\* and hands the error on, though the engine lives; nobody starts it again
\* (_ensure_output_queue_task)
ReaderFails ==
    /\ client.reading /\ wire.sent # <<>> /\ Head(wire.sent).buf # 0
    /\ faults < setup.faults /\ faults' = faults + 1
    /\ wire' = TakenOff(Head(wire.sent))
    /\ client' = [client EXCEPT !.reading = FALSE, !.outputs = Append(@, ERROR)]
    /\ UNCHANGED <<setup, task, feeder, queue, got, states, handler, toEngine,
                   engine, crashes>>

\* monitor_engine_cores: the process is gone and nobody has said so
MonitorSees ==
    /\ engine.alive = "dead" /\ ~client.dead
    /\ client' = [client EXCEPT !.dead = TRUE]
    /\ UNCHANGED <<setup, task, feeder, queue, got, states, handler, toEngine,
                   engine, wire, crashes, faults>>

\* Mutant: the cancelled reader says nothing
ShutdownQuietly ==
    /\ client.dead /\ client.reading
    /\ client' = [client EXCEPT !.reading = FALSE]
    /\ UNCHANGED <<setup, task, feeder, queue, got, states, handler, toEngine,
                   engine, wire, crashes, faults>>

\* BackgroundResources.__call__ on the event loop: the reader is cancelled and
\* leaves an EngineDeadError
Shutdown ==
    /\ client.dead /\ client.reading
    /\ client' = [client EXCEPT !.reading = FALSE, !.outputs = Append(@, ERROR)]
    /\ UNCHANGED <<setup, task, feeder, queue, got, states, handler, toEngine,
                   engine, wire, crashes, faults>>

\* propagate_error: every call with a request in known gets the error
Told(q, known, err) == [g \in Calls |-> IF Ids(g) \cap known = {} THEN q[g]
                                       ELSE Raised(q[g], err)]

\* Calls past the errored check that have nothing registered: no error reaches
\* them, and the handler is not started again (_run_output_handler)
Unreached(known) ==
    {g \in Calls : /\ task[g] \in {"tasks", "inputs"} \/ feeder[g].on
                   /\ Ids(g) \cap known = {}}

\* The end of the handler, known being the requests that are registered; a dead
\* engine refuses whatever is sent later
HandlerOff(known) ==
    [handler EXCEPT !.on = FALSE, !.todo = <<>>,
                    !.missed = IF client.dead THEN {} ELSE Unreached(known)]

\* output_handler: the next batch of outputs, or the error that ends it, which
\* _format_exception turns into EngineDeadError if the engine is dead
HandlerTakes ==
    LET message == Head(client.outputs)
    IN  /\ handler.on /\ handler.todo = <<>> /\ handler.aborts = {}
        /\ client.outputs # <<>>
        /\ client' = [client EXCEPT !.outputs = Tail(@)]
        /\ IF message = ERROR
           THEN /\ handler' = HandlerOff(states)
                /\ queue' = Told(queue, states, IF client.dead THEN "dead" ELSE "handler")
           ELSE handler' = [handler EXCEPT !.todo = message.outs] /\ UNCHANGED queue
        /\ UNCHANGED <<setup, task, feeder, got, states, toEngine, Engines, faults>>

\* The detokeniser finds a stop string
Stops(out) == Shape(out.id[1]).stop > 0 /\ out.tok = Shape(out.id[1]).stop
Ends(out) == out.fin \/ Stops(out)

\* OutputProcessor.process_outputs: the output of an unknown request, or of one
\* that an earlier output has ended, is ignored
Reaches(outs, i) ==
    /\ outs[i].id \in states
    /\ \A j \in 1 .. (i - 1) : outs[j].id = outs[i].id => ~Ends(outs[j])

StatesAfter(outs) == states \ {outs[i].id : i \in {k \in DOMAIN outs : Ends(outs[k])}}

\* reqs_to_abort: stopped here while the engine goes on
ToAbort(outs) ==
    {outs[i].id : i \in {k \in DOMAIN outs : Reaches(outs, k) /\ Stops(outs[k]) /\ ~outs[k].fin}}

\* What call g is given, in order
Items(outs, g) ==
    LET at == SelectSeq([i \in DOMAIN outs |-> i],
                        LAMBDA i : Reaches(outs, i) /\ outs[i].id[1] = g /\ outs[i].tok # 0)
    IN  [k \in DOMAIN at |-> <<outs[at[k]].id[2], outs[at[k]].tok>>]

\* The last of its requests ends a call
EndsCall(outs, g) ==
    /\ \E i \in DOMAIN outs : outs[i].id[1] = g /\ Reaches(outs, i) /\ Ends(outs[i])
    /\ Ids(g) \cap StatesAfter(outs) = {}

\* RequestOutputCollector.put merges; an error stands until it is read
Collected(outs, g) ==
    IF queue[g].err # "none" THEN queue[g]
    ELSE [outs |-> queue[g].outs \o Items(outs, g),
          last |-> queue[g].last \/ EndsCall(outs, g), err |-> "none"]

\* One slice of the outputs.  After the last slice the aborts go out at once;
\* before, the handler first lets other tasks run
SliceLen == Min({setup.slice, Len(handler.todo)})
Rest == SubSeq(handler.todo, SliceLen + 1, Len(handler.todo))

ProcessOutputs(outs) ==
    /\ handler.on /\ handler.todo # <<>> /\ handler.aborts = {}
    /\ states' = StatesAfter(outs)
    /\ queue' = [g \in Calls |-> Collected(outs, g)]
    /\ IF Rest = <<>>
       THEN handler' = [handler EXCEPT !.todo = <<>>] /\ SendAborts(ToAbort(outs))
       ELSE /\ handler' = [handler EXCEPT !.todo = Rest, !.aborts = ToAbort(outs)]
            /\ UNCHANGED toEngine
    /\ UNCHANGED <<setup, task, feeder, got, client, Engines, faults>>

\* Mutant: a slice includes the first output of the next one
HandlerSliceOverlaps ==
    ProcessOutputs(SubSeq(handler.todo, 1, Min({SliceLen + 1, Len(handler.todo)})))

HandlerSlice == ProcessOutputs(SubSeq(handler.todo, 1, SliceLen))

\* Anything else raises in the handler, for the first time or after other slices:
\* process_outputs on one of the outputs of a slice, when the stop strings found
\* before it are not told to the engine; or the statistics and the logging after
\* the last slice, when they are
HandlerFails ==
    \E n \in 0 .. SliceLen :
        LET outs == SubSeq(handler.todo, 1, n)
        IN  /\ handler.on /\ handler.todo # <<>> /\ handler.aborts = {}
            /\ n < SliceLen \/ Rest = <<>>
            /\ faults < setup.faults /\ faults' = faults + 1
            /\ states' = StatesAfter(outs)
            /\ queue' = Told([g \in Calls |-> Collected(outs, g)], StatesAfter(outs), "handler")
            /\ handler' = HandlerOff(StatesAfter(outs))
            /\ IF n < SliceLen THEN UNCHANGED toEngine ELSE SendAborts(ToAbort(outs))
            /\ UNCHANGED <<setup, task, feeder, got, client, Engines>>

HandlerAborts ==
    /\ handler.aborts # {}
    /\ handler' = [handler EXCEPT !.aborts = {}]
    /\ SendAborts(handler.aborts)
    /\ UNCHANGED <<setup, task, feeder, queue, got, states, client, Engines, faults>>

-----------------------------------------------------------------------------
Coroutine(g) ==
    Generate(g) \/ GotTasks(g) \/ GotInputs(g) \/ Read(g) \/ ReadError(g)
Feed(g) == FeedChunk(g) \/ FeedFails(g) \/ FeedFinal(g)
Handler == HandlerTakes \/ HandlerSlice \/ HandlerAborts
MainLoop == HandleInput \/ StepBegin \/ StepEnd
OutputLoop == OutputThread \/ OutputDead

\* What the event loop, the engine's threads and the monitor do by themselves
Progress ==
    \/ \E g \in Calls : Coroutine(g) \/ Feed(g)
    \/ InputThread \/ MainLoop \/ OutputLoop
    \/ Receive \/ MonitorSees \/ Shutdown \/ Handler

Next ==
    \/ Progress
    \/ \E g \in Calls : Cancel(g)
    \/ PreprocessFails \/ ReaderFails \/ HandlerFails \/ Raise \/ Kill

Spec == Init /\ [][Next]_vars

\* The event loop runs every ready task and the engine's threads are scheduled.
\* Every action uses something up, so no behaviour goes round in circles and
\* fairness of each task amounts to: while one of them can go on, one does
FairSpec == Spec /\ WF_vars(Progress)

-----------------------------------------------------------------------------
Messages == UNION {ToSet(toEngine), ToSet(engine.inq)}

\* Type invariant; the task of a streamed input runs only for a call that reads
TypeOK ==
    /\ setup \in Setups
    /\ task \in [Calls -> {"new", "tasks", "inputs", "reading"} \cup Ended]
    /\ states \subseteq AllIds /\ DOMAIN engine.running \subseteq AllIds
    /\ client.dead \in BOOLEAN /\ client.reading \in BOOLEAN /\ client.asked \subseteq Calls
    /\ handler.on \in BOOLEAN /\ handler.aborts \subseteq AllIds
    /\ handler.missed \subseteq Calls
    /\ engine.alive \in {"up", "dying", "dead"}
    /\ engine.batch \subseteq AllIds
    /\ Len(wire.free) \in 0 .. 2 /\ ToSet(wire.pending) \subseteq 1 .. Buffers
    /\ \A g \in Calls : /\ feeder[g].sent \in 0 .. Shape(g).chunks
                        /\ feeder[g].on => task[g] = "reading"
                        /\ queue[g].err \in {"none", "dead", "input", "handler"}

\* What call g should receive of its i-th request
Expected(g) == IF Shape(g).stop > 0 THEN Shape(g).stop
               ELSE setup.tokens * Max({1, Shape(g).chunks})

\* A session whose later input the engine refuses is over for the front end and
\* goes on in the engine: _handle_request_preproc_error answers, nobody aborts
Split(id) == Streams(id[1]) /\ id \in engine.refused

\* A caller gets every token once and in order, though outputs pass three
\* queues, a buffer that is reused while zmq may still be sending it, slices and
\* a collector that merges; and a call that ends normally has got all of them,
\* except a split session, which a late input may even revive
\* (process_output_sockets, output_handler, generate)
YieldedInOrder ==
    \A g \in Calls : \A i \in {k \in 1 .. Shape(g).n : ~Split(<<g, k>>)} :
        LET mine == SelectSeq(got[g], LAMBDA item : item[1] = i)
        IN  /\ \A k \in DOMAIN mine : mine[k][2] = k
            /\ Len(mine) <= Expected(g)
            /\ task[g] = "done" /\ faults = 0 => Len(mine) = Expected(g)

\* Front end and engine are connected: the process lives, and the tasks that bring
\* its outputs run
Connected == engine.alive = "up" /\ ~client.dead /\ client.reading /\ handler.on

\* The engine works for nobody only for as long as it takes an abort to reach
\* it: whoever finishes or leaves first -- the client, a stop string, an error
\* of the input -- no request is left running, except a split session (generate, output_handler, the two
\* abort queues of process_input_sockets)
NoOrphans ==
    Connected =>
        \A id \in DOMAIN engine.running :
            \/ id \in states \/ id \in handler.aborts \/ Split(id)
            \/ \E message \in Messages : message.type = "ABORT" /\ id \in message.ids

\* Answers that will end request id at the front end
Answers == ToSet(engine.outq) \cup ToSet(client.outputs) \cup {Outputs(handler.todo)}
             \cup {wire.content[wire.sent[i].buf] :
                      i \in {k \in DOMAIN wire.sent : wire.sent[k].buf # 0}}
Answered(id) == \E message \in Answers : /\ message.type = "outputs"
                                         /\ \E k \in DOMAIN message.outs :
                                               message.outs[k].id = id /\ message.outs[k].fin

\* A registered request is never forgotten: it is on its way to the engine, in
\* it, or its end is on its way back; and a session whose input has not ended
\* still has a task to end it (add_request, handle_inputs)
NothingForgotten ==
    Connected =>
        \A id \in states :
            \/ id \in DOMAIN engine.running /\ engine.running[id].final
            \/ \E message \in Messages : message.type = "ADD" /\ message.id = id /\ message.final
            \/ Answered(id)
            \/ feeder[id[1]].on \/ Split(id)

\* max_num_queued_reqs holds although calls wait between the check of a fan-out
\* and its registration: the front end holds more requests only while the
\* requests of a fan-out are among them (check_admission, _add_request)
CapHeld == Cardinality(states) > setup.cap =>
               \E g \in Calls : Shape(g).n > 1 /\ Ids(g) \cap states # {}

\* Front end and engine agree on who is being served: types (TypeOK), no request
\* runs for nobody (NoOrphans), none is waited for in vain (NothingForgotten), and
\* the admission cap holds (CapHeld).
NoneLost == TypeOK /\ NoOrphans /\ NothingForgotten /\ CapHeld

\* Every call ends, in whatever state the engine, the reader and the handler are
\* when one of them fails.  Two kinds of calls are left waiting: a utility call
\* whose reader has ended, because nobody fails its future; and a call that had
\* passed the errored check and registered nothing when the handler ended although
\* the engine lives (_add_request does not look at errored again)
EveryCallEnds ==
    \A g \in Names :
        <>(\/ g \notin Calls \/ task[g] \in Ended
           \/ task[g] = "tasks" /\ ~client.reading
           \/ g \in handler.missed)

=============================================================================
