------------------------------ MODULE Registry ------------------------------
(***************************************************************************)
(* The handler registry (src/handler/registry.rs), filled through          *)
(* ClientBuilder (src/client.rs), announced to the parent as the schema of *)
(* $init (src/control/init.rs), and then used to dispatch the parent's     *)
(* requests and to number the client's events.  The bytes of the headers   *)
(* that go back are those of module Wire: the parent has nothing else to   *)
(* go by.                                                                  *)
(*                                                                         *)
(* A handler is the number of the registration that brought it.            *)
(***************************************************************************)
EXTENDS Wire, FiniteSets

CONSTANTS
  MethodNames,
  EventNames,
  MaxRegistrations,  \* bound of the model: methods and events registered
  None               \* no call, no schema

VARIABLES
  stage,           \* "building", "panicked" or "announced"
  overflow_checks, \* the build profile: does integer overflow panic?
  methods,         \* HashMap<String, MethodEntry>
  events,          \* HashMap<String, u16>
  next_method_id,
  next_event_id,
  id_to_name,      \* HashMap<u16, String>
  schema,          \* the schema in $init
  call,            \* the request being served
  outbound,        \* the header of the last frame sent to the parent, or <<>>
  latest,          \* history: the last registration of each method name
  count            \* history: how many methods and events were registered

registryVars == <<methods, events, next_method_id, next_event_id, id_to_name>>
historyVars  == <<latest, count>>
vars == <<stage, overflow_checks, registryVars, schema, call, outbound,
          historyVars>>

\* The response types ClientBuilder can register.
ResponseTypes == {"Result", "Stream", "Ack"}

\* What can become of a request frame
Fates == {"torn down", "abort", "ignored", "skipped", "HandlerNotFound",
          "handler"}

\* What occupies the client: a request, with the answer once it is sent, or an
\* event it emits.
Requests == [method_id     : 0..(U16 - 1),
             request_id    : {0, 1},
             fate          : Fates,
             response_type : ResponseTypes,
             handler       : Nat,
             answer        : Answers \cup {"none"}]
Emits == [event : EventNames]

ASSUME NoneAssumption == None \notin Requests /\ None \notin Emits

Empty == [x \in {} |-> x]

\* HashMap::insert
Insert(map, key, value) ==
  [k \in DOMAIN map \cup {key} |-> IF k = key THEN value ELSE map[k]]

Registrations == count.methods + count.events

Init ==
  /\ stage = "building"
  /\ overflow_checks \in BOOLEAN
  /\ methods = Empty
  /\ events = Empty
  /\ next_method_id = 1
  /\ next_event_id = 1
  /\ id_to_name = Empty
  /\ schema = None
  /\ call = None
  /\ outbound = <<>>
  /\ latest = Empty
  /\ count = [methods |-> 0, events |-> 0]

-----------------------------------------------------------------------------
(* HandlerRegistry                                                         *)

\* `+= 1` on a u16: it panics at 0xFFFF or wraps, as the build profile has it.
Increment(id) == (id + 1) % U16
Overflows(id) == overflow_checks /\ id + 1 = U16

\* Mutant of register: a name that is registered again keeps its first handler.
registerKeeps(name, response_type) ==
  LET id == next_method_id
  IN  /\ next_method_id' = Increment(id)
      /\ methods' = IF name \in DOMAIN methods THEN methods
                    ELSE Insert(methods, name, [handler       |-> count.methods + 1,
                                                response_type |-> response_type,
                                                id            |-> id])
      /\ id_to_name' = Insert(id_to_name, id, name)
      /\ UNCHANGED <<events, next_event_id>>

\* Mutant of register: the id is taken from the number of names.
registerByLen(name, response_type) ==
  LET id == Cardinality(DOMAIN methods) + 1
  IN  /\ next_method_id' = Increment(id)
      /\ methods' = Insert(methods, name, [handler       |-> count.methods + 1,
                                           response_type |-> response_type,
                                           id            |-> id])
      /\ id_to_name' = Insert(id_to_name, id, name)
      /\ UNCHANGED <<events, next_event_id>>

\* A name registered again gets a new entry and a new id; the old id still
\* leads to the name.
register(name, response_type) ==
  LET id == next_method_id
  IN  /\ next_method_id' = Increment(id)
      /\ methods' = Insert(methods, name, [handler       |-> count.methods + 1,
                                           response_type |-> response_type,
                                           id            |-> id])
      /\ id_to_name' = Insert(id_to_name, id, name)
      /\ UNCHANGED <<events, next_event_id>>

\* Mutant of register_event: the id is taken from the number of names.
register_eventByLen(name) ==
  /\ next_event_id' = Increment(next_event_id)
  /\ events' = Insert(events, name, Cardinality(DOMAIN events \cup {name}))
  /\ UNCHANGED <<methods, next_method_id, id_to_name>>

register_event(name) ==
  /\ next_event_id' = Increment(next_event_id)
  /\ events' = Insert(events, name, next_event_id)
  /\ UNCHANGED <<methods, next_method_id, id_to_name>>

\* Lookups by name; a name that is not a key is None.
get_handler(name)       == methods[name].handler
get_method_id(name)     == methods[name].id
get_response_type(name) == methods[name].response_type
get_event_id(name)      == events[name]

\* Lookups by id go from the id to the name and from the name to its entry.
get_method_name(id)         == id_to_name[id]
Known(id) == id \in DOMAIN id_to_name /\ get_method_name(id) \in DOMAIN methods
get_handler_by_id(id)       == get_handler(get_method_name(id))
get_response_type_by_id(id) == get_response_type(get_method_name(id))

\* What InitSchema::add_method and add_event record of a name
MethodSchema(name) == [id |-> get_method_id(name), response |-> get_response_type(name)]
EventSchema(name)  == [id |-> get_event_id(name)]

build_schema ==
  [methods |-> [n \in DOMAIN methods |-> MethodSchema(n)],
   events  |-> [n \in DOMAIN events |-> EventSchema(n)]]

-----------------------------------------------------------------------------
(* ClientBuilder                                                           *)

Building == stage = "building" /\ Registrations < MaxRegistrations

\* handle, handle_stream and handle_ack
Handle(name, response_type) ==
  /\ Building
  /\ ~Overflows(next_method_id)
  /\ register(name, response_type)
  /\ latest' = Insert(latest, name, [handler       |-> count.methods + 1,
                                     response_type |-> response_type])
  /\ count' = [count EXCEPT !.methods = @ + 1]
  /\ UNCHANGED <<stage, overflow_checks, schema, call, outbound>>

Event(name) ==
  /\ Building
  /\ ~Overflows(next_event_id)
  /\ register_event(name)
  /\ count' = [count EXCEPT !.events = @ + 1]
  /\ UNCHANGED <<stage, overflow_checks, schema, call, outbound, latest>>

\* The increment panics before anything is inserted.
Panic ==
  /\ Building
  /\ Overflows(next_method_id) \/ Overflows(next_event_id)
  /\ stage' = "panicked"
  /\ UNCHANGED <<overflow_checks, registryVars, schema, call, outbound,
                 historyVars>>

\* start() builds the schema and announces it.
Announce ==
  /\ stage = "building"
  /\ schema' = build_schema
  /\ stage' = "announced"
  /\ UNCHANGED <<overflow_checks, registryVars, call, outbound, historyVars>>

-----------------------------------------------------------------------------
(* Requests, answers and events: one exchange, since none of them changes   *)
(* the registry.                                                           *)

\* dispatch_frame's response type for the context; Result if the id is unknown
ContextFor(id) == IF Known(id) THEN get_response_type_by_id(id) ELSE "Result"

\* What becomes of a request frame, by the first test that takes it: FrameBuffer
\* refuses an invalid header, dispatch_frame takes the reserved ids and the
\* responses out, and HandlerRegistry::dispatch looks the rest up.
Fate(h) ==
  LET traits == HeaderTraits(h)
  IN  IF ~Valid(h, ABSOLUTE_MAX_PAYLOAD_SIZE) THEN "torn down"
      ELSE IF traits.abort THEN "abort"
      ELSE IF traits.auth THEN "ignored"
      ELSE IF traits.response THEN "skipped"
      ELSE IF ~Known(h.method_id) THEN "HandlerNotFound"
      ELSE "handler"

\* A frame with no payload arrives, a request or, wrongly, a response; request
\* id 0 wants no answer.
Request(id, flags, request_id) ==
  LET h == Header(id, flags, request_id, 0)
  IN  /\ stage = "announced"
      /\ call = None
      /\ call' = [method_id  |-> id,
                  request_id |-> request_id,
                  fate       |-> Fate(h),
                  response_type |-> ContextFor(id),
                  handler    |-> IF Fate(h) = "handler" THEN get_handler_by_id(id)
                                 ELSE 0,
                  answer     |-> "none"]
      /\ UNCHANGED <<stage, overflow_checks, registryVars, schema, outbound,
                     historyVars>>

\* A handler may answer with any call of its context, whatever the type it was
\* registered with; a request that has no handler is answered by the automatic
\* error.
Answer(answer) ==
  /\ call # None
  /\ outbound = <<>>
  /\ \/ call.fate = "handler"
     \/ call.fate = "HandlerNotFound" /\ answer = "error"
  /\ call' = [call EXCEPT !.answer = answer]
  /\ outbound' = answer_frame(answer, call.method_id, call.response_type,
                              call.request_id, <<>>).header
  /\ UNCHANGED <<stage, overflow_checks, registryVars, schema, historyVars>>

\* Client::emit; an unknown event is an error and sends nothing.
Emit(name) ==
  /\ stage = "announced"
  /\ call = None
  /\ name \in DOMAIN events
  /\ call' = [event |-> name]
  /\ outbound' = emit_frame(get_event_id(name), <<>>).header
  /\ UNCHANGED <<stage, overflow_checks, registryVars, schema, historyVars>>

Done == (stage = "panicked" \/ call # None) /\ UNCHANGED vars

Next ==
  \/ \E n \in MethodNames, r \in ResponseTypes : Handle(n, r)
  \/ \E n \in EventNames : Event(n)
  \/ Panic
  \/ Announce
  \/ \E id \in 0..(U16 - 1), flags \in {0, IS_RESPONSE}, q \in {0, 1} :
       Request(id, flags, q)
  \/ \E a \in Answers : Answer(a)
  \/ \E n \in EventNames : Emit(n)
  \/ Done

Spec == Init /\ [][Next]_vars
-----------------------------------------------------------------------------
(* Properties                                                              *)

\* The ids that are not reserved, and whether they were enough.
UsableIds    == 1..(AUTH_METHOD_ID - 1)
IdsLast      == count.methods <= Cardinality(UsableIds)
EventIdsLast == count.events <= Cardinality(UsableIds)

\* What $init announces is what a request gets.  Every registered name is
\* announced.  As long as no more methods were registered than there are usable
\* ids, the announced id of a name is one of them and reaches the handler that
\* was registered last under it, with the response type that was announced.
\* Beyond that nothing stops registration: the name may be announced under a
\* reserved id, and then no request reaches a handler by it.
SchemaResolves ==
  stage = "announced" =>
    /\ DOMAIN schema.methods = DOMAIN latest
    /\ \A n \in DOMAIN latest :
         LET id == schema.methods[n].id
         IN  /\ Fate(Header(id, 0, 1, 0)) = "handler" <=> id \in UsableIds
             /\ IdsLast => /\ id \in UsableIds
                           /\ get_handler_by_id(id) = latest[n].handler
                           /\ ContextFor(id) = schema.methods[n].response
                           /\ ContextFor(id) = latest[n].response_type

\* An id is never given to a second name before the counter has gone through
\* all of u16: what was reachable by an id stays reachable by it.
IdsStayBound ==
  [][count.methods < U16 =>
       \A id \in DOMAIN id_to_name : id_to_name'[id] = id_to_name[id]]_vars

\* The answers that belong to a response type; the client does not hold a handler
\* to them.
Proper(response_type) ==
  CASE response_type = "Result" -> {"respond", "error"}
    [] response_type = "Stream" -> {"chunk", "end", "error"}
    [] response_type = "Ack"    -> {"ack", "error"}

\* The parent routes an answer by the flags of its header: to the open streams
\* if it has IS_STREAM, to the pending requests otherwise.  Every answer is a
\* valid frame under the id of its request, whose flags say whether it is an
\* error and whether more is to come.  For every method the parent knows from
\* $init an answer proper to the announced response type, the automatic error
\* included, arrives where that type makes the parent wait.
AnswersRouted ==
  outbound # <<>> /\ call # None /\ "answer" \in DOMAIN call =>
    LET h      == decode(outbound)
        traits == FrameTraits(h)
    IN  /\ Valid(h, ABSOLUTE_MAX_PAYLOAD_SIZE)
        /\ traits.to_parent /\ traits.response /\ ~traits.event
        /\ h.request_id = call.request_id
        /\ traits.error <=> call.answer = "error"
        /\ (~traits.stream \/ traits.stream_end \/ traits.error)
             <=> call.answer # "chunk"
        /\ \A n \in DOMAIN schema.methods :
             /\ schema.methods[n].id = call.method_id
             /\ IdsLast
             /\ call.answer \in Proper(schema.methods[n].response)
             => (traits.stream <=> schema.methods[n].response = "Stream")

\* An event the client emits is announced, is told from every answer by the
\* predicates of Frame, and its id is the announced id of this event and of no
\* other and not a reserved one, as long as no more events were registered than
\* there are usable ids.
EventsResolve ==
  outbound # <<>> /\ "event" \in DOMAIN call /\ EventIdsLast =>
    LET h == decode(outbound)
    IN  /\ FrameTraits(h).event /\ ~FrameTraits(h).response
        /\ h.method_id \in UsableIds
        /\ {n \in DOMAIN schema.events : schema.events[n].id = h.method_id}
             = {call.event}
=============================================================================
