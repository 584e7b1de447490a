--------------------------- MODULE RegistryProofs ---------------------------
(***************************************************************************)
(* Proofs about Registry and about the headers of Wire it answers with,    *)
(* for any names, any number of registrations and any radix of at least 2, *)
(* the program's 256 among them.                                           *)
(*                                                                         *)
(* The registry's two maps must agree: the id in the entry of a name leads *)
(* back to that name.  A new registration keeps that only while its id is  *)
(* new, so the invariant ties the ids in use to the number of methods      *)
(* registered.  What is said of an answer or an event is then read off the *)
(* bytes of its header.                                                    *)
(***************************************************************************)
EXTENDS Registry, WireProofs, FiniteSetTheorems, TLAPS

Ids == 0..(U16 - 1)
Entries == [handler : Nat, response_type : ResponseTypes, id : Ids]

\* The next id after n registrations, until the counter has gone through u16
NextId(n) == IF n + 1 < U16 THEN n + 1 ELSE 0

Types ==
  /\ stage \in {"building", "panicked", "announced"}
  /\ count \in [methods : Nat, events : Nat]
  /\ next_method_id \in Ids
  /\ count.methods < U16 => next_method_id = NextId(count.methods)
  /\ next_event_id \in Ids
  /\ count.events < U16 => next_event_id = NextId(count.events)
  /\ methods \in [DOMAIN methods -> Entries]
  /\ events \in [DOMAIN events -> Ids]

\* The ids handed out so far, until the counter has gone through all of them.
IdsInOrder == count.methods < U16 => DOMAIN id_to_name = 1..count.methods

\* The entry of a name is the one of its last registration, ...
EntriesLatest ==
  /\ DOMAIN methods = DOMAIN latest
  /\ \A n \in DOMAIN methods :
       /\ methods[n].handler = latest[n].handler
       /\ methods[n].response_type = latest[n].response_type

\* ... and its id leads back to the name.
IdsLeadBack ==
  count.methods < U16 =>
    \A n \in DOMAIN methods :
      /\ methods[n].id \in 1..count.methods
      /\ id_to_name[methods[n].id] = n

\* Whether or not the counter has wrapped, the id of an entry leads to some name
\* that is registered.
IdsKnown ==
  /\ \A n \in DOMAIN methods : methods[n].id \in DOMAIN id_to_name
  /\ \A i \in DOMAIN id_to_name : id_to_name[i] \in DOMAIN methods

\* No two events share an id.
EventIdsDistinct ==
  count.events < U16 =>
    /\ \A n \in DOMAIN events : events[n] \in 1..count.events
    /\ \A n, m \in DOMAIN events : events[n] = events[m] => n = m

MapsInv ==
  /\ Types /\ IdsInOrder /\ EntriesLatest /\ IdsLeadBack /\ IdsKnown
  /\ EventIdsDistinct

\* The answer in hand comes from a handler or is the automatic error, and its
\* header was built from what the request's context kept.
Answered ==
  /\ call.fate \in {"handler", "HandlerNotFound"}
  /\ call.answer \in Answers
  /\ outbound = answer_frame(call.answer, call.method_id, call.response_type,
                             call.request_id, <<>>).header

\* Nothing is exchanged before $init, and the registry is not changed after it:
\* the schema and the context of a request stay what a lookup returns.
ExchangeInv ==
  /\ stage = "announced" => schema = build_schema
  /\ stage # "announced" => call = None
  /\ call = None \/ call \in Requests \/ call \in Emits
  /\ call = None => outbound = <<>>
  /\ call \in Requests =>
       /\ call.response_type = ContextFor(call.method_id)
       /\ call.fate \in {"handler", "HandlerNotFound"}
            => call.method_id # RESERVED_METHOD_ID
       /\ call.fate = "handler" => Known(call.method_id)
       /\ call.fate = "HandlerNotFound" => ~Known(call.method_id)
       /\ outbound # <<>> => Answered
  /\ call \in Emits =>
       /\ call.event \in DOMAIN events
       /\ outbound = emit_frame(get_event_id(call.event), <<>>).header

IndInv == MapsInv /\ ExchangeInv

-----------------------------------------------------------------------------
(* The maps of the registry                                                *)

\* HashMap::insert keeps the type of the values.
LEMMA InsertTyped ==
  ASSUME NEW S, NEW map, map \in [DOMAIN map -> S], NEW key, NEW value \in S
  PROVE  Insert(map, key, value) \in [DOMAIN Insert(map, key, value) -> S]
BY DEF Insert

\* The counter of ids, up to its wrap around.
LEMMA Incremented ==
  ASSUME NEW id \in Ids, NEW n \in Nat, n < U16 => id = NextId(n)
  PROVE  /\ Increment(id) \in Ids
         /\ n + 1 < U16 => id = n + 1 /\ Increment(id) = NextId(n + 1)
<1>1. \A w \in Nat : \A x \in 0..(w - 1) :
        (x + 1) % w = IF x + 1 < w THEN x + 1 ELSE 0
  <2>1. SUFFICES ASSUME NEW w \in Nat, NEW x \in 0..(w - 1)
                 PROVE  (x + 1) % w = IF x + 1 < w THEN x + 1 ELSE 0
    OBVIOUS
  <2>2. CASE x + 1 < w
    BY <2>2
  <2>3. CASE x + 1 = w
    BY <2>3
  <2> QED
    BY <2>2, <2>3
<1>2. Increment(id) = IF id + 1 < U16 THEN id + 1 ELSE 0
  BY <1>1, Widths DEF Increment, Ids
<1> QED
  BY <1>2, Widths DEF Ids, NextId

\* The first state.
LEMMA MapsInit == Init => MapsInv
<1> SUFFICES ASSUME Init
             PROVE  MapsInv
  OBVIOUS
<1>1. DOMAIN Empty = {} /\ Empty \in [DOMAIN Empty -> Entries]
      /\ Empty \in [DOMAIN Empty -> Ids]
  BY DEF Empty
<1>2. Types
  BY <1>1, Widths DEF Init, Types, NextId, Ids
<1>3. IdsInOrder /\ EntriesLatest /\ IdsLeadBack /\ IdsKnown /\ EventIdsDistinct
  BY <1>1
  DEF Init, IdsInOrder, EntriesLatest, IdsLeadBack, IdsKnown, EventIdsDistinct
<1> QED
  BY <1>2, <1>3 DEF MapsInv

\* Registering a method.
LEMMA MapsHandle ==
  ASSUME MapsInv, NEW n \in MethodNames, NEW t \in ResponseTypes, Handle(n, t)
  PROVE  MapsInv'
<1> DEFINE id == next_method_id
           entry == [handler |-> count.methods + 1, response_type |-> t, id |-> id]
           late == [handler |-> count.methods + 1, response_type |-> t]
<1>1. /\ methods' = Insert(methods, n, entry)
      /\ id_to_name' = Insert(id_to_name, id, n)
      /\ latest' = Insert(latest, n, late)
      /\ next_method_id' = Increment(id)
      /\ count' = [count EXCEPT !.methods = @ + 1]
      /\ UNCHANGED <<stage, events, next_event_id>>
  BY DEF Handle, register
<1>2. /\ count'.methods = count.methods + 1 /\ count'.events = count.events
      /\ count' \in [methods : Nat, events : Nat]
      /\ count.methods \in Nat
  BY <1>1 DEF MapsInv, Types
<1>3. /\ id' \in Ids
      /\ count'.methods < U16
           => id = count.methods + 1 /\ id' = NextId(count'.methods)
  BY <1>1, <1>2, Incremented DEF MapsInv, Types
<1>4. entry \in Entries
  BY <1>2 DEF Entries, MapsInv, Types
<1>5. /\ DOMAIN methods' = DOMAIN methods \cup {n} /\ methods'[n] = entry
      /\ \A k \in DOMAIN methods : k # n => methods'[k] = methods[k]
      /\ DOMAIN latest' = DOMAIN latest \cup {n} /\ latest'[n] = late
      /\ \A k \in DOMAIN latest : k # n => latest'[k] = latest[k]
      /\ DOMAIN id_to_name' = DOMAIN id_to_name \cup {id} /\ id_to_name'[id] = n
      /\ \A k \in DOMAIN id_to_name : k # id => id_to_name'[k] = id_to_name[k]
  BY <1>1 DEF Insert
<1>6. methods' \in [DOMAIN methods' -> Entries]
  BY <1>1, <1>4, InsertTyped DEF MapsInv, Types
<1>7. Types'
  BY <1>1, <1>2, <1>3, <1>6 DEF MapsInv, Types
<1>8. IdsInOrder'
  BY <1>2, <1>3, <1>5, Widths DEF MapsInv, Types, IdsInOrder
<1>9. EntriesLatest'
  BY <1>5 DEF MapsInv, EntriesLatest
<1>10. IdsLeadBack'
  BY <1>2, <1>3, <1>5, Widths DEF MapsInv, Types, IdsInOrder, IdsLeadBack
<1>11. EventIdsDistinct'
  BY <1>1, <1>2 DEF MapsInv, EventIdsDistinct
<1>12. IdsKnown'
  BY <1>5 DEF MapsInv, IdsKnown
<1> QED
  BY <1>7, <1>8, <1>9, <1>10, <1>11, <1>12 DEF MapsInv

\* Registering an event.
LEMMA MapsEvent ==
  ASSUME MapsInv, NEW n \in EventNames, Event(n)
  PROVE  MapsInv'
<1> DEFINE id == next_event_id
<1>1. /\ events' = Insert(events, n, id)
      /\ id' = Increment(id)
      /\ count' = [count EXCEPT !.events = @ + 1]
      /\ UNCHANGED <<stage, methods, next_method_id, id_to_name, latest>>
  BY DEF Event, register_event
<1>2. /\ count'.events = count.events + 1 /\ count'.methods = count.methods
      /\ count' \in [methods : Nat, events : Nat]
      /\ count.events \in Nat
  BY <1>1 DEF MapsInv, Types
<1>3. /\ id \in Ids /\ id' \in Ids
      /\ count'.events < U16
           => id = count.events + 1 /\ id' = NextId(count'.events)
  BY <1>1, <1>2, Incremented DEF MapsInv, Types
<1>4. /\ DOMAIN events' = DOMAIN events \cup {n} /\ events'[n] = id
      /\ \A k \in DOMAIN events : k # n => events'[k] = events[k]
  BY <1>1 DEF Insert
<1>5. events' \in [DOMAIN events' -> Ids]
  BY <1>1, <1>3, InsertTyped DEF MapsInv, Types
<1>6. Types'
  BY <1>1, <1>2, <1>3, <1>5 DEF MapsInv, Types
<1>7. IdsInOrder' /\ EntriesLatest' /\ IdsLeadBack' /\ IdsKnown'
  BY <1>1, <1>2 DEF MapsInv, IdsInOrder, EntriesLatest, IdsLeadBack, IdsKnown
<1>8. EventIdsDistinct'
  BY <1>2, <1>3, <1>4, Widths DEF MapsInv, EventIdsDistinct
<1> QED
  BY <1>6, <1>7, <1>8 DEF MapsInv

\* Nothing else changes a map.
LEMMA MapsNext == MapsInv /\ [Next]_vars => MapsInv'
<1> SUFFICES ASSUME MapsInv, [Next]_vars
             PROVE  MapsInv'
  OBVIOUS
<1>1. ASSUME NEW n \in MethodNames, NEW t \in ResponseTypes, Handle(n, t)
      PROVE  MapsInv'
  BY <1>1, MapsHandle
<1>2. ASSUME NEW n \in EventNames, Event(n)
      PROVE  MapsInv'
  BY <1>2, MapsEvent
<1>3. ASSUME UNCHANGED <<registryVars, historyVars>>,
             stage' \in {"building", "panicked", "announced"}
      PROVE  MapsInv'
  BY <1>3 DEF registryVars, historyVars, MapsInv, Types, IdsInOrder,
              EntriesLatest, IdsLeadBack, IdsKnown, EventIdsDistinct
<1>4. CASE Panic \/ Announce
  BY <1>3, <1>4 DEF Panic, Announce
<1>5. ASSUME UNCHANGED <<stage, registryVars, historyVars>>
      PROVE  MapsInv'
  BY <1>3, <1>5 DEF MapsInv, Types
<1>6. ASSUME NEW i, NEW f, NEW q, Request(i, f, q)
      PROVE  MapsInv'
  BY <1>5, <1>6 DEF Request
<1>7. ASSUME NEW a, Answer(a)
      PROVE  MapsInv'
  BY <1>5, <1>7 DEF Answer
<1>8. ASSUME NEW n, Emit(n)
      PROVE  MapsInv'
  BY <1>5, <1>8 DEF Emit
<1>9. CASE Done \/ UNCHANGED vars
  BY <1>5, <1>9 DEF Done, vars
<1> QED
  BY <1>1, <1>2, <1>4, <1>6, <1>7, <1>8, <1>9 DEF Next

\* An id that was handed out keeps its name until the counter of ids has gone
\* through all of u16: register never reuses it (IdsStayBound).
THEOREM IdsNeverRebound == Spec => IdsStayBound
<1> DEFINE Kept == count.methods < U16 =>
                     \A id \in DOMAIN id_to_name : id_to_name'[id] = id_to_name[id]
<1>1. MapsInv /\ [Next]_vars => [Kept]_vars
  <2>1. SUFFICES ASSUME MapsInv, [Next]_vars, count.methods < U16
                 PROVE  \A id \in DOMAIN id_to_name :
                          id_to_name'[id] = id_to_name[id]
    OBVIOUS
  <2>2. ASSUME NEW n \in MethodNames, NEW t \in ResponseTypes, Handle(n, t)
        PROVE  \A id \in DOMAIN id_to_name : id_to_name'[id] = id_to_name[id]
    <3>1. id_to_name' = Insert(id_to_name, next_method_id, n)
      BY <2>2 DEF Handle, register
    <3>2. next_method_id \notin DOMAIN id_to_name
      BY <2>1, Widths DEF MapsInv, Types, IdsInOrder, NextId
    <3> QED
      BY <3>1, <3>2 DEF Insert
  <2>3. ASSUME NEW n, Event(n)
        PROVE  UNCHANGED id_to_name
    BY <2>3 DEF Event, register_event
  <2>4. CASE Panic \/ Announce \/ Done \/ UNCHANGED vars
    BY <2>4 DEF Panic, Announce, Done, vars, registryVars
  <2>5. ASSUME NEW i, NEW f, NEW q, Request(i, f, q)
        PROVE  UNCHANGED id_to_name
    BY <2>5 DEF Request, registryVars
  <2>6. ASSUME NEW a, Answer(a)
        PROVE  UNCHANGED id_to_name
    BY <2>6 DEF Answer, registryVars
  <2>7. ASSUME NEW n, Emit(n)
        PROVE  UNCHANGED id_to_name
    BY <2>7 DEF Emit, registryVars
  <2> QED
    BY <2>1, <2>2, <2>3, <2>4, <2>5, <2>6, <2>7 DEF Next
<1> QED
  BY <1>1, MapsInit, MapsNext, PTL DEF Spec, IdsStayBound

-----------------------------------------------------------------------------
(* Requests, answers and events                                            *)

\* A call is of one kind.
LEMMA CallKinds ==
  ASSUME NEW c
  PROVE  /\ ~(c \in Requests /\ c \in Emits)
         /\ c \in Requests => c # None /\ DOMAIN c # {"event"}
                               /\ "answer" \in DOMAIN c /\ "event" \notin DOMAIN c
         /\ c \in Emits => c # None
                            /\ "event" \in DOMAIN c /\ "answer" \notin DOMAIN c
<1>1. c \in Requests => DOMAIN c = {"method_id", "request_id", "fate",
                                    "response_type", "handler", "answer"}
  BY DEF Requests
<1>2. c \in Emits => DOMAIN c = {"event"}
  BY DEF Emits
<1> QED
  BY <1>1, <1>2, NoneAssumption

\* What the fate of a request says of its method id.
LEMMA FateOfId ==
  ASSUME NEW i, NEW f, NEW q
  PROVE  LET fate == Fate(Header(i, f, q, 0))
         IN  /\ fate \in Fates
             /\ fate \in {"handler", "HandlerNotFound"} => i # RESERVED_METHOD_ID
             /\ fate = "handler" => Known(i)
             /\ fate = "HandlerNotFound" => ~Known(i)
BY DEF Fate, Fates, Valid, Header

\* The context of a request has a response type, and the handler is a number.
LEMMA LookupTypes ==
  ASSUME Types, NEW i
  PROVE  /\ ContextFor(i) \in ResponseTypes
         /\ Known(i) => get_handler_by_id(i) \in Nat
<1>1. Known(i) => get_method_name(i) \in DOMAIN methods
  BY DEF Known
<1>2. Known(i) => methods[get_method_name(i)] \in Entries
  BY <1>1 DEF Types
<1>3. Known(i) => get_response_type_by_id(i) \in ResponseTypes
  BY <1>2 DEF Entries, get_response_type_by_id, get_response_type
<1>4. Known(i) => get_handler_by_id(i) \in Nat
  BY <1>2 DEF Entries, get_handler_by_id, get_handler
<1> QED
  BY <1>3, <1>4 DEF ContextFor, ResponseTypes

\* The header of an answer whose payload is empty.
LEMMA AnswerHeader ==
  ASSUME NEW a \in Answers, NEW t \in ResponseTypes, NEW i, NEW q
  PROVE  /\ FlagsOf(a, t) \in Nat
         /\ answer_frame(a, i, t, q, <<>>).header
              = encode(Header(i, FlagsOf(a, t), q, 0))
<1>1. FlagsOf(a, t) \in Nat
  BY DEF FlagsOf, Answers, error_flags, RESPONSE, ERROR_RESPONSE,
         STREAM_ERROR_RESPONSE, STREAM_CHUNK, STREAM_END_RESPONSE, ACK_RESPONSE,
         DIRECTION_TO_PARENT, IS_RESPONSE, IS_ERROR, IS_STREAM, STREAM_END, IS_ACK
<1>2. LenAsU32(<<>>) = 0
  BY Widths DEF LenAsU32
<1>3. answer_frame(a, i, t, q, <<>>).header
        = encode(Header(i, FlagsOf(a, t), q, 0))
  BY <1>2 DEF answer_frame, send_frame, send_frame_empty, OutboundFrame
<1> QED
  BY <1>1, <1>3

\* The header of an event.
LEMMA EventHeader ==
  ASSUME NEW i
  PROVE  emit_frame(i, <<>>).header
           = encode(Header(i, DIRECTION_TO_PARENT, 0, 0))
<1>1. LenAsU32(<<>>) = 0
  BY Widths DEF LenAsU32
<1> QED
  BY <1>1 DEF emit_frame, OutboundFrame

\* Nothing is said of a client that has not been called yet.
LEMMA ExchangeIdle ==
  ASSUME call = None, outbound = <<>>,
         stage = "announced" => schema = build_schema
  PROVE  ExchangeInv
BY CallKinds DEF ExchangeInv

\* The steps that leave the registry and the calls alone.
LEMMA ExchangeBuilding ==
  ASSUME ExchangeInv, stage = "building",
         UNCHANGED <<call, outbound>>, stage' # "announced"
  PROVE  ExchangeInv'
<1>1. call' = None /\ outbound' = <<>>
  BY DEF ExchangeInv
<1> QED
  BY <1>1, CallKinds DEF ExchangeInv

\* The registry after a step that does not touch it.
LEMMA LookupsUnchanged ==
  ASSUME UNCHANGED registryVars, NEW i
  PROVE  /\ build_schema' = build_schema
         /\ Known(i)' <=> Known(i)
         /\ ContextFor(i)' = ContextFor(i)
BY DEF registryVars, build_schema, MethodSchema, EventSchema, get_method_id,
       get_response_type, get_event_id, Known, get_method_name, ContextFor,
       get_response_type_by_id

\* $init is sent.
LEMMA ExchangeAnnounce ==
  ASSUME ExchangeInv, Announce
  PROVE  ExchangeInv'
<1>1. /\ UNCHANGED <<registryVars, call, outbound>>
      /\ schema' = build_schema /\ stage' = "announced" /\ stage = "building"
  BY DEF Announce
<1>2. call' = None /\ outbound' = <<>>
  BY <1>1 DEF ExchangeInv
<1>3. schema' = build_schema'
  BY <1>1, LookupsUnchanged
<1> QED
  BY <1>1, <1>2, <1>3, CallKinds DEF ExchangeInv

\* A request arrives.
LEMMA ExchangeRequest ==
  ASSUME Types, ExchangeInv, NEW i \in Ids, NEW f, NEW q \in {0, 1},
         Request(i, f, q)
  PROVE  ExchangeInv'
<1> DEFINE fate == Fate(Header(i, f, q, 0))
<1>1. /\ stage = "announced" /\ UNCHANGED <<stage, registryVars, schema, outbound>>
      /\ call = None
      /\ call' = [method_id |-> i, request_id |-> q, fate |-> fate,
                  response_type |-> ContextFor(i),
                  handler |-> IF fate = "handler" THEN get_handler_by_id(i) ELSE 0,
                  answer |-> "none"]
  BY DEF Request
<1>2. /\ fate \in Fates
      /\ fate \in {"handler", "HandlerNotFound"} => i # RESERVED_METHOD_ID
      /\ fate = "handler" => Known(i)
      /\ fate = "HandlerNotFound" => ~Known(i)
  BY FateOfId
<1>3. /\ ContextFor(i) \in ResponseTypes
      /\ fate = "handler" => get_handler_by_id(i) \in Nat
  BY <1>2, LookupTypes
<1> HIDE DEF fate
<1>4. call' \in Requests
  BY <1>1, <1>2, <1>3 DEF Requests, Ids
<1>5. schema' = build_schema' /\ outbound' = <<>>
  BY <1>1, LookupsUnchanged DEF ExchangeInv
<1>6. /\ call'.method_id = i /\ call'.fate = fate
      /\ call'.response_type = ContextFor(i)
  BY <1>1
<1>7. /\ Known(i)' <=> Known(i)
      /\ ContextFor(i)' = ContextFor(i)
  BY <1>1, LookupsUnchanged
<1>8. /\ Known(call.method_id)' <=> Known(i)
      /\ ContextFor(call.method_id)' = ContextFor(i)
  BY <1>6, <1>7 DEF Known, ContextFor, get_method_name, get_response_type_by_id,
                    get_response_type
<1>9. call' \notin Emits /\ call' # None
  BY <1>4, CallKinds
<1> QED
  BY <1>1, <1>2, <1>4, <1>5, <1>6, <1>8, <1>9 DEF ExchangeInv, RESERVED_METHOD_ID

\* A request is answered.
LEMMA ExchangeAnswer ==
  ASSUME Types, ExchangeInv, NEW a \in Answers, Answer(a)
  PROVE  ExchangeInv'
<1>1. /\ UNCHANGED <<stage, registryVars, schema>>
      /\ call # None /\ outbound = <<>>
      /\ call.fate \in {"handler", "HandlerNotFound"}
      /\ call' = [call EXCEPT !.answer = a]
      /\ outbound' = answer_frame(a, call.method_id, call.response_type,
                                  call.request_id, <<>>).header
  BY DEF Answer
<1>2. call \in Requests
  <2>1. ASSUME call \in Emits
        PROVE  FALSE
    <3>1. /\ call.event \in DOMAIN events
          /\ outbound = emit_frame(get_event_id(call.event), <<>>).header
      BY <2>1 DEF ExchangeInv
    <3>2. get_event_id(call.event) \in Nat
      BY <3>1, Widths DEF Types, Ids, get_event_id
    <3>3. outbound # <<>>
      BY <3>1, <3>2, EventHeader, RoundTrip DEF DIRECTION_TO_PARENT
    <3> QED
      BY <1>1, <3>3
  <2> QED
    BY <1>1, <2>1 DEF ExchangeInv
<1>3. /\ call.response_type = ContextFor(call.method_id)
      /\ call.fate \in {"handler", "HandlerNotFound"}
           => call.method_id # RESERVED_METHOD_ID
      /\ call.fate = "handler" => Known(call.method_id)
      /\ call.fate = "HandlerNotFound" => ~Known(call.method_id)
  BY <1>2 DEF ExchangeInv
<1>4. /\ call' \in Requests /\ call'.answer = a
      /\ call'.method_id = call.method_id /\ call'.request_id = call.request_id
      /\ call'.fate = call.fate /\ call'.response_type = call.response_type
  BY <1>1, <1>2 DEF Requests
<1>5. schema' = build_schema' /\ stage' = "announced"
  BY <1>1, LookupsUnchanged DEF ExchangeInv
<1>6. /\ Known(call.method_id)' <=> Known(call.method_id)
      /\ ContextFor(call.method_id)' = ContextFor(call.method_id)
  BY <1>1, <1>4 DEF registryVars, Known, ContextFor, get_method_name,
                    get_response_type_by_id, get_response_type
<1>7. call' \notin Emits /\ call' # None
  BY <1>4, CallKinds
<1>8. Answered'
  <2>1. call.fate \in {"handler", "HandlerNotFound"}
    BY <1>1
  <2>2. outbound' = answer_frame(call'.answer, call'.method_id,
                                 call'.response_type, call'.request_id, <<>>).header
    BY <1>1, <1>4
  <2> QED
    BY <1>4, <2>1, <2>2 DEF Answered
<1> QED
  BY <1>3, <1>4, <1>5, <1>6, <1>7, <1>8 DEF ExchangeInv, RESERVED_METHOD_ID

\* The client emits an event.
LEMMA ExchangeEmit ==
  ASSUME ExchangeInv, NEW n \in EventNames, Emit(n)
  PROVE  ExchangeInv'
<1>1. /\ UNCHANGED <<stage, registryVars, schema>>
      /\ stage = "announced" /\ n \in DOMAIN events
      /\ call' = [event |-> n]
      /\ outbound' = emit_frame(get_event_id(n), <<>>).header
  BY DEF Emit
<1>2. call' \in Emits /\ call'.event = n
  BY <1>1 DEF Emits
<1>3. call' \notin Requests /\ call' # None
  BY <1>2, CallKinds
<1>4. schema' = build_schema'
  BY <1>1, LookupsUnchanged DEF ExchangeInv
<1>5. get_event_id(call.event)' = get_event_id(n) /\ events' = events
  BY <1>1, <1>2 DEF get_event_id, registryVars
<1>6. outbound' = emit_frame(get_event_id(call.event)', <<>>).header
  BY <1>1, <1>5
<1>7. emit_frame(get_event_id(call.event), <<>>).header'
        = emit_frame(get_event_id(call.event)', <<>>).header
  BY DEF emit_frame, OutboundFrame
<1> QED
  BY <1>1, <1>2, <1>3, <1>4, <1>5, <1>6, <1>7 DEF ExchangeInv

\* Every step.
LEMMA ExchangeNext == Types /\ ExchangeInv /\ [Next]_vars => ExchangeInv'
<1> SUFFICES ASSUME Types, ExchangeInv, [Next]_vars
             PROVE  ExchangeInv'
  OBVIOUS
<1>1. ASSUME NEW n, NEW t, Handle(n, t)
      PROVE  ExchangeInv'
  BY <1>1, ExchangeBuilding DEF Handle, Building
<1>2. ASSUME NEW n, Event(n)
      PROVE  ExchangeInv'
  BY <1>2, ExchangeBuilding DEF Event, Building
<1>3. CASE Panic
  BY <1>3, ExchangeBuilding DEF Panic, Building
<1>4. CASE Announce
  BY <1>4, ExchangeAnnounce
<1>5. ASSUME NEW i \in 0..(U16 - 1), NEW f \in {0, IS_RESPONSE}, NEW q \in {0, 1},
             Request(i, f, q)
      PROVE  ExchangeInv'
  BY <1>5, ExchangeRequest DEF Ids
<1>6. ASSUME NEW a \in Answers, Answer(a)
      PROVE  ExchangeInv'
  BY <1>6, ExchangeAnswer
<1>7. ASSUME NEW n \in EventNames, Emit(n)
      PROVE  ExchangeInv'
  BY <1>7, ExchangeEmit
<1>8. CASE Done \/ UNCHANGED vars
  <2>1. UNCHANGED vars
    BY <1>8 DEF Done
  <2> QED
    BY <2>1 DEF vars, registryVars, ExchangeInv, Answered, build_schema,
       MethodSchema, EventSchema, get_method_id, get_response_type, get_event_id,
       Known, get_method_name, ContextFor, get_response_type_by_id
<1> QED
  BY <1>1, <1>2, <1>3, <1>4, <1>5, <1>6, <1>7, <1>8 DEF Next

\* The inductive invariant.
THEOREM Invariance == Spec => []IndInv
<1>1. Init => IndInv
  <2>1. Init => ExchangeInv
    BY ExchangeIdle DEF Init
  <2> QED
    BY <2>1, MapsInit DEF IndInv
<1>2. IndInv /\ [Next]_vars => IndInv'
  BY MapsNext, ExchangeNext DEF IndInv, MapsInv
<1> QED
  BY <1>1, <1>2, PTL DEF Spec

-----------------------------------------------------------------------------
(* What the parent can rely on                                             *)

\* All ids but 0 and the two reserved ones are usable.
LEMMA UsableCount == UsableIds = 1..(U16 - 3) /\ Cardinality(UsableIds) = U16 - 3
<1>1. Cardinality(1..(U16 - 3)) = U16 - 3
  BY Widths, FS_Interval
<1>2. UsableIds = 1..(U16 - 3)
  BY Widths DEF UsableIds, AUTH_METHOD_ID
<1> QED
  BY <1>1, <1>2

\* While the usable ids last, the id in the entry of a name is one of them and
\* leads to that entry.
LEMMA UsableLeadsBack ==
  ASSUME MapsInv, IdsLast, NEW n \in DOMAIN methods
  PROVE  /\ methods[n].id \in 1..(U16 - 3)
         /\ id_to_name[methods[n].id] = n
         /\ Known(methods[n].id)
         /\ get_handler_by_id(methods[n].id) = methods[n].handler
         /\ ContextFor(methods[n].id) = methods[n].response_type
<1>1. Cardinality(UsableIds) = U16 - 3
  BY UsableCount
<1>2. count.methods \in Nat /\ count.methods <= U16 - 3
  BY <1>1 DEF IdsLast, MapsInv, Types
<1>3. /\ methods[n].id \in 1..count.methods /\ id_to_name[methods[n].id] = n
      /\ DOMAIN id_to_name = 1..count.methods
  BY <1>2, Widths DEF MapsInv, IdsLeadBack, IdsInOrder
<1>4. methods[n].id \in 1..(U16 - 3)
  BY <1>2, <1>3, Widths
<1>5. Known(methods[n].id)
  BY <1>3 DEF Known, get_method_name
<1> QED
  BY <1>3, <1>4, <1>5 DEF get_handler_by_id, get_handler, get_method_name, ContextFor,
                          get_response_type_by_id, get_response_type

\* A request under the announced id of a name reaches a handler exactly if the id
\* is not reserved.
LEMMA AnnouncedFate ==
  ASSUME MapsInv, NEW n \in DOMAIN methods
  PROVE  Fate(Header(methods[n].id, 0, 1, 0)) = "handler"
           <=> methods[n].id \in UsableIds
<1> DEFINE id == methods[n].id
           h == Header(id, 0, 1, 0)
<1>1. Known(id) /\ id \in Ids
  BY DEF MapsInv, IdsKnown, Known, get_method_name, Types, Entries
<1>2. h.method_id = id
  BY DEF Header
<1> HIDE DEF id
<1>3. /\ HeaderTraits(h).abort = (id = ABORT_METHOD_ID)
      /\ HeaderTraits(h).auth = (id = AUTH_METHOD_ID)
      /\ HeaderTraits(h).response = has_flag(0, IS_RESPONSE)
  BY Zenon DEF HeaderTraits, Header
<1>4. ~has_flag(0, IS_RESPONSE)
  BY DEF has_flag, IS_RESPONSE
<1>5. CASE id \in UsableIds
  <2>1. id \in 1..(U16 - 3)
    BY <1>5, UsableCount
  <2>2. Valid(h, ABSOLUTE_MAX_PAYLOAD_SIZE)
    BY <2>1, Widths DEF Valid, Header, ReservedBitsSet, RESERVED_METHOD_ID
  <2>3. id # ABORT_METHOD_ID /\ id # AUTH_METHOD_ID
    BY <2>1, Widths DEF ABORT_METHOD_ID, AUTH_METHOD_ID
  <2>4. ~HeaderTraits(h).abort /\ ~HeaderTraits(h).auth /\ ~HeaderTraits(h).response
    BY <1>3, <1>4, <2>3, Zenon
  <2> HIDE DEF h
  <2>5. Fate(h) = "handler"
    BY <1>1, <1>2, <2>2, <2>4 DEF Fate
  <2> QED
    BY <1>5, <2>5 DEF id, h
<1>6. CASE id \notin UsableIds
  <2>1. id = RESERVED_METHOD_ID \/ id = AUTH_METHOD_ID \/ id = ABORT_METHOD_ID
    BY <1>1, <1>6, UsableCount, Widths
    DEF Ids, RESERVED_METHOD_ID, AUTH_METHOD_ID, ABORT_METHOD_ID
  <2>2. \/ ~Valid(h, ABSOLUTE_MAX_PAYLOAD_SIZE)
        \/ HeaderTraits(h).auth \/ HeaderTraits(h).abort
    <3>1. CASE id = RESERVED_METHOD_ID
      BY <1>2, <3>1, Zenon DEF Valid
    <3>2. CASE id = AUTH_METHOD_ID \/ id = ABORT_METHOD_ID
      BY <1>3, <3>2, Zenon
    <3> QED
      BY <2>1, <3>1, <3>2
  <2> HIDE DEF h
  <2>3. Fate(h) # "handler"
    BY <2>2 DEF Fate
  <2> QED
    BY <1>6, <2>3 DEF id, h
<1> QED
  BY <1>5, <1>6

\* What $init announces is what a request gets, whatever was registered twice and
\* in whatever order, and the reserved ids are the exact limit (SchemaResolves).
THEOREM SchemaIsServed == Spec => []SchemaResolves
<1>1. IndInv => SchemaResolves
  <2> SUFFICES ASSUME IndInv, stage = "announced"
               PROVE  SchemaResolves
    BY DEF SchemaResolves
  <2>1. /\ DOMAIN schema.methods = DOMAIN methods
        /\ \A n \in DOMAIN methods :
             /\ schema.methods[n].id = methods[n].id
             /\ schema.methods[n].response = methods[n].response_type
    BY DEF IndInv, ExchangeInv, build_schema, MethodSchema, get_method_id,
           get_response_type
  <2>2. /\ DOMAIN methods = DOMAIN latest
        /\ \A n \in DOMAIN methods :
             /\ methods[n].handler = latest[n].handler
             /\ methods[n].response_type = latest[n].response_type
    BY DEF IndInv, MapsInv, EntriesLatest
  <2>3. ASSUME NEW n \in DOMAIN methods
        PROVE  Fate(Header(methods[n].id, 0, 1, 0)) = "handler"
                 <=> methods[n].id \in UsableIds
    BY AnnouncedFate DEF IndInv
  <2>4. ASSUME NEW n \in DOMAIN methods, IdsLast
        PROVE  /\ methods[n].id \in UsableIds
               /\ get_handler_by_id(methods[n].id) = methods[n].handler
               /\ ContextFor(methods[n].id) = methods[n].response_type
    BY <2>4, UsableLeadsBack, UsableCount DEF IndInv
  <2> QED
    BY <2>1, <2>2, <2>3, <2>4 DEF SchemaResolves
<1> QED
  BY <1>1, Invariance, PTL

\* The flags of an answer: whether they lead to the open streams depends on the
\* response type for an error and on the call for the rest.
LEMMA AnswerFlags ==
  ASSUME NEW t \in ResponseTypes, NEW a \in Answers
  PROVE  LET flags == FlagsOf(a, t)
         IN  /\ ~ReservedBitsSet(flags)
             /\ has_flag(flags, DIRECTION_TO_PARENT) /\ has_flag(flags, IS_RESPONSE)
             /\ has_flag(flags, IS_ERROR) <=> a = "error"
             /\ a \in Proper(t) => (has_flag(flags, IS_STREAM) <=> t = "Stream")
             /\ ~has_flag(flags, IS_STREAM) \/ has_flag(flags, STREAM_END)
                  \/ has_flag(flags, IS_ERROR)
                <=> a # "chunk"
<1> USE DEF FlagsOf, error_flags, RESPONSE, ERROR_RESPONSE, STREAM_ERROR_RESPONSE,
        STREAM_CHUNK, STREAM_END_RESPONSE, ACK_RESPONSE, DIRECTION_TO_PARENT,
        IS_RESPONSE, IS_ERROR, IS_STREAM, STREAM_END, IS_ACK, has_flag,
        ReservedBitsSet, Answers
<1>1. CASE a = "respond"
  BY <1>1 DEF Proper, ResponseTypes
<1>2. CASE a = "ack"
  BY <1>2 DEF Proper, ResponseTypes
<1>3. CASE a = "chunk"
  BY <1>3 DEF Proper, ResponseTypes
<1>4. CASE a = "end"
  BY <1>4 DEF Proper, ResponseTypes
<1>5. CASE a = "error" /\ t = "Stream"
  BY <1>5 DEF Proper
<1>6. CASE a = "error" /\ t # "Stream"
  BY <1>6
<1> QED
  BY <1>1, <1>2, <1>3, <1>4, <1>5, <1>6

\* The parent can route every answer, the automatic error included, by the bytes
\* of its header alone (AnswersRouted).
THEOREM AnswersFindTheirRequest == Spec => []AnswersRouted
<1>1. IndInv => AnswersRouted
  <2> SUFFICES ASSUME IndInv, outbound # <<>>, call # None, "answer" \in DOMAIN call
               PROVE  AnswersRouted
    BY DEF AnswersRouted
  <2> DEFINE flags == FlagsOf(call.answer, call.response_type)
             h == decode(outbound)
             traits == FrameTraits(h)
  <2>1. call \in Requests
    BY CallKinds DEF IndInv, ExchangeInv
  <2>2. /\ call.method_id \in Nat /\ call.request_id \in {0, 1}
        /\ call.response_type \in ResponseTypes
    BY <2>1, Widths DEF Requests
  <2>3. /\ Answered
        /\ call.response_type = ContextFor(call.method_id)
        /\ call.fate \in {"handler", "HandlerNotFound"}
             => call.method_id # RESERVED_METHOD_ID
        /\ stage = "announced" /\ schema = build_schema
    BY <2>1 DEF IndInv, ExchangeInv
  <2>4. call.answer \in Answers /\ call.method_id # RESERVED_METHOD_ID
    BY <2>3 DEF Answered
  <2>5. /\ ~ReservedBitsSet(flags)
        /\ has_flag(flags, DIRECTION_TO_PARENT) /\ has_flag(flags, IS_RESPONSE)
        /\ has_flag(flags, IS_ERROR) <=> call.answer = "error"
        /\ call.answer \in Proper(call.response_type)
             => (has_flag(flags, IS_STREAM) <=> call.response_type = "Stream")
        /\ ~has_flag(flags, IS_STREAM) \/ has_flag(flags, STREAM_END)
             \/ has_flag(flags, IS_ERROR)
           <=> call.answer # "chunk"
    BY <2>2, <2>4, AnswerFlags
  <2>6. /\ flags \in Nat
        /\ outbound = encode(Header(call.method_id, flags, call.request_id, 0))
    <3>1. /\ flags \in Nat
          /\ answer_frame(call.answer, call.method_id, call.response_type,
                          call.request_id, <<>>).header
               = encode(Header(call.method_id, flags, call.request_id, 0))
      BY <2>2, <2>4, AnswerHeader, Zenon
    <3> QED
      BY <2>3, <3>1, Zenon DEF Answered
  <2> HIDE DEF flags
  <2>7. h = Header(call.method_id, flags, call.request_id, 0)
    BY <2>2, <2>6, RoundTrip
  <2>8. /\ traits.to_parent = has_flag(flags, DIRECTION_TO_PARENT)
        /\ traits.response = has_flag(flags, IS_RESPONSE)
        /\ traits.error = has_flag(flags, IS_ERROR)
        /\ traits.stream = has_flag(flags, IS_STREAM)
        /\ traits.stream_end = has_flag(flags, STREAM_END)
        /\ traits.event = (call.request_id = 0 /\ ~has_flag(flags, IS_RESPONSE))
    BY <2>7 DEF FrameTraits, HeaderTraits, Header
  <2>9. Valid(h, ABSOLUTE_MAX_PAYLOAD_SIZE) /\ h.request_id = call.request_id
    BY <2>4, <2>5, <2>7, Widths DEF Valid, Header
  <2>10. ASSUME NEW n \in DOMAIN schema.methods,
                schema.methods[n].id = call.method_id, IdsLast
         PROVE  schema.methods[n].response = call.response_type
    <3>1. /\ n \in DOMAIN methods /\ schema.methods[n].id = methods[n].id
          /\ schema.methods[n].response = methods[n].response_type
      BY <2>3, <2>10 DEF build_schema, MethodSchema, get_method_id,
                         get_response_type
    <3>2. ContextFor(methods[n].id) = methods[n].response_type
      BY <2>10, <3>1, UsableLeadsBack DEF IndInv
    <3> QED
      BY <2>3, <2>10, <3>1, <3>2
  <2> HIDE DEF h, traits
  <2>11. /\ Valid(h, ABSOLUTE_MAX_PAYLOAD_SIZE)
         /\ traits.to_parent /\ traits.response /\ ~traits.event
         /\ h.request_id = call.request_id
         /\ traits.error <=> call.answer = "error"
         /\ (~traits.stream \/ traits.stream_end \/ traits.error)
              <=> call.answer # "chunk"
    BY <2>5, <2>8, <2>9
  <2>12. \A n \in DOMAIN schema.methods :
           /\ schema.methods[n].id = call.method_id
           /\ IdsLast
           /\ call.answer \in Proper(schema.methods[n].response)
           => (traits.stream <=> schema.methods[n].response = "Stream")
    BY <2>5, <2>8, <2>10
  <2> QED
    BY <2>11, <2>12 DEF AnswersRouted, h, traits
<1> QED
  BY <1>1, Invariance, PTL

\* The parent can tell an event from every answer and find its name in the schema
\* (EventsResolve).
THEOREM EventsFindTheirName == Spec => []EventsResolve
<1>1. IndInv => EventsResolve
  <2> SUFFICES ASSUME IndInv, outbound # <<>>, "event" \in DOMAIN call,
                      EventIdsLast
               PROVE  EventsResolve
    BY DEF EventsResolve
  <2> DEFINE h == decode(outbound)
             id == events[call.event]
  <2>1. call \in Emits
    BY CallKinds DEF IndInv, ExchangeInv
  <2>2. /\ call.event \in DOMAIN events
        /\ outbound = emit_frame(id, <<>>).header
        /\ schema = build_schema
    BY <2>1, CallKinds DEF IndInv, ExchangeInv, get_event_id
  <2>3. id \in Nat
    BY <2>2, Widths DEF IndInv, MapsInv, Types, Ids
  <2>4. h = Header(id, DIRECTION_TO_PARENT, 0, 0)
    <3>1. DIRECTION_TO_PARENT \in Nat
      BY DEF DIRECTION_TO_PARENT
    <3> QED
      BY <2>2, <2>3, <3>1, EventHeader, RoundTrip
  <2> HIDE DEF h
  <2>5. count.events \in Nat /\ count.events <= U16 - 3 /\ count.events < U16
    BY UsableCount, Widths DEF EventIdsLast, IndInv, MapsInv, Types
  <2>6. ~has_flag(DIRECTION_TO_PARENT, IS_RESPONSE)
    BY DEF has_flag, DIRECTION_TO_PARENT, IS_RESPONSE
  <2>7. FrameTraits(h).event /\ ~FrameTraits(h).response
    BY <2>4, <2>6 DEF FrameTraits, HeaderTraits, Header
  <2>8. /\ DOMAIN schema.events = DOMAIN events
        /\ \A n \in DOMAIN events : schema.events[n].id = events[n]
    BY <2>2 DEF build_schema, EventSchema, get_event_id
  <2>9. \A n \in DOMAIN events : events[n] = id => n = call.event
    BY <2>5, <2>2 DEF IndInv, MapsInv, EventIdsDistinct
  <2>10. h.method_id \in UsableIds
    <3>1. id \in 1..count.events
      BY <2>5, <2>2 DEF IndInv, MapsInv, EventIdsDistinct
    <3>2. id \in UsableIds
      BY <2>5, <3>1, UsableCount, Widths
    <3> QED
      BY <2>4, <3>2 DEF Header
  <2>11. {n \in DOMAIN schema.events : schema.events[n].id = h.method_id}
          = {call.event}
    BY <2>2, <2>4, <2>8, <2>9 DEF Header
  <2> QED
    BY <2>7, <2>11, <2>10 DEF EventsResolve, h
<1> QED
  BY <1>1, Invariance, PTL
=============================================================================
