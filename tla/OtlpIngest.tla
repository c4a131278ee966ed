----------------------------- MODULE OtlpIngest -----------------------------
(***************************************************************************)
(* routes/otlp.ts and lib/otlp-decode.ts: an OTLP export request becomes a *)
(* list of events for the store, and its service names become tags.        *)
(*                                                                         *)
(* A request is a sequence of resource spans [service, spans] (a scope     *)
(* only groups spans) and a span is a record [trace, start, end, error,    *)
(* wellFormed]; a span whose times are no integers is not well formed.     *)
(* JSON and protobuf give the same request: normalizeProtobufPayload turns *)
(* ids into hexadecimal text and times into decimal text, missing times    *)
(* into "0".                                                               *)
(*                                                                         *)
(* A definition marked "Mutant" is a faulty variant of the definition      *)
(* after it: nothing uses it but the test that the properties catch it.    *)
(***************************************************************************)
EXTENDS Integers, Sequences, SequencesExt

CONSTANTS NanosPerMilli,   \* 1 000 000
          MaxTag           \* 65 535, the last tag there is

(* extractServiceName: a resource without a service.name is "unknown".     *)
ServiceName(resource) ==
  IF "service" \in DOMAIN resource THEN resource.service ELSE "unknown"

(* tryParseOtlpBody and the checks of the route.                           *)
Parsable(request) ==
  /\ request.contentType \in {"json", "protobuf"}
  /\ request.decodes
  /\ request.hasResourceSpans

(* TagDictionary.resolve, names in the order of their tags 1, 2, ...: a    *)
(* full dictionary answers 0 and keeps nothing.                            *)
ResolveTag(tags, name) ==
  IF Contains(tags, name) \/ Len(tags) >= MaxTag THEN tags ELSE Append(tags, name)

(* spanToEvent.  A duration keeps its fraction of a millisecond in the     *)
(* code; here a span's times are whole milliseconds or it is cut off.      *)
SpanToEvent(span) ==
  [trace |-> span.trace, whole |-> TRUE,
   event |-> [timestamp |-> span.start \div NanosPerMilli,
              duration |-> (span.end - span.start) \div NanosPerMilli,
              is_error |-> IF span.error THEN 1 ELSE 0]]

(* otlpToEvents converts span after span and throws at the first one that  *)
(* is not well formed: the request is lost, the tags before it stay.       *)
AllSpans(request) == FlattenSeq([r \in DOMAIN request.resources |->
                                   request.resources[r].spans])

Converts(request) == \A i \in DOMAIN AllSpans(request) : AllSpans(request)[i].wellFormed

OtlpToEvents(request) ==
  [i \in DOMAIN AllSpans(request) |-> SpanToEvent(AllSpans(request)[i])]

(* A name is resolved after its span's times have been read.               *)
TaggedNames(request) ==
  LET names == FlattenSeq([r \in DOMAIN request.resources |->
                 [i \in DOMAIN request.resources[r].spans |->
                    ServiceName(request.resources[r].resource)]])
      n     == SelectInSeq(AllSpans(request), LAMBDA s : ~s.wellFormed)
  IN  IF n = 0 THEN names ELSE SubSeq(names, 1, n - 1)

TagsAfter(tags, request) == FoldLeft(ResolveTag, tags, TaggedNames(request))
=============================================================================
