----------------------------- MODULE HttpProvider -----------------------------
(* One HttpProvider.request(): the two composed abort signals that bound it,  *)
(* the fetch, and the counted read of the body. Requests share no state, so   *)
(* one is enough. The node, the caller and the clock are the environment.     *)
EXTENDS Integers

CONSTANTS
    MaxResponseBytes,   \* bounds.maxResponseBytes
    MaxBody             \* bound: bytes the node may send or declare

ConstantsOK ==
    /\ MaxResponseBytes \in Nat \ {0}
    /\ MaxBody \in Nat

VARIABLES
    caller,     \* the caller's AbortSignal: "none", "live" or "aborted"
    request,    \* requestComposition
    header,     \* headerComposition, chained to request's signal
    phase,      \* "idle", "fetching", "reading", "cancelling" or "done"
    ok,         \* response.ok
    body,       \* the kind of body being read
    sent,       \* bytes of the body the node has sent
    kept,       \* bytes the provider holds in `chunks'
    ended,      \* whether the node sent the whole body
    hooked,     \* whether the read's onAbort listens to request's signal
    cause,      \* history: what aborted the request first
    outcome     \* how the caller's promise settled

vars == <<caller, request, header, phase, ok, body, sent, kept, ended, hooked,
          cause, outcome>>

-----------------------------------------------------------------------------
(* composeAbortSignal(): a deadline timer, a listener on the signal it is     *)
(* chained to, and the reason it was aborted with, if any.                    *)
Live(listens) == [timer |-> TRUE, listens |-> listens, reason |-> "no", timedOut |-> FALSE]

Disposed(c) == [c EXCEPT !.timer = FALSE, !.listens = FALSE]

AbortedBy(c, reason) ==
    Disposed([c EXCEPT !.reason = IF @ = "no" THEN reason ELSE @])

TimedOut(c, reason) == AbortedBy([c EXCEPT !.timedOut = TRUE], reason)

(* A composition hears the signal it is chained to only while its listener is *)
(* attached.                                                                  *)
Heard(c, reason) == IF c.listens THEN AbortedBy(c, reason) ELSE c

Aborted(c) == c.reason # "no"

Compositions == [timer : BOOLEAN, listens : BOOLEAN, timedOut : BOOLEAN,
                 reason : {"no", "caller", "requestTimeout", "connectionTimeout"}]

TypeOK ==
    /\ caller \in {"none", "live", "aborted"}
    /\ request \in Compositions /\ header \in Compositions
    /\ phase \in {"idle", "fetching", "reading", "cancelling", "done"}
    /\ ok \in BOOLEAN /\ ended \in BOOLEAN /\ hooked \in BOOLEAN
    /\ body \in {"none", "stream", "iterable"}
    /\ sent \in 0..MaxBody /\ kept \in 0..MaxBody
    /\ cause \in {"no", "caller", "requestTimeout", "connectionTimeout"}
    /\ outcome \in {"pending", "returned", "ResponseError", "ResponseTooLargeError",
                    "ProviderCapabilityError", "ProviderError", "ConnectionTimeoutError",
                    "RequestTimeoutError", "CallerReason", "OtherError"}

Init ==
    /\ caller \in {"none", "live", "aborted"}
    /\ request = Disposed(Live(FALSE)) /\ header = Disposed(Live(FALSE))
    /\ phase = "idle" /\ ok = FALSE /\ body = "none"
    /\ sent = 0 /\ kept = 0 /\ ended = FALSE /\ hooked = FALSE
    /\ cause = "no" /\ outcome = "pending"

-----------------------------------------------------------------------------
(* The catch clause: bound violations pass, then the deadlines that fired     *)
(* name the error, and anything else is passed on.                            *)
Label(h, r, error) ==
    IF error \in {"ResponseTooLargeError", "ProviderCapabilityError"} THEN error
    ELSE IF h.timedOut THEN "ConnectionTimeoutError"
    ELSE IF r.timedOut THEN "RequestTimeoutError"
    ELSE error

FaultReasonOf(c) == c.reason

(* An abort surfaces as the reason of the signal.                             *)
ReasonOf(c) ==
    CASE c.reason = "caller" -> "CallerReason"
      [] c.reason = "requestTimeout" -> "RequestTimeoutError"
      [] OTHER -> "ConnectionTimeoutError"

(* The end of request(): the read's own finally and the outer one have run.   *)
Settle(h, r, result) ==
    /\ phase' = "done" /\ outcome' = result
    /\ header' = Disposed(h) /\ request' = Disposed(r)
    /\ hooked' = FALSE

Fail(error) ==
    /\ Settle(header, request, Label(header, request, error))
    /\ UNCHANGED <<caller, ok, body, cause>>

(* parseBoundedJson() and what request() makes of it.                         *)
Parsed(valid, isOk) == IF valid /\ isOk THEN "returned" ELSE "ResponseError"

-----------------------------------------------------------------------------
(* request(): a bad per-request timeout throws before anything is armed.      *)
RequestRefused ==
    /\ phase = "idle"
    /\ phase' = "done" /\ outcome' = "ProviderError"
    /\ UNCHANGED <<caller, request, header, ok, body, sent, kept, ended, hooked, cause>>

Request ==
    /\ phase = "idle"
    /\ phase' = "fetching"
    /\ IF caller = "aborted"
       THEN /\ request' = AbortedBy(Live(FALSE), "caller")
            /\ header' = AbortedBy(Live(FALSE), "caller")
            /\ cause' = "caller"
       ELSE /\ request' = Live(caller = "live")
            /\ header' = Live(TRUE)
            /\ UNCHANGED cause
    /\ UNCHANGED <<caller, ok, body, sent, kept, ended, hooked, outcome>>

(* What an abort of request's signal does: header hears it, and so does the   *)
(* read, which cancels the body.                                              *)
AbortRequest(r, reason) ==
    /\ request' = r
    /\ header' = Heard(header, reason)
    /\ cause' = IF cause = "no" /\ phase # "done" THEN reason ELSE cause
    /\ UNCHANGED <<phase, ok, body, sent, kept, ended, hooked, outcome>>

CallerAborts ==
    /\ caller = "live"
    /\ caller' = "aborted"
    /\ IF request.listens THEN AbortRequest(AbortedBy(request, "caller"), "caller")
       ELSE UNCHANGED <<request, header, phase, ok, body, sent, kept, ended, hooked,
                        cause, outcome>>

RequestDeadline ==
    /\ request.timer
    /\ AbortRequest(TimedOut(request, "requestTimeout"), "requestTimeout")
    /\ UNCHANGED caller

HeaderDeadline ==
    /\ header.timer
    /\ header' = TimedOut(header, "connectionTimeout")
    /\ cause' = IF cause = "no" THEN "connectionTimeout" ELSE cause
    /\ UNCHANGED <<caller, request, phase, ok, body, sent, kept, ended, hooked, outcome>>

(* fetch() rejects once its signal is aborted, or because of the network.     *)
FetchAborts ==
    /\ phase = "fetching" /\ Aborted(header)
    /\ Fail(ReasonOf(header))
    /\ UNCHANGED <<sent, kept, ended>>

FetchFails ==
    /\ phase = "fetching" /\ ~Aborted(header)
    /\ Fail("OtherError")
    /\ UNCHANGED <<sent, kept, ended>>

-----------------------------------------------------------------------------
(* The headers are in: the header deadline is retired and readBoundedText()   *)
(* looks at the declared length and the kind of body.                         *)
RetireHeader(h) == Disposed(h)

Undeclared == -1    \* content-length is missing, or makes no sense

Declares(declared, isOk) ==
    /\ phase = "fetching" /\ ~Aborted(header)
    /\ ok' = isOk
    /\ UNCHANGED <<caller, cause>>

(* The response ends the request at once.                                     *)
Answers(result) ==
    Settle(RetireHeader(header), request, result)

DeclaredTooLarge(declared, isOk) ==
    /\ Declares(declared, isOk) /\ declared > MaxResponseBytes
    /\ Answers("ResponseTooLargeError")
    /\ UNCHANGED <<body, sent, kept, ended>>

(* No body, or one of a kind that cannot be counted.                          *)
NoReadableBody(declared, isOk, emptyStatus, other) ==
    /\ Declares(declared, isOk) /\ declared <= MaxResponseBytes
    /\ Answers(IF ~other /\ (declared = 0 \/ emptyStatus)
               THEN "ResponseError" ELSE "ProviderCapabilityError")
    /\ UNCHANGED <<body, sent, kept, ended>>

(* The body is a buffer already.                                              *)
WholeBody(declared, isOk, size, valid) ==
    /\ Declares(declared, isOk) /\ declared <= MaxResponseBytes
    /\ sent' = size /\ ended' = TRUE
    /\ IF size > MaxResponseBytes
       THEN Answers("ResponseTooLargeError") /\ kept' = 0
       ELSE Answers(Parsed(valid, isOk)) /\ kept' = size
    /\ UNCHANGED body

BodyStarts(declared, isOk, kind) ==
    /\ Declares(declared, isOk) /\ declared <= MaxResponseBytes
    /\ phase' = "reading" /\ body' = kind /\ hooked' = TRUE
    /\ header' = RetireHeader(header)
    /\ UNCHANGED <<request, sent, kept, ended, outcome>>

(* The running total, not the chunk, is compared with the bound.              *)
Fits(n) == kept + n <= MaxResponseBytes

(* A chunk of n bytes. If the signal was aborted while the chunk was on its   *)
(* way, the stream reader counts it and then throws at the top of the loop,   *)
(* and the iteration throws at once.                                          *)
Chunk(n) ==
    /\ phase = "reading" /\ ~ended /\ sent + n <= MaxBody
    /\ sent' = sent + n
    /\ UNCHANGED <<ended, ok, body, cause, caller>>
    /\ IF Aborted(request) /\ (body = "iterable" \/ Fits(n))
       THEN /\ Settle(header, request, Label(header, request, ReasonOf(request)))
            /\ UNCHANGED kept
       ELSE IF Fits(n)
       THEN kept' = kept + n /\ UNCHANGED <<request, header, phase, hooked, outcome>>
       ELSE IF body = "stream"
       THEN phase' = "cancelling" /\ UNCHANGED <<kept, request, header, hooked, outcome>>
       ELSE Settle(header, request, "ResponseTooLargeError") /\ UNCHANGED kept

(* reader.cancel() of an oversized stream is awaited before the error.        *)
Cancelled ==
    /\ phase = "cancelling"
    /\ Fail("ResponseTooLargeError")
    /\ UNCHANGED <<sent, kept, ended>>

NonBinaryChunk ==
    /\ phase = "reading" /\ ~ended
    /\ Fail(IF Aborted(request) /\ body = "iterable" THEN ReasonOf(request)
            ELSE "ProviderCapabilityError")
    /\ UNCHANGED <<sent, kept, ended>>

ReadFails ==
    /\ phase = "reading" /\ ~ended /\ ~Aborted(request)
    /\ Fail("OtherError")
    /\ UNCHANGED <<sent, kept, ended>>

(* The node sent its last byte.                                               *)
NodeEnds ==
    /\ phase = "reading" /\ ~ended
    /\ ended' = TRUE
    /\ UNCHANGED <<caller, request, header, phase, ok, body, sent, kept, hooked, cause, outcome>>

(* The read ends as done: after the last byte, or because the abort cancelled *)
(* the stream. Only the check of the signal after the loop tells them apart.  *)
FaultReadEnds(valid) ==
    /\ phase = "reading" /\ (ended \/ Aborted(request))
    /\ Settle(header, request, Parsed(valid, ok))
    /\ UNCHANGED <<caller, ok, body, sent, kept, ended, cause>>

ReadEnds(valid) ==
    /\ phase = "reading" /\ (ended \/ Aborted(request))
    /\ Settle(header, request,
              IF Aborted(request) THEN Label(header, request, ReasonOf(request))
              ELSE Parsed(valid, ok))
    /\ UNCHANGED <<caller, ok, body, sent, kept, ended, cause>>

(* A destroyed Node stream may end its iteration with a premature-close error. *)
DestroyThrows ==
    /\ phase = "reading" /\ Aborted(request) /\ body = "iterable"
    /\ Fail("OtherError")
    /\ UNCHANGED <<sent, kept, ended>>

-----------------------------------------------------------------------------
Finishes ==
    \/ FetchAborts \/ Cancelled \/ \E valid \in BOOLEAN : ReadEnds(valid)

Next ==
    \/ RequestRefused \/ Request
    \/ CallerAborts \/ RequestDeadline \/ HeaderDeadline
    \/ FetchFails \/ NonBinaryChunk \/ ReadFails \/ NodeEnds \/ DestroyThrows
    \/ Finishes
    \/ \E n \in 1..MaxBody : Chunk(n)
    \/ \E declared \in {Undeclared} \cup 0..MaxBody, isOk \in BOOLEAN :
          \/ DeclaredTooLarge(declared, isOk)
          \/ \E kind \in {"stream", "iterable"} : BodyStarts(declared, isOk, kind)
          \/ \E emptyStatus, other \in BOOLEAN :
                NoReadableBody(declared, isOk, emptyStatus, other)
          \/ \E size \in 0..MaxBody, valid \in BOOLEAN :
                WholeBody(declared, isOk, size, valid)

Spec == Init /\ [][Next]_vars

(* Timers fire, an aborted fetch rejects, a cancelled body ends its read.     *)
Fairness == WF_vars(RequestDeadline) /\ WF_vars(Finishes)

FairSpec == Spec /\ Fairness

-----------------------------------------------------------------------------
(* "a partial body must not be mistaken for a complete one": request()        *)
(* returns only what the node sent in full, whatever aborts during the read.  *)
OnlyWholeBodies == outcome = "returned" => ended /\ kept = sent

(* "an oversized response is never fully materialized": the chunks held never *)
(* exceed maxResponseBytes, whatever content-length says.                     *)
HeldWithinBound == kept <= MaxResponseBytes

(* A ConnectionTimeoutError or RequestTimeoutError is raised only for the     *)
(* deadline that fired, before any other abort, and the header deadline never *)
(* after the headers are in; a caller's abort is never called a timeout.      *)
LabelMatchesCause ==
    /\ outcome = "ConnectionTimeoutError" => cause = "connectionTimeout" /\ body = "none"
    /\ outcome = "RequestTimeoutError" => cause = "requestTimeout"
    /\ phase = "done" /\ cause = "requestTimeout" =>
          outcome \in {"RequestTimeoutError", "ResponseTooLargeError", "ProviderCapabilityError"}

(* "reached on every terminal path: success, error, timeout, abort": a        *)
(* settled request leaves no timer, and no listener on the caller's signal or *)
(* on its own.                                                                *)
NothingLeftArmed ==
    phase = "done" =>
       ~hooked /\ \A c \in {request, header} : ~c.timer /\ ~c.listens

(* "Timeouts cannot be disabled": a started request settles, whatever the     *)
(* node does.                                                                 *)
RequestSettles == phase = "fetching" ~> phase = "done"

(* "A caller-initiated abort propagates untouched": if the caller's abort     *)
(* came first and ended the read of a web stream, the caller sees its own     *)
(* reason. (A Node stream may put its premature-close error in the way.)      *)
CallerReasonPropagates ==
    [][(/\ phase = "reading" /\ body = "stream" /\ ~ended /\ outcome' # outcome
        /\ request.reason = "caller") =>
          outcome' \in {"CallerReason", "ResponseTooLargeError", "ProviderCapabilityError"}]_vars

-----------------------------------------------------------------------------
(* Why these hold. A composition that was aborted is disposed, so that the    *)
(* first reason stays, and a deadline that fired is the reason of its own     *)
(* composition unless another came first.                                     *)
SignalsConsistent ==
    /\ request.timer \/ request.listens => request.reason = "no"
    /\ header.timer \/ header.listens => header.reason = "no"
    /\ request.timedOut <=> request.reason = "requestTimeout"
    /\ header.timedOut <=> header.reason = "connectionTimeout"
    /\ request.reason # "connectionTimeout"

(* The header's signal hears whatever aborts the request before the headers   *)
(* are in, and is out of the way afterwards, so the one that matters in each  *)
(* phase has the reason that came first.                                      *)
CauseIsHeard ==
    /\ phase = "idle" => request = Disposed(Live(FALSE)) /\ header = request /\ cause = "no"
    /\ phase = "fetching" =>
          /\ cause = header.reason
          /\ header.reason = "no" => header.listens
          /\ header.reason # "connectionTimeout" => request.reason = header.reason
    /\ phase \in {"reading", "cancelling"} =>
          header.reason = "no" /\ ~header.timer /\ ~header.listens /\ cause = request.reason

(* The provider holds what the node sent as long as it reads.                 *)
ReadInStep ==
    /\ phase \in {"idle", "fetching"} => body = "none" /\ kept = 0 /\ sent = 0 /\ ~ended /\ ~hooked
    /\ phase = "reading" => kept = sent
    /\ phase # "done" <=> outcome = "pending"

Inv ==
    /\ TypeOK /\ SignalsConsistent /\ CauseIsHeard /\ ReadInStep
    /\ OnlyWholeBodies /\ HeldWithinBound /\ LabelMatchesCause /\ NothingLeftArmed

=============================================================================
