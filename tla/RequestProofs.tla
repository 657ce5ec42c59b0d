----------------------------- MODULE RequestProofs -----------------------------
(* Proofs about the components a request passes through, for every value of   *)
(* the constants: the HTTP provider, a batch, the contexts and the request    *)
(* manager. The theorems about a component are stated of its own              *)
(* specification, and carried over to the composition that TLC checks.        *)
EXTENDS MCRequests, FilterProofs, FiniteSetTheorems, TLAPS

-----------------------------------------------------------------------------
(* HttpProvider.                                                              *)
LEMMA HttpConstants == MaxResponseBytes \in Nat \ {0} /\ MaxBody \in Nat
BY ConstantsAssumption DEF ConstantsAssumption, Http!ConstantsOK

(* What disposing of a composed signal and aborting it do, field by field.    *)
LEMMA Disposing ==
  ASSUME NEW c \in Http!Compositions
  PROVE  /\ Http!Disposed(c) \in Http!Compositions
         /\ ~Http!Disposed(c).timer /\ ~Http!Disposed(c).listens
         /\ Http!Disposed(c).reason = c.reason
         /\ Http!Disposed(c).timedOut = c.timedOut
BY DEF Http!Compositions, Http!Disposed

(* Aborting records the first reason only.                                   *)
LEMMA Aborting ==
  ASSUME NEW c \in Http!Compositions,
         NEW why \in {"caller", "requestTimeout", "connectionTimeout"}
  PROVE  /\ Http!AbortedBy(c, why) \in Http!Compositions
         /\ ~Http!AbortedBy(c, why).timer /\ ~Http!AbortedBy(c, why).listens
         /\ Http!AbortedBy(c, why).reason = IF c.reason = "no" THEN why ELSE c.reason
         /\ Http!AbortedBy(c, why).timedOut = c.timedOut
BY DEF Http!Compositions, Http!Disposed, Http!AbortedBy

(* So does the timer, which is remembered besides.                           *)
LEMMA TimingOut ==
  ASSUME NEW c \in Http!Compositions,
         NEW why \in {"caller", "requestTimeout", "connectionTimeout"}
  PROVE  /\ Http!TimedOut(c, why) \in Http!Compositions
         /\ ~Http!TimedOut(c, why).timer /\ ~Http!TimedOut(c, why).listens
         /\ Http!TimedOut(c, why).reason = IF c.reason = "no" THEN why ELSE c.reason
         /\ Http!TimedOut(c, why).timedOut
BY DEF Http!Compositions, Http!Disposed, Http!AbortedBy, Http!TimedOut

(* A fresh composition is armed, a disposed one is not.                       *)
LEMMA Armed ==
  ASSUME NEW b \in BOOLEAN
  PROVE  /\ Http!Live(b) \in Http!Compositions
         /\ Http!Live(b).timer /\ Http!Live(b).listens = b
         /\ Http!Live(b).reason = "no" /\ ~Http!Live(b).timedOut
BY DEF Http!Compositions, Http!Live

(* A composition of nothing has no timer to leave behind.                    *)
LEMMA Unarmed ==
  LET c == Http!Disposed(Http!Live(FALSE)) IN
  /\ c \in Http!Compositions
  /\ ~c.timer /\ ~c.listens /\ c.reason = "no" /\ ~c.timedOut
BY DEF Http!Compositions, Http!Live, Http!Disposed

(* The end of a request keeps the invariant, if the result is one that the    *)
(* signals and the body account for.                                          *)
LEMMA Settling ==
  ASSUME Http!TypeOK, Http!SignalsConsistent,
         NEW h \in Http!Compositions, h.reason = header.reason, h.timedOut = header.timedOut,
         NEW r \in {"returned", "ResponseError", "ResponseTooLargeError",
                    "ProviderCapabilityError", "ProviderError", "ConnectionTimeoutError",
                    "RequestTimeoutError", "CallerReason", "OtherError"},
         Http!Settle(h, request, r),
         UNCHANGED <<caller, cause, body>>, ok' \in BOOLEAN, ended' \in BOOLEAN,
         received' \in 0..MaxBody, kept' \in 0..MaxBody, kept' <= MaxResponseBytes,
         r = "returned" => ended' /\ kept' = received',
         r = "ConnectionTimeoutError" => cause = "connectionTimeout" /\ body = "none",
         r = "RequestTimeoutError" => cause = "requestTimeout",
         cause = "requestTimeout" =>
            r \in {"RequestTimeoutError", "ResponseTooLargeError", "ProviderCapabilityError"}
  PROVE  Http!Inv'
<1>1. /\ header' \in Http!Compositions /\ ~header'.timer /\ ~header'.listens
      /\ header'.reason = header.reason /\ header'.timedOut = header.timedOut
  BY Disposing DEF Http!Settle
<1>2. /\ request' \in Http!Compositions /\ ~request'.timer /\ ~request'.listens
      /\ request'.reason = request.reason /\ request'.timedOut = request.timedOut
  BY Disposing DEF Http!Settle, Http!TypeOK
<1>3. phase' = "done" /\ result' = r /\ hooked' = FALSE
  BY DEF Http!Settle
<1>4. Http!TypeOK'
  BY <1>1, <1>2, <1>3 DEF Http!TypeOK
<1>5. Http!SignalsConsistent'
  BY <1>1, <1>2 DEF Http!SignalsConsistent
<1>6. Http!CauseIsHeard' /\ Http!ReadInStep'
  BY <1>3 DEF Http!CauseIsHeard, Http!ReadInStep
<1>7. Http!OnlyWholeBodies' /\ Http!HeldWithinBound' /\ Http!NothingLeftArmed'
  BY <1>1, <1>2, <1>3 DEF Http!OnlyWholeBodies, Http!HeldWithinBound, Http!NothingLeftArmed
<1>8. Http!LabelMatchesCause'
  BY <1>3 DEF Http!LabelMatchesCause
<1> QED
  BY <1>4, <1>5, <1>6, <1>7, <1>8 DEF Http!Inv

(* The catch clause turns an error into one that the signals account for,     *)
(* while the request runs.                                                    *)
LEMMA Labelling ==
  ASSUME Http!Inv, phase \in {"fetching", "reading", "cancelling"},
         NEW error \in {"ResponseTooLargeError", "ProviderCapabilityError", "CallerReason",
                        "OtherError", "ConnectionTimeoutError", "RequestTimeoutError"},
         error = "ConnectionTimeoutError" => cause = "connectionTimeout" /\ body = "none",
         error = "RequestTimeoutError" => cause = "requestTimeout",
         NEW r, r = Http!Label(header, request, error)
  PROVE  /\ r \in {"ResponseTooLargeError", "ProviderCapabilityError", "CallerReason",
                   "OtherError", "ConnectionTimeoutError", "RequestTimeoutError"}
         /\ r = "ConnectionTimeoutError" => cause = "connectionTimeout" /\ body = "none"
         /\ r = "RequestTimeoutError" => cause = "requestTimeout"
         /\ cause = "requestTimeout" =>
               r \in {"RequestTimeoutError", "ResponseTooLargeError", "ProviderCapabilityError"}
<1>1. /\ request.timedOut <=> request.reason = "requestTimeout"
      /\ header.timedOut <=> header.reason = "connectionTimeout"
  BY DEF Http!Inv, Http!SignalsConsistent
<1>2. CASE phase = "fetching"
  <2>1. /\ cause = header.reason /\ body = "none"
        /\ header.reason # "connectionTimeout" => request.reason = header.reason
    BY <1>2 DEF Http!Inv, Http!CauseIsHeard, Http!ReadInStep
  <2> QED BY <1>1, <2>1 DEF Http!Label
<1>3. CASE phase \in {"reading", "cancelling"}
  <2>1. cause = request.reason /\ header.reason = "no"
    BY <1>3 DEF Http!Inv, Http!CauseIsHeard
  <2> QED BY <1>1, <2>1 DEF Http!Label
<1> QED BY <1>2, <1>3

(* request() surfaces an abort of a signal that is the first cause.           *)
LEMMA Reasons ==
  ASSUME Http!Inv, NEW c \in Http!Compositions, Http!Aborted(c), c.reason = cause,
         cause = "connectionTimeout" => body = "none"
  PROVE  LET error == Http!ReasonOf(c) IN
         /\ error \in {"CallerReason", "RequestTimeoutError", "ConnectionTimeoutError"}
         /\ error = "ConnectionTimeoutError" => cause = "connectionTimeout" /\ body = "none"
         /\ error = "RequestTimeoutError" => cause = "requestTimeout"
BY DEF Http!ReasonOf, Http!Aborted, Http!Compositions

(* Before request() is called nothing is armed.                               *)
LEMMA HttpInit == Http!Init => Http!Inv
<1> SUFFICES ASSUME Http!Init PROVE Http!Inv
  OBVIOUS
<1>1. /\ request \in Http!Compositions /\ ~request.timer /\ ~request.listens
      /\ request.reason = "no" /\ ~request.timedOut /\ header = request
  BY Unarmed DEF Http!Init
<1>2. 0 \in 0..MaxBody
  BY HttpConstants
<1>a. Http!TypeOK
  BY <1>1, <1>2 DEF Http!Init, Http!TypeOK
<1>b. Http!SignalsConsistent
  BY <1>1 DEF Http!SignalsConsistent
<1>3. Http!CauseIsHeard /\ Http!ReadInStep
  BY DEF Http!Init, Http!CauseIsHeard, Http!ReadInStep
<1> QED
  BY <1>a, <1>b, <1>3, HttpConstants DEF Http!Init, Http!Inv, Http!OnlyWholeBodies,
     Http!HeldWithinBound, Http!LabelMatchesCause, Http!NothingLeftArmed

(* Every step of a request keeps the invariant.                               *)
LEMMA HttpStep == Http!Inv /\ [Http!Next]_(Http!vars) => Http!Inv'
<1> SUFFICES ASSUME Http!Inv, [Http!Next]_(Http!vars) PROVE Http!Inv'
  OBVIOUS
<1>a. /\ Http!TypeOK /\ Http!SignalsConsistent /\ Http!CauseIsHeard /\ Http!ReadInStep
      /\ Http!OnlyWholeBodies /\ Http!HeldWithinBound
      /\ Http!LabelMatchesCause /\ Http!NothingLeftArmed
  BY DEF Http!Inv
<1>b. request \in Http!Compositions /\ header \in Http!Compositions
  BY <1>a DEF Http!TypeOK
<1>c. /\ ok \in BOOLEAN /\ ended \in BOOLEAN
      /\ received \in 0..MaxBody /\ kept \in 0..MaxBody /\ kept <= MaxResponseBytes
  BY <1>a DEF Http!TypeOK, Http!HeldWithinBound
<1>1. CASE Http!RequestRefused
  <2>1. phase = "idle" /\ phase' = "done" /\ result' = "ProviderError"
        /\ UNCHANGED <<caller, request, header, ok, body, received, kept, ended, hooked, cause>>
    BY <1>1 DEF Http!RequestRefused
  <2>2. /\ ~request.timer /\ ~request.listens /\ header = request /\ ~hooked /\ cause = "no"
    BY <2>1, <1>a, Unarmed DEF Http!CauseIsHeard, Http!ReadInStep
  <2> QED
    BY <2>1, <2>2, <1>a DEF Http!Inv, Http!TypeOK, Http!SignalsConsistent, Http!CauseIsHeard,
       Http!ReadInStep, Http!OnlyWholeBodies, Http!HeldWithinBound, Http!LabelMatchesCause,
       Http!NothingLeftArmed
<1>2. CASE Http!Request
  <2>1. phase = "idle" /\ phase' = "fetching" /\ cause = "no"
        /\ UNCHANGED <<caller, ok, body, received, kept, ended, hooked, result>>
    BY <1>2, <1>a DEF Http!Request, Http!CauseIsHeard
  <2>2. /\ request' \in Http!Compositions /\ header' \in Http!Compositions
        /\ ~request'.timedOut /\ ~header'.timedOut
        /\ request'.reason = header'.reason /\ cause' = header'.reason
        /\ cause' \in {"no", "caller"}
        /\ header'.reason = "no" => header'.listens
        /\ request'.timer \/ request'.listens => request'.reason = "no"
        /\ header'.timer \/ header'.listens => header'.reason = "no"
    BY <1>2, <2>1, Armed, Aborting DEF Http!Request
  <2>3. Http!TypeOK' /\ Http!SignalsConsistent'
    BY <2>1, <2>2, <1>a DEF Http!TypeOK, Http!SignalsConsistent
  <2> QED
    BY <2>1, <2>2, <2>3, <1>a DEF Http!Inv, Http!CauseIsHeard,
       Http!ReadInStep, Http!OnlyWholeBodies, Http!HeldWithinBound, Http!LabelMatchesCause,
       Http!NothingLeftArmed
<1>3. ASSUME NEW r \in Http!Compositions, NEW why \in {"caller", "requestTimeout"},
             request.reason = "no", Http!AbortRequest(r, why),
             ~r.timer, ~r.listens, r.reason = why,
             r.timedOut = (why = "requestTimeout"), caller' \in {"none", "live", "aborted"},
             request.timer \/ request.listens
      PROVE  Http!Inv'
  <2>1. /\ request' = r /\ header' = Http!Heard(header, why)
        /\ UNCHANGED <<phase, ok, body, received, kept, ended, hooked, result>>
        /\ cause' = IF cause = "no" /\ phase # "done" THEN why ELSE cause
    BY <1>3 DEF Http!AbortRequest
  <2>2. /\ header' \in Http!Compositions
        /\ IF header.listens THEN /\ ~header'.timer /\ ~header'.listens
                                  /\ header'.reason = why /\ header'.timedOut = header.timedOut
           ELSE header' = header
    BY <1>a, <1>b, <2>1, Aborting DEF Http!Heard, Http!SignalsConsistent
  <2>3. phase # "idle" /\ phase # "done"
    BY <1>3, <1>a, Unarmed DEF Http!CauseIsHeard, Http!NothingLeftArmed
  <2>a. Http!TypeOK'
    BY <2>1, <2>2, <1>3, <1>a DEF Http!TypeOK
  <2>b. Http!SignalsConsistent'
    BY <2>1, <2>2, <1>3, <1>a DEF Http!SignalsConsistent
  <2>5. Http!CauseIsHeard'
    <3>1. CASE phase = "fetching"
      <4>1. /\ cause = header.reason
            /\ header.reason = "no" => header.listens
            /\ header.reason # "connectionTimeout" => request.reason = header.reason
            /\ header.listens => header.reason = "no"
        BY <3>1, <1>a DEF Http!CauseIsHeard, Http!SignalsConsistent
      <4>2. CASE header.listens
        BY <2>1, <2>2, <3>1, <4>1, <4>2, <1>3 DEF Http!CauseIsHeard
      <4>3. CASE ~header.listens
        BY <2>1, <2>2, <3>1, <4>1, <4>3, <1>3 DEF Http!CauseIsHeard
      <4> QED BY <4>2, <4>3
    <3>2. CASE phase \in {"reading", "cancelling"}
      BY <2>1, <2>2, <3>2, <1>3, <1>a DEF Http!CauseIsHeard
    <3> QED BY <2>3, <3>1, <3>2, <1>a DEF Http!TypeOK
  <2> QED
    BY <2>1, <2>3, <2>a, <2>b, <2>5, <1>a DEF Http!Inv,
       Http!ReadInStep, Http!OnlyWholeBodies, Http!HeldWithinBound, Http!LabelMatchesCause,
       Http!NothingLeftArmed
<1>4. CASE Http!CallerAborts
  <2>1. CASE request.listens
    <3> DEFINE r == Http!AbortedBy(request, "caller")
    <3>1. request.reason = "no" /\ ~request.timedOut
      BY <2>1, <1>a DEF Http!SignalsConsistent
    <3>2. /\ r \in Http!Compositions /\ ~r.timer /\ ~r.listens
          /\ r.reason = "caller" /\ ~r.timedOut
      BY <3>1, <1>b, Aborting
    <3>3. Http!AbortRequest(r, "caller") /\ caller' = "aborted"
      BY <1>4, <2>1 DEF Http!CallerAborts
    <3>4. r.timedOut = ("caller" = "requestTimeout")
      BY <3>2, <1>b DEF Http!Compositions
    <3> HIDE DEF r
    <3> QED
      BY <2>1, <3>1, <3>2, <3>3, <3>4, <1>3
  <2>2. CASE ~request.listens
    <3>1. /\ caller' = "aborted"
          /\ UNCHANGED <<request, header, phase, ok, body, received, kept, ended, hooked,
                        cause, result>>
      BY <1>4, <2>2 DEF Http!CallerAborts
    <3>2. Http!TypeOK'
      BY <3>1, <1>a DEF Http!TypeOK
    <3>3. Http!SignalsConsistent' /\ Http!CauseIsHeard'
      BY <3>1, <1>a DEF Http!SignalsConsistent, Http!CauseIsHeard
    <3> QED
      BY <3>1, <3>2, <3>3, <1>a DEF Http!Inv, Http!ReadInStep, Http!OnlyWholeBodies,
         Http!HeldWithinBound, Http!LabelMatchesCause, Http!NothingLeftArmed
  <2> QED BY <2>1, <2>2
<1>5. CASE Http!RequestDeadline
  <2>1. request.reason = "no" /\ caller' = caller
    BY <1>5, <1>a DEF Http!SignalsConsistent, Http!RequestDeadline
  <2> QED
    BY <1>5, <2>1, <1>a, <1>b, TimingOut, <1>3 DEF Http!RequestDeadline, Http!TypeOK
<1>6. CASE Http!HeaderDeadline
  <2>1. header.timer /\ header.reason = "no" /\ phase = "fetching"
    BY <1>6, <1>a, Unarmed DEF Http!HeaderDeadline, Http!SignalsConsistent,
       Http!CauseIsHeard, Http!NothingLeftArmed, Http!TypeOK
  <2>2. /\ header' \in Http!Compositions /\ ~header'.timer /\ ~header'.listens
        /\ header'.reason = "connectionTimeout" /\ header'.timedOut
        /\ cause' = "connectionTimeout"
        /\ UNCHANGED <<caller, request, phase, ok, body, received, kept, ended, hooked, result>>
    BY <1>6, <1>a, <1>b, <2>1, TimingOut DEF Http!HeaderDeadline, Http!CauseIsHeard
  <2>3. Http!TypeOK' /\ Http!SignalsConsistent'
    BY <2>2, <1>a DEF Http!TypeOK, Http!SignalsConsistent
  <2> QED
    BY <2>1, <2>2, <2>3, <1>a DEF Http!Inv, Http!CauseIsHeard,
       Http!ReadInStep, Http!OnlyWholeBodies, Http!HeldWithinBound, Http!LabelMatchesCause,
       Http!NothingLeftArmed
<1>7. CASE Http!FetchFails
  <2>1. /\ Http!Settle(header, request, Http!Label(header, request, "OtherError"))
        /\ phase = "fetching"
        /\ UNCHANGED <<caller, ok, body, cause, received, kept, ended>>
    BY <1>7 DEF Http!FetchFails, Http!Fail
  <2> QED BY <2>1, <1>a, <1>b, <1>c, Labelling, Settling
<1>8. CASE Http!NonBinaryChunk
  <2> DEFINE error == IF Http!Aborted(request) /\ body = "iterable"
                      THEN Http!ReasonOf(request) ELSE "ProviderCapabilityError"
  <2>1. /\ Http!Settle(header, request, Http!Label(header, request, error))
        /\ phase = "reading"
        /\ UNCHANGED <<caller, ok, body, cause, received, kept, ended>>
    BY <1>8 DEF Http!NonBinaryChunk, Http!Fail
  <2>2. cause = request.reason /\ cause # "connectionTimeout"
    BY <2>1, <1>a DEF Http!CauseIsHeard, Http!SignalsConsistent
  <2>3. /\ error \in {"ProviderCapabilityError", "CallerReason", "RequestTimeoutError"}
        /\ error = "RequestTimeoutError" => cause = "requestTimeout"
    BY <2>2, <1>b, Reasons
  <2> HIDE DEF error
  <2> QED BY <2>1, <2>3, <1>a, <1>b, <1>c, Labelling, Settling
<1>9. CASE Http!ReadFails
  <2>1. /\ Http!Settle(header, request, Http!Label(header, request, "OtherError"))
        /\ phase = "reading"
        /\ UNCHANGED <<caller, ok, body, cause, received, kept, ended>>
    BY <1>9 DEF Http!ReadFails, Http!Fail
  <2> QED BY <2>1, <1>a, <1>b, <1>c, Labelling, Settling
<1>10. CASE Http!NodeEnds
  <2>1. /\ phase = "reading" /\ ended' = TRUE
        /\ UNCHANGED <<caller, request, header, phase, ok, body, received, kept, hooked,
                      cause, result>>
    BY <1>10 DEF Http!NodeEnds
  <2>2. Http!TypeOK'
    BY <2>1, <1>a DEF Http!TypeOK
  <2>3. Http!SignalsConsistent' /\ Http!CauseIsHeard'
    BY <2>1, <1>a DEF Http!SignalsConsistent, Http!CauseIsHeard
  <2> QED
    BY <2>1, <2>2, <2>3, <1>a DEF Http!Inv, Http!ReadInStep, Http!OnlyWholeBodies,
       Http!HeldWithinBound, Http!LabelMatchesCause, Http!NothingLeftArmed
<1>11. CASE Http!DestroyThrows
  <2>1. /\ Http!Settle(header, request, Http!Label(header, request, "OtherError"))
        /\ phase = "reading"
        /\ UNCHANGED <<caller, ok, body, cause, received, kept, ended>>
    BY <1>11 DEF Http!DestroyThrows, Http!Fail
  <2> QED BY <2>1, <1>a, <1>b, <1>c, Labelling, Settling
<1>12. CASE Http!FetchAborts
  <2> DEFINE error == Http!ReasonOf(header)
  <2>1. /\ Http!Settle(header, request, Http!Label(header, request, error))
        /\ phase = "fetching" /\ Http!Aborted(header)
        /\ UNCHANGED <<caller, ok, body, cause, received, kept, ended>>
    BY <1>12 DEF Http!FetchAborts, Http!Fail
  <2>2. cause = header.reason /\ body = "none"
    BY <2>1, <1>a DEF Http!CauseIsHeard, Http!ReadInStep
  <2>3. /\ error \in {"CallerReason", "RequestTimeoutError", "ConnectionTimeoutError"}
        /\ error = "ConnectionTimeoutError" => cause = "connectionTimeout" /\ body = "none"
        /\ error = "RequestTimeoutError" => cause = "requestTimeout"
    BY <2>1, <2>2, <1>b, Reasons
  <2> HIDE DEF error
  <2> QED BY <2>1, <2>3, <1>a, <1>b, <1>c, Labelling, Settling
<1>13. CASE Http!Cancelled
  <2>1. /\ Http!Settle(header, request, Http!Label(header, request, "ResponseTooLargeError"))
        /\ phase = "cancelling"
        /\ UNCHANGED <<caller, ok, body, cause, received, kept, ended>>
    BY <1>13 DEF Http!Cancelled, Http!Fail
  <2> QED BY <2>1, <1>a, <1>b, <1>c, Labelling, Settling
<1>14. ASSUME NEW valid \in BOOLEAN, Http!ReadEnds(valid) PROVE Http!Inv'
  <2>1. /\ Http!Settle(header, request,
              IF Http!Aborted(request)
              THEN Http!Label(header, request, Http!ReasonOf(request))
              ELSE Http!Parsed(valid, ok))
        /\ phase = "reading" /\ (ended \/ Http!Aborted(request))
        /\ UNCHANGED <<caller, ok, body, cause, received, kept, ended>>
    BY <1>14 DEF Http!ReadEnds
  <2>2. cause = request.reason /\ cause # "connectionTimeout" /\ kept = received
    BY <2>1, <1>a DEF Http!CauseIsHeard, Http!ReadInStep, Http!SignalsConsistent
  <2>3. CASE Http!Aborted(request)
    <3> DEFINE error == Http!ReasonOf(request)
    <3>1. /\ error \in {"CallerReason", "RequestTimeoutError"}
          /\ error = "RequestTimeoutError" => cause = "requestTimeout"
      BY <2>2, <2>3, <1>b, Reasons
    <3> HIDE DEF error
    <3>2. Http!Settle(header, request, Http!Label(header, request, error))
      BY <2>1, <2>3 DEF error
    <3> QED BY <2>1, <3>1, <3>2, <1>a, <1>b, <1>c, Labelling, Settling
  <2>4. CASE ~Http!Aborted(request)
    <3>1. Http!Settle(header, request, Http!Parsed(valid, ok)) /\ ended /\ cause = "no"
      BY <2>1, <2>2, <2>4 DEF Http!Aborted
    <3>2. Http!Parsed(valid, ok) \in {"returned", "ResponseError"}
      BY DEF Http!Parsed
    <3> QED BY <2>1, <2>2, <3>1, <3>2, <1>a, <1>b, <1>c, Settling
  <2> QED BY <2>3, <2>4
<1>15. ASSUME NEW n \in 1..MaxBody, Http!Chunk(n) PROVE Http!Inv'
  <2>1. /\ phase = "reading" /\ received + n <= MaxBody /\ received' = received + n
        /\ UNCHANGED <<ended, ok, body, cause, caller>>
    BY <1>15 DEF Http!Chunk
  <2>2. /\ received' \in 0..MaxBody
        /\ cause = request.reason /\ cause # "connectionTimeout" /\ kept = received
    BY <2>1, <1>c, <1>a, HttpConstants DEF Http!CauseIsHeard, Http!ReadInStep, Http!SignalsConsistent
  <2>3. CASE Http!Aborted(request) /\ (body = "iterable" \/ Http!Fits(n))
    <3> DEFINE error == Http!ReasonOf(request)
    <3>1. /\ error \in {"CallerReason", "RequestTimeoutError"}
          /\ error = "RequestTimeoutError" => cause = "requestTimeout"
      BY <2>2, <2>3, <1>b, Reasons
    <3>2. Http!Settle(header, request, Http!Label(header, request, error)) /\ kept' = kept
      BY <1>15, <2>3 DEF Http!Chunk
    <3> HIDE DEF error
    <3> QED BY <2>1, <2>2, <3>1, <3>2, <1>a, <1>b, <1>c, Labelling, Settling
  <2>4. CASE ~(Http!Aborted(request) /\ (body = "iterable" \/ Http!Fits(n))) /\ Http!Fits(n)
    <3>1. /\ kept' = kept + n /\ UNCHANGED <<request, header, phase, hooked, result>>
      BY <1>15, <2>4 DEF Http!Chunk
    <3>2. kept' \in 0..MaxBody /\ kept' <= MaxResponseBytes /\ kept' = received'
      BY <2>1, <2>2, <2>4, <3>1 DEF Http!Fits
    <3>3. Http!TypeOK'
      BY <2>1, <2>2, <3>1, <3>2, <1>a DEF Http!TypeOK
    <3>4. Http!SignalsConsistent' /\ Http!CauseIsHeard'
      BY <2>1, <3>1, <1>a DEF Http!SignalsConsistent, Http!CauseIsHeard
    <3> QED
      BY <2>1, <3>1, <3>2, <3>3, <3>4, <1>a DEF Http!Inv, Http!ReadInStep, Http!OnlyWholeBodies,
         Http!HeldWithinBound, Http!LabelMatchesCause, Http!NothingLeftArmed
  <2>5. CASE ~Http!Fits(n) /\ ~(Http!Aborted(request) /\ body = "iterable") /\ body = "stream"
    <3>1. phase' = "cancelling" /\ UNCHANGED <<kept, request, header, hooked, result>>
      BY <1>15, <2>5 DEF Http!Chunk
    <3>2. Http!TypeOK'
      BY <2>1, <2>2, <3>1, <1>a DEF Http!TypeOK
    <3>3. Http!SignalsConsistent' /\ Http!CauseIsHeard'
      BY <2>1, <3>1, <1>a DEF Http!SignalsConsistent, Http!CauseIsHeard
    <3> QED
      BY <2>1, <3>1, <3>2, <3>3, <1>a DEF Http!Inv, Http!ReadInStep, Http!OnlyWholeBodies,
         Http!HeldWithinBound, Http!LabelMatchesCause, Http!NothingLeftArmed
  <2>6. CASE ~Http!Fits(n) /\ ~(Http!Aborted(request) /\ body = "iterable") /\ body # "stream"
    <3>1. Http!Settle(header, request, "ResponseTooLargeError") /\ kept' = kept
      BY <1>15, <2>6 DEF Http!Chunk
    <3> QED BY <2>1, <2>2, <3>1, <1>a, <1>b, <1>c, Settling
  <2> QED BY <2>3, <2>4, <2>5, <2>6
<1>16. ASSUME NEW declared, NEW isOk \in BOOLEAN, NEW r,
              Http!Declares(declared, isOk), Http!Answers(r), body' = body,
              r \in {"returned", "ResponseError", "ResponseTooLargeError", "ProviderCapabilityError"},
              ended' \in BOOLEAN, received' \in 0..MaxBody, kept' \in 0..MaxBody,
              kept' <= MaxResponseBytes, r = "returned" => ended' /\ kept' = received'
       PROVE  Http!Inv'
  <2> DEFINE h == Http!Disposed(header)
  <2>1. Http!Settle(h, request, r) /\ phase = "fetching" /\ ok' = isOk
        /\ UNCHANGED <<caller, cause>> /\ ~Http!Aborted(header)
    BY <1>16 DEF Http!Declares, Http!Answers, Http!RetireHeader
  <2>2. h \in Http!Compositions /\ h.reason = header.reason /\ h.timedOut = header.timedOut
    BY <1>b, Disposing
  <2>3. cause = "no"
    BY <2>1, <1>a DEF Http!CauseIsHeard, Http!Aborted
  <2> HIDE DEF h
  <2> QED BY <2>1, <2>2, <2>3, <1>16, <1>a, Settling
<1>17. ASSUME NEW declared, NEW isOk \in BOOLEAN, Http!DeclaredTooLarge(declared, isOk)
       PROVE  Http!Inv'
  <2>1. /\ Http!Declares(declared, isOk) /\ Http!Answers("ResponseTooLargeError")
        /\ UNCHANGED <<body, received, kept, ended>>
    BY <1>17 DEF Http!DeclaredTooLarge
  <2> QED BY <2>1, <1>c, <1>16
<1>18. ASSUME NEW declared, NEW isOk \in BOOLEAN, NEW emptyStatus \in BOOLEAN,
              NEW other \in BOOLEAN, Http!NoReadableBody(declared, isOk, emptyStatus, other)
       PROVE  Http!Inv'
  <2> DEFINE r == IF ~other /\ (declared = 0 \/ emptyStatus)
                  THEN "ResponseError" ELSE "ProviderCapabilityError"
  <2>1. /\ Http!Declares(declared, isOk) /\ Http!Answers(r)
        /\ UNCHANGED <<body, received, kept, ended>>
    BY <1>18 DEF Http!NoReadableBody
  <2>2. r \in {"ResponseError", "ProviderCapabilityError"}
    OBVIOUS
  <2> HIDE DEF r
  <2> QED BY <2>1, <2>2, <1>c, <1>16
<1>19. ASSUME NEW declared, NEW isOk \in BOOLEAN, NEW size \in 0..MaxBody, NEW valid \in BOOLEAN,
              Http!WholeBody(declared, isOk, size, valid)
       PROVE  Http!Inv'
  <2>1. /\ Http!Declares(declared, isOk) /\ received' = size /\ ended' = TRUE /\ body' = body
    BY <1>19 DEF Http!WholeBody
  <2>2. CASE size > MaxResponseBytes
    <3>1. Http!Answers("ResponseTooLargeError") /\ kept' = 0
      BY <1>19, <2>2 DEF Http!WholeBody
    <3>2. kept' \in 0..MaxBody /\ kept' <= MaxResponseBytes
      BY <3>1, HttpConstants
    <3> QED BY <2>1, <3>1, <3>2, <1>16
  <2>3. CASE ~(size > MaxResponseBytes)
    <3>1. Http!Answers(Http!Parsed(valid, isOk)) /\ kept' = size
      BY <1>19, <2>3 DEF Http!WholeBody
    <3>2. kept' \in 0..MaxBody /\ kept' <= MaxResponseBytes
      BY <2>3, <3>1, HttpConstants
    <3>3. Http!Parsed(valid, isOk) \in {"returned", "ResponseError"}
      BY DEF Http!Parsed
    <3> QED BY <2>1, <3>1, <3>2, <3>3, <1>16
  <2> QED BY <2>2, <2>3
<1>20. ASSUME NEW declared, NEW isOk \in BOOLEAN, NEW kind \in {"stream", "iterable"},
              Http!BodyStarts(declared, isOk, kind)
       PROVE  Http!Inv'
  <2>1. /\ phase = "fetching" /\ ~Http!Aborted(header) /\ ok' = isOk
        /\ phase' = "reading" /\ body' = kind /\ hooked' = TRUE
        /\ header' = Http!Disposed(header)
        /\ UNCHANGED <<caller, cause, request, received, kept, ended, result>>
    BY <1>20 DEF Http!BodyStarts, Http!Declares, Http!RetireHeader
  <2>2. /\ header' \in Http!Compositions /\ ~header'.timer /\ ~header'.listens
        /\ header'.reason = "no" /\ header'.timedOut = header.timedOut
    BY <2>1, <1>b, Disposing DEF Http!Aborted
  <2>3. /\ header.reason = "no" /\ cause = "no" /\ request.reason = "no"
        /\ body = "none" /\ kept = 0 /\ received = 0
    BY <2>1, <1>a DEF Http!CauseIsHeard, Http!ReadInStep, Http!Aborted
  <2>4. Http!TypeOK'
    BY <2>1, <2>2, <1>a DEF Http!TypeOK
  <2>5. Http!SignalsConsistent' /\ Http!CauseIsHeard'
    BY <2>1, <2>2, <2>3, <1>a DEF Http!SignalsConsistent, Http!CauseIsHeard
  <2> QED
    BY <2>1, <2>3, <2>4, <2>5, <1>a DEF Http!Inv, Http!ReadInStep, Http!OnlyWholeBodies,
       Http!HeldWithinBound, Http!LabelMatchesCause, Http!NothingLeftArmed
<1>21. CASE UNCHANGED Http!vars
  <2>1. UNCHANGED <<caller, request, header, phase, ok, body, received, kept, ended, hooked,
                    cause, result>>
    BY <1>21 DEF Http!vars
  <2>2. Http!TypeOK'
    BY <2>1, <1>a DEF Http!TypeOK
  <2>3. Http!SignalsConsistent' /\ Http!CauseIsHeard'
    BY <2>1, <1>a DEF Http!SignalsConsistent, Http!CauseIsHeard
  <2> QED
    BY <2>1, <2>2, <2>3, <1>a DEF Http!Inv, Http!ReadInStep, Http!OnlyWholeBodies,
       Http!HeldWithinBound, Http!LabelMatchesCause, Http!NothingLeftArmed
<1> QED
  BY <1>1, <1>2, <1>4, <1>5, <1>6, <1>7, <1>8, <1>9, <1>10, <1>11, <1>12, <1>13, <1>14,
     <1>15, <1>17, <1>18, <1>19, <1>20, <1>21
     DEF Http!Next, Http!Finishes

(* A request of the HTTP provider returns only whole bodies, holds no more    *)
(* than maxResponseBytes, names the deadline that ended it and leaves nothing *)
(* armed, for all bounds and however long the body is.                        *)
THEOREM HttpInvariant == Http!Spec => []Http!Inv
BY HttpInit, HttpStep, PTL DEF Http!Spec

(* If the caller aborts the read of a web stream, it sees its own reason,     *)
(* however the read ends.                                                     *)
THEOREM CallerSeesItsReason == Http!Spec => Http!CallerReasonPropagates
<1> DEFINE Reading == /\ phase = "reading" /\ body = "stream" /\ ~ended /\ result' # result
                      /\ request.reason = "caller"
           Named == result' \in {"CallerReason", "ResponseTooLargeError", "ProviderCapabilityError"}
<1>1. Http!Inv /\ [Http!Next]_(Http!vars) => (Reading => Named)
  <2> SUFFICES ASSUME Http!Inv, [Http!Next]_(Http!vars), Reading PROVE Named
    OBVIOUS
  <2>1. /\ Http!Aborted(request) /\ Http!ReasonOf(request) = "CallerReason"
        /\ ~request.timedOut /\ ~header.timedOut
    BY DEF Http!Inv, Http!SignalsConsistent, Http!CauseIsHeard, Http!Aborted, Http!ReasonOf
  <2>2. \A error : Http!Label(header, request, error) = error
    BY <2>1 DEF Http!Label
  <2>3. CASE Http!NonBinaryChunk
    BY <2>2, <2>3 DEF Http!NonBinaryChunk, Http!Fail, Http!Settle
  <2>4. ASSUME NEW valid \in BOOLEAN, Http!ReadEnds(valid) PROVE Named
    BY <2>1, <2>2, <2>4 DEF Http!ReadEnds, Http!Settle
  <2>5. ASSUME NEW n \in 1..MaxBody, Http!Chunk(n) PROVE Named
    BY <2>1, <2>2, <2>5 DEF Http!Chunk, Http!Settle
  <2>6. CASE \/ Http!RequestRefused \/ Http!Request \/ Http!FetchFails \/ Http!FetchAborts
             \/ Http!Cancelled \/ Http!DestroyThrows \/ Http!ReadFails
    BY <2>1, <2>6 DEF Http!RequestRefused, Http!Request, Http!FetchFails, Http!FetchAborts,
       Http!Cancelled, Http!DestroyThrows, Http!ReadFails
  <2>7. CASE Http!CallerAborts \/ Http!RequestDeadline \/ Http!HeaderDeadline \/ Http!NodeEnds
    BY <2>7 DEF Http!CallerAborts, Http!RequestDeadline, Http!HeaderDeadline, Http!NodeEnds,
       Http!AbortRequest
  <2>8. ASSUME NEW declared, NEW isOk, Http!Declares(declared, isOk) PROVE FALSE
    BY <2>8 DEF Http!Declares
  <2>9. CASE UNCHANGED Http!vars
    BY <2>9 DEF Http!vars
  <2> QED
    BY <2>3, <2>4, <2>5, <2>6, <2>7, <2>8, <2>9 DEF Http!Next, Http!Finishes,
       Http!DeclaredTooLarge, Http!NoReadableBody, Http!WholeBody, Http!BodyStarts
<1> QED
  BY <1>1, HttpInvariant, PTL DEF Http!Spec, Http!CallerReasonPropagates

-----------------------------------------------------------------------------
(* BatchRequest.                                                              *)
(* The cardinality that BatchRequest counts with is that of the library.      *)
LEMMA BatchCardinality == ASSUME NEW S PROVE Batch!Cardinality(S) = Cardinality(S)
BY DEF Batch!Cardinality, Batch!IsFiniteSet, Cardinality, IsFiniteSet

(* Settling a deferred promise keeps what it was settled as before.           *)
LEMMA SettlingDeferred ==
  ASSUME NEW d \in Batch!Deferred
  PROVE  /\ Batch!Resolve(d) \in Batch!Deferred /\ Batch!IsSettled(Batch!Resolve(d))
         /\ Batch!Reject(d) \in Batch!Deferred /\ Batch!IsSettled(Batch!Reject(d))
         /\ Batch!Reject(d).promise = "fulfilled" => d.promise = "fulfilled"
         /\ Batch!IsSettled(d) => Batch!Resolve(d).promise = d.promise
         /\ Batch!IsSettled(d) => Batch!Reject(d).promise = d.promise
BY DEF Batch!Deferred, Batch!Settlement, Batch!Resolve, Batch!Reject, Batch!SettleAs,
       Batch!IsSettled

(* Equal counts of every number leave no request without an element of its.   *)
LEMMA EachHasALookAlike ==
  ASSUME requests \subseteq Entries, NEW list, Batch!AcceptsIds(list), NEW e \in requests
  PROVE  {k \in DOMAIN list : Batch!NumberOf(list[k].id) = Batch!NumberOf(idOf[e])} # {}
<1> DEFINE n == Batch!NumberOf(idOf[e])
           those == {f \in requests : Batch!NumberOf(idOf[f]) = n}
           alike == {k \in DOMAIN list : Batch!NumberOf(list[k].id) = n}
<1>1. n \in Numerals \cup {NaN}
  BY DEF Batch!NumberOf
<1>2. Cardinality(alike) = Cardinality(those)
  BY <1>1, BatchCardinality DEF Batch!AcceptsIds
<1>3. IsFiniteSet(those)
  <2>1. IsFiniteSet(Entries)
    BY ConstantsAssumption DEF ConstantsAssumption, Batch!ConstantsOK, Batch!IsFiniteSet, IsFiniteSet
  <2> QED BY <2>1, FS_Subset
<1>4. Cardinality(those) # 0
  BY <1>3, FS_EmptySet
<1> QED BY <1>2, <1>4, FS_EmptySet

(* A new batch holds no promise that is settled.                              *)
LEMMA BatchInit == Batch!Init => Batch!Inv
BY DEF Batch!Init, Batch!Inv, Batch!TypeOK, Batch!NewDeferred, Batch!Deferred, Batch!Settlement,
       Batch!EachGetsItsOwn, Batch!IsSettled

(* What an answer does to the promises, whichever branch it takes.            *)
LEMMA Answering ==
  ASSUME Batch!TypeOK, NEW x \in Executions, Batch!Response(x)
  PROVE  /\ requests' = requests /\ idOf' = idOf /\ sent' \subseteq sent /\ failed' = failed
         /\ entry' \in [Entries -> Batch!Deferred]
         /\ execution' \in [Executions -> Batch!Deferred]
         /\ got' \in [Entries -> Batch!Ids \cup {None}]
         /\ passedOver' \in [Entries -> SUBSET Batch!Elements]
         /\ \A e \in Entries : entry'[e].promise = "fulfilled" =>
               \/ got'[e] = idOf[e]
               \/ entry[e].promise = "fulfilled" /\ got'[e] = got[e]
         /\ \A e \in requests : Batch!IsSettled(entry'[e]) \/ passedOver'[e] # {}
         /\ \A e \in Entries \ requests : entry'[e] = entry[e]
<1>n. PICK n \in 0..Batch!Cardinality(requests) :
         \E list \in [1..n -> Batch!Elements] :
            IF Batch!AcceptsSize(list) /\ Batch!AcceptsIds(list)
            THEN Batch!AcceptResponse(x, list)
            ELSE Batch!RefuseResponse(x)
  BY DEF Batch!Response
<1>1. PICK list \in [1..n -> Batch!Elements] :
         IF Batch!AcceptsSize(list) /\ Batch!AcceptsIds(list)
         THEN Batch!AcceptResponse(x, list)
         ELSE Batch!RefuseResponse(x)
  BY <1>n
<1>2. requests' = requests /\ idOf' = idOf /\ failed' = failed /\ sent' = sent \ {x}
  BY DEF Batch!Response
<1>3. /\ requests \subseteq Entries /\ \A e \in Entries : entry[e] \in Batch!Deferred
      /\ execution \in [Executions -> Batch!Deferred] /\ execution[x] \in Batch!Deferred
      /\ entry \in [Entries -> Batch!Deferred]
      /\ got \in [Entries -> Batch!Ids \cup {None}]
      /\ passedOver \in [Entries -> SUBSET Batch!Elements]
  BY DEF Batch!TypeOK
<1>4. CASE Batch!AcceptsSize(list) /\ Batch!AcceptsIds(list)
  <2> DEFINE first(e) == CHOOSE k \in Batch!Answers(list, e) :
                            \A l \in Batch!Answers(list, e) : k <= l
             last(e) == CHOOSE k \in Batch!Answers(list, e) :
                            \A l \in Batch!Answers(list, e) : l <= k
             by(d, k) == IF list[k].says = "result" THEN Batch!Resolve(d) ELSE Batch!Reject(d)
             settled == {e \in requests : Batch!Answers(list, e) # {}}
             alike(e) == {list[k] : k \in {l \in DOMAIN list :
                                             Batch!NumberOf(list[l].id) = Batch!NumberOf(idOf[e])}}
             twice(e) == by(by(entry[e], first(e)), last(e))
  <2>1. /\ entry' = [e \in Entries |-> IF e \in settled THEN twice(e) ELSE entry[e]]
        /\ got' = [e \in Entries |->
                     IF /\ e \in settled /\ ~Batch!IsSettled(entry[e])
                        /\ list[first(e)].says = "result"
                     THEN list[first(e)].id ELSE got[e]]
        /\ passedOver' = [e \in Entries |->
                            IF e \in requests \ settled THEN alike(e) ELSE passedOver[e]]
        /\ execution' = [execution EXCEPT ![x] = Batch!Resolve(@)]
    BY <1>1, <1>4 DEF Batch!AcceptResponse
  <2>2. ASSUME NEW e \in settled
        PROVE  first(e) \in DOMAIN list /\ list[first(e)].id = idOf[e]
    <3>1. Batch!Answers(list, e) # {} /\ Batch!Answers(list, e) \subseteq 1..n
      BY <2>2 DEF Batch!Answers
    <3>2. \E k \in Batch!Answers(list, e) : \A l \in Batch!Answers(list, e) : k <= l
      <4>1. Batch!Answers(list, e) \subseteq Nat
        BY <3>1
      <4> QED BY <3>1, <4>1, LeastNumber
    <3>3. first(e) \in Batch!Answers(list, e)
      BY <3>2
    <3> QED BY <3>3 DEF Batch!Answers
  <2>3. ASSUME NEW e \in settled
        PROVE  /\ twice(e) \in Batch!Deferred /\ Batch!IsSettled(twice(e))
               /\ twice(e).promise = "fulfilled" =>
                     \/ entry[e].promise = "fulfilled"
                     \/ ~Batch!IsSettled(entry[e]) /\ list[first(e)].says = "result"
    <3>1. entry[e] \in Batch!Deferred
      BY <1>3, <2>3
    <3>2. \A d \in Batch!Deferred : \A k :
             /\ by(d, k) \in Batch!Deferred /\ Batch!IsSettled(by(d, k))
             /\ Batch!IsSettled(d) => by(d, k).promise = d.promise
             /\ by(d, k).promise = "fulfilled" =>
                   d.promise = "fulfilled" \/ (~Batch!IsSettled(d) /\ list[k].says = "result")
      BY SettlingDeferred DEF Batch!IsSettled, Batch!Deferred, Batch!Settlement, Batch!Reject,
         Batch!SettleAs
    <3> HIDE DEF by, first, last
    <3>3. /\ by(entry[e], first(e)) \in Batch!Deferred
          /\ Batch!IsSettled(by(entry[e], first(e)))
      BY <3>1, <3>2
    <3> QED BY <3>1, <3>2, <3>3
  <2>4. ASSUME NEW e \in requests PROVE alike(e) # {}
    BY <1>3, <1>4, EachHasALookAlike
  <2>5. \A e \in Entries : alike(e) \in SUBSET Batch!Elements
    BY <1>1
  <2>6. \A k \in DOMAIN list : list[k].id \in Batch!Ids
    BY <1>1 DEF Batch!Elements
  <2>7. settled \subseteq requests
    OBVIOUS
  <2> HIDE DEF twice, first, settled, alike
  <2>8. entry' \in [Entries -> Batch!Deferred]
    BY <1>3, <2>1, <2>3
  <2>9. got' \in [Entries -> Batch!Ids \cup {None}]
    BY <1>3, <2>1, <2>2, <2>6
  <2>10. passedOver' \in [Entries -> SUBSET Batch!Elements]
    BY <1>3, <2>1, <2>5
  <2>11. execution' \in [Executions -> Batch!Deferred]
    BY <1>3, <2>1, SettlingDeferred
  <2>12. ASSUME NEW e \in Entries, entry'[e].promise = "fulfilled"
         PROVE  \/ got'[e] = idOf[e]
                \/ entry[e].promise = "fulfilled" /\ got'[e] = got[e]
    <3>1. CASE e \in settled
      <4>1. entry'[e] = twice(e)
        BY <2>1, <3>1
      <4>2. CASE ~Batch!IsSettled(entry[e]) /\ list[first(e)].says = "result"
        BY <2>1, <2>2, <3>1, <4>2
      <4>3. CASE ~(~Batch!IsSettled(entry[e]) /\ list[first(e)].says = "result")
        BY <2>1, <2>3, <2>12, <3>1, <4>1, <4>3
      <4> QED BY <4>2, <4>3
    <3>2. CASE e \notin settled
      BY <2>1, <2>12, <3>2
    <3> QED BY <3>1, <3>2
  <2>13. ASSUME NEW e \in requests PROVE Batch!IsSettled(entry'[e]) \/ passedOver'[e] # {}
    <3>1. e \in Entries
      BY <1>3
    <3>2. CASE e \in settled
      BY <2>1, <2>3, <3>1, <3>2
    <3>3. CASE e \notin settled
      BY <2>1, <2>4, <3>1, <3>3
    <3> QED BY <3>2, <3>3
  <2>14. \A e \in Entries \ requests : entry'[e] = entry[e]
    BY <2>1, <2>7
  <2> QED BY <1>2, <2>8, <2>9, <2>10, <2>11, <2>12, <2>13, <2>14
<1>5. CASE ~(Batch!AcceptsSize(list) /\ Batch!AcceptsIds(list))
  <2>1. /\ entry' = [e \in Entries |-> IF e \in requests THEN Batch!Reject(entry[e]) ELSE entry[e]]
        /\ execution' = [execution EXCEPT ![x] = Batch!Reject(@)]
        /\ got' = got /\ passedOver' = passedOver
    BY <1>1, <1>5 DEF Batch!RefuseResponse, Batch!AbortAllRequests
  <2> QED BY <1>2, <1>3, <2>1, SettlingDeferred
<1> QED BY <1>4, <1>5

(* No step of a batch gives a request another's result.                       *)
LEMMA BatchStep == Batch!Inv /\ [Batch!Next]_(Batch!vars) => Batch!Inv'
<1> SUFFICES ASSUME Batch!Inv, [Batch!Next]_(Batch!vars) PROVE Batch!Inv'
  OBVIOUS
<1> USE DEF Batch!Inv, Batch!EachGetsItsOwn
<1>a. \A t \in Int : Batch!NewDeferred(t, TRUE) \in Batch!Deferred
  BY DEF Batch!NewDeferred, Batch!Deferred, Batch!Settlement
<1>b. /\ \A x \in Executions : execution[x] \in Batch!Deferred
      /\ \A e \in Entries : entry[e] \in Batch!Deferred
      /\ Timeouts \subseteq Int /\ None \notin Batch!Ids
  BY ConstantsAssumption DEF Batch!TypeOK, ConstantsAssumption, Batch!ConstantsOK
<1>1. ASSUME NEW e \in Entries, NEW i \in Batch!Ids, Batch!Add(e, i) PROVE Batch!Inv'
  <2>1. Batch!TypeOK'
    BY <1>1, <1>b DEF Batch!Add, Batch!TypeOK
  <2>2. entry[e].promise # "fulfilled"
    BY <1>1 DEF Batch!Add, Batch!IsSettled
  <2>3. /\ entry' = entry /\ got' = got /\ \A f \in Entries \ {e} : idOf'[f] = idOf[f]
        /\ idOf'[e] # None
    BY <1>1, <1>b DEF Batch!Add, Batch!TypeOK
  <2> QED BY <2>1, <2>2, <2>3 DEF Batch!IsSettled
<1>2. ASSUME NEW x \in Executions, NEW t \in Timeouts, Batch!Execute(x, t) PROVE Batch!Inv'
  BY <1>2, <1>a, <1>b DEF Batch!Execute, Batch!NewExecution, Batch!TypeOK
<1>3. ASSUME NEW x \in Executions, Batch!Response(x) PROVE Batch!Inv'
  <2>1. Batch!TypeOK'
    BY <1>3, Answering DEF Batch!TypeOK
  <2>2. Batch!EachGetsItsOwn'
    BY <1>3, Answering
  <2>3. \A e \in Entries : idOf'[e] = None => ~Batch!IsSettled(entry'[e])
    BY <1>3, Answering DEF Batch!TypeOK
  <2> QED BY <2>1, <2>2, <2>3
<1>4. ASSUME NEW x \in Executions, Batch!SendFails(x) PROVE Batch!Inv'
  BY <1>4, <1>b, SettlingDeferred DEF Batch!SendFails, Batch!TypeOK
<1>5. ASSUME NEW x \in Executions, Batch!Timeout(x) PROVE Batch!Inv'
  BY <1>5, <1>b, SettlingDeferred DEF Batch!Timeout, Batch!AbortAllRequests, Batch!TypeOK
<1>6. CASE UNCHANGED Batch!vars
  BY <1>6 DEF Batch!vars, Batch!TypeOK
<1> QED BY <1>1, <1>2, <1>3, <1>4, <1>5, <1>6 DEF Batch!Next

(* The promises of a batch keep their types, and a request is fulfilled only  *)
(* with the result that has its own id.                                       *)
THEOREM BatchInvariant == Batch!Spec => []Batch!Inv
BY BatchInit, BatchStep, PTL DEF Batch!Spec

(* An execution that settles takes every request with it, unless the provider *)
(* rejected or an accepted response has an element of the same number in      *)
(* place of the request's own; for any ids, requests and executions.          *)
THEOREM BatchLeavesNoRequest == Batch!Spec => Batch!NoRequestLeftBehind
<1> DEFINE Takes == \A x \in Executions :
                      ~Batch!IsSettled(execution[x]) /\ Batch!IsSettled(execution'[x]) /\ x \notin failed' =>
                         \A e \in requests : Batch!IsSettled(entry'[e]) \/ passedOver'[e] # {}
<1>1. Batch!Inv /\ [Batch!Next]_(Batch!vars) => Takes
  <2> SUFFICES ASSUME Batch!TypeOK, [Batch!Next]_(Batch!vars),
                      NEW x \in Executions, ~Batch!IsSettled(execution[x]),
                      Batch!IsSettled(execution'[x]), x \notin failed',
                      NEW e \in requests
               PROVE  Batch!IsSettled(entry'[e]) \/ passedOver'[e] # {}
    BY DEF Batch!Inv
  <2>a. e \in Entries /\ \A y \in Executions : execution[y] \in Batch!Deferred
    BY DEF Batch!TypeOK
  <2>b. \A t : ~Batch!IsSettled(Batch!NewDeferred(t, TRUE))
    BY DEF Batch!NewDeferred, Batch!IsSettled
  <2>1. ASSUME NEW f \in Entries, NEW i \in Batch!Ids, Batch!Add(f, i) PROVE FALSE
    BY <2>1 DEF Batch!Add
  <2>2. ASSUME NEW y \in Executions, NEW t \in Timeouts, Batch!Execute(y, t) PROVE FALSE
    BY <2>2, <2>b DEF Batch!Execute, Batch!NewExecution, Batch!TypeOK
  <2>3. ASSUME NEW y \in Executions, Batch!Response(y)
        PROVE  Batch!IsSettled(entry'[e]) \/ passedOver'[e] # {}
    BY <2>3, Answering
  <2>4. ASSUME NEW y \in Executions, Batch!SendFails(y) PROVE FALSE
    BY <2>4, <2>a DEF Batch!SendFails, Batch!TypeOK
  <2>5. ASSUME NEW y \in Executions, Batch!Timeout(y) PROVE Batch!IsSettled(entry'[e])
    <3>1. entry'[e] = Batch!Reject(entry[e]) /\ entry[e] \in Batch!Deferred
      BY <2>5, <2>a DEF Batch!Timeout, Batch!AbortAllRequests, Batch!TypeOK
    <3> QED BY <3>1, SettlingDeferred
  <2>6. CASE UNCHANGED Batch!vars
    BY <2>6 DEF Batch!vars
  <2> QED BY <2>1, <2>2, <2>3, <2>4, <2>5, <2>6 DEF Batch!Next
<1> QED
  BY <1>1, BatchInvariant, PTL DEF Batch!Spec, Batch!NoRequestLeftBehind

-----------------------------------------------------------------------------
(* Context.                                                                   *)
LEMMA ContextConstants ==
  /\ Root \in Contexts /\ Root \in Parents
  /\ Parents \subseteq Contexts /\ Writers \subseteq Contexts
BY ConstantsAssumption DEF ConstantsAssumption, Ctx!ConstantsOK

(* The root alone exists, and it agrees with itself.                          *)
LEMMA ContextInit == Ctx!Init => Ctx!Inv
<1> SUFFICES ASSUME Ctx!Init PROVE Ctx!Inv
  OBVIOUS
<1>1. \A c \in Contexts : config[c] \in Ctx!Configs /\ config[c].defaultCommon = NoCommon
  BY DEF Ctx!Init
<1>2. \A c \in Contexts : Ctx!RpcSpecOf(config[c]) \in BOOLEAN
  BY <1>1 DEF Ctx!RpcSpecOf, Ctx!Configs, Ctx!Features
<1>3. Ctx!TypeOK
  BY <1>1, <1>2, ContextConstants DEF Ctx!Init, Ctx!TypeOK
<1> QED
  BY <1>1, <1>3, ContextConstants DEF Ctx!Init, Ctx!Inv, Ctx!HearsItsParent, Ctx!OneManager,
     Ctx!ConfigsAgree, Ctx!HardforksMatch, Ctx!Follows

(* A setter changes one option of one configuration, to a value of its type.  *)
LEMMA Setting ==
  ASSUME NEW cfg \in Ctx!Configs, NEW name, NEW v,
         \/ name = "defaultHardfork" /\ v \in Hardforks
         \/ name = "defaultCommon" /\ v \in Hardforks \cup {NoCommon}
         \/ name = "handleRevert" /\ v \in Settings
  PROVE  LET new == [cfg EXCEPT ![name] = v] IN
         /\ new \in Ctx!Configs
         /\ new.defaultHardfork = IF name = "defaultHardfork" THEN v ELSE cfg.defaultHardfork
         /\ new.defaultCommon = IF name = "defaultCommon" THEN v ELSE cfg.defaultCommon
BY DEF Ctx!Configs

(* A context that is made, or linked, takes over what its parent holds.       *)
LEMMA TakingOver ==
  ASSUME Ctx!Inv, NEW p \in made \cap Parents, NEW c \in Contexts,
         c # Root,
         made' = made \cup {c},
         config' = [config EXCEPT ![c] = config[p]],
         manager' = [manager EXCEPT ![c] = manager[p]],
         listeners' = [listeners EXCEPT ![p] = @ \cup {c}],
         UNCHANGED <<providerOf, rpcSpec>>
  PROVE  Ctx!Inv'
<1>1. Ctx!TypeOK'
  BY DEF Ctx!Inv, Ctx!TypeOK
<1>2. p \in Contexts /\ made \subseteq Contexts
  BY ContextConstants DEF Ctx!Inv, Ctx!TypeOK
<1>3. \A q \in Contexts : listeners'[q] = IF q = p THEN listeners[q] \cup {c} ELSE listeners[q]
  BY DEF Ctx!Inv, Ctx!TypeOK
<1>4. Ctx!HearsItsParent'
  BY <1>2, <1>3 DEF Ctx!Inv, Ctx!HearsItsParent
<1>5. /\ \A d \in made \ {c} : manager'[d] = manager[d] /\ config'[d] = config[d]
      /\ manager'[c] = manager[p] /\ config'[c] = config[p]
      /\ Root \in made \ {c}
  BY <1>2 DEF Ctx!Inv, Ctx!TypeOK
<1>6. Ctx!OneManager'
  BY <1>5 DEF Ctx!Inv, Ctx!OneManager
<1>7. ASSUME NEW d \in made', Ctx!Follows(d)' PROVE config'[d] = config[Root]
  <2>1. CASE d = c
    <3>1. p = Root
      BY <1>2, <1>3, <1>7, <2>1 DEF Ctx!Follows
    <3> QED BY <1>5, <2>1, <3>1
  <2>2. CASE d # c
    <3>1. d \in made /\ Ctx!Follows(d)
      BY <1>3, <1>7, <2>2 DEF Ctx!Follows
    <3> QED BY <1>5, <2>2, <3>1 DEF Ctx!Inv, Ctx!ConfigsAgree
  <2> QED BY <2>1, <2>2
<1>8. config[Root].defaultCommon \in {NoCommon, config[Root].defaultHardfork}
  BY DEF Ctx!Inv, Ctx!HardforksMatch, Ctx!Follows
<1>9. Ctx!ConfigsAgree' /\ Ctx!HardforksMatch'
  BY <1>5, <1>7, <1>8 DEF Ctx!ConfigsAgree, Ctx!HardforksMatch
<1> QED BY <1>1, <1>4, <1>5, <1>6, <1>9 DEF Ctx!Inv

(* Every step of a context keeps the invariant.                               *)
LEMMA ContextStep == Ctx!Inv /\ [Ctx!Next]_(Ctx!vars) => Ctx!Inv'
<1> SUFFICES ASSUME Ctx!Inv, [Ctx!Next]_(Ctx!vars) PROVE Ctx!Inv'
  OBVIOUS
<1>a. Ctx!TypeOK /\ Root \in made
  BY DEF Ctx!Inv
<1>1. ASSUME NEW p \in Contexts, NEW c \in Contexts, Ctx!Use(p, c) PROVE Ctx!Inv'
  <2>1. c # Root /\ p \in made \cap Parents
    BY <1>1, <1>a DEF Ctx!Use
  <2> QED BY <1>1, <1>a, <2>1, TakingOver DEF Ctx!Use
<1>2. ASSUME NEW p \in Contexts, NEW c \in Contexts, Ctx!RegisterPlugin(p, c) PROVE Ctx!Inv'
  <2>1. c # Root /\ p \in made \cap Parents
    BY <1>2, <1>a DEF Ctx!RegisterPlugin
  <2> QED BY <1>2, <1>a, <2>1, TakingOver DEF Ctx!RegisterPlugin, Ctx!Link
<1>3. ASSUME NEW p \in Contexts, NEW c \in Contexts, Ctx!Relink(c, p) PROVE Ctx!Inv'
  <2>1. made' = made \cup {c} /\ p \in made \cap Parents /\ c # Root
    BY <1>3, ContextConstants DEF Ctx!Relink
  <2> QED BY <1>3, <2>1, TakingOver DEF Ctx!Relink, Ctx!Link
<1>4. ASSUME NEW c \in Contexts, NEW q \in Providers, Ctx!SetProvider(c, q) PROVE Ctx!Inv'
  BY <1>4 DEF Ctx!SetProvider, Ctx!Inv, Ctx!TypeOK, Ctx!HearsItsParent, Ctx!OneManager,
     Ctx!ConfigsAgree, Ctx!HardforksMatch, Ctx!Follows
<1>5. ASSUME NEW c \in Contexts, NEW name, NEW v, Ctx!Set(c, name, v),
             \/ name = "defaultHardfork" /\ v \in Hardforks
             \/ name = "defaultCommon" /\ v \in Hardforks \cup {NoCommon}
             \/ name = "handleRevert" /\ v \in Settings
      PROVE  Ctx!Inv'
  <2> DEFINE New(cfg) == [cfg EXCEPT ![name] = v]
  <2>1. /\ c \in made \cap Writers /\ Ctx!Consistent(config[c], name, v)
        /\ config' = [d \in Contexts |-> IF d \in {c} \cup listeners[c] THEN New(config[d]) ELSE config[d]]
        /\ UNCHANGED <<made, listeners, manager, providerOf, rpcSpec>>
    BY <1>5 DEF Ctx!Set, Ctx!Reached
  <2>2. \A cfg \in Ctx!Configs :
           /\ New(cfg) \in Ctx!Configs
           /\ New(cfg).defaultHardfork = IF name = "defaultHardfork" THEN v ELSE cfg.defaultHardfork
           /\ New(cfg).defaultCommon = IF name = "defaultCommon" THEN v ELSE cfg.defaultCommon
    BY <1>5, Setting
  <2> HIDE DEF New
  <2>3. Ctx!TypeOK'
    BY <2>1, <2>2, <1>a DEF Ctx!TypeOK
  <2>4. Ctx!HearsItsParent' /\ Ctx!OneManager'
    BY <2>1 DEF Ctx!Inv, Ctx!HearsItsParent, Ctx!OneManager
  <2>5. made \subseteq Contexts /\ Root \in Contexts /\ config[Root] \in Ctx!Configs
    BY <1>a, ContextConstants DEF Ctx!TypeOK
  <2>6. config[Root].defaultCommon \in {NoCommon, config[Root].defaultHardfork}
    BY <1>a DEF Ctx!Inv, Ctx!HardforksMatch, Ctx!Follows
  <2>7. ASSUME NEW d \in made, Ctx!Follows(d)
        PROVE  /\ config[d] = config[Root]
               /\ config'[d] = IF c = Root THEN New(config[Root]) ELSE config[Root]
    <3>1. config[d] = config[Root]
      BY <2>7 DEF Ctx!Inv, Ctx!ConfigsAgree
    <3>2. CASE c = Root
      <4>1. d \in {Root} \cup listeners[Root]
        BY <2>5, <2>7 DEF Ctx!Inv, Ctx!HearsItsParent, Ctx!Follows
      <4> QED BY <2>1, <2>5, <3>1, <3>2, <4>1
    <3>3. CASE c # Root
      <4>1. d \notin {c} \cup listeners[c]
        BY <2>1, <2>5, <2>7, <3>3 DEF Ctx!Inv, Ctx!HearsItsParent, Ctx!Follows
      <4> QED BY <2>1, <2>5, <3>1, <3>3, <4>1
    <3> QED BY <3>1, <3>2, <3>3
  <2>8. Ctx!Follows(Root) /\ \A d : Ctx!Follows(d)' <=> Ctx!Follows(d)
    BY <2>1 DEF Ctx!Follows
  <2>9. Ctx!ConfigsAgree'
    BY <2>1, <2>7, <2>8, <1>a DEF Ctx!ConfigsAgree
  <2>10. config'[Root].defaultCommon \in {NoCommon, config'[Root].defaultHardfork}
    <3>1. CASE c = Root
      <4>1. New(config[Root]).defaultCommon \in {NoCommon, New(config[Root]).defaultHardfork}
        BY <1>5, <2>1, <2>2, <2>5, <2>6, <3>1 DEF Ctx!Consistent
      <4> QED BY <2>7, <2>8, <1>a, <3>1, <4>1
    <3>2. CASE c # Root
      BY <2>6, <2>7, <2>8, <1>a, <3>2
    <3> QED BY <3>1, <3>2
  <2>11. Ctx!HardforksMatch'
    BY <2>9, <2>10 DEF Ctx!ConfigsAgree, Ctx!HardforksMatch
  <2> QED BY <2>1, <2>3, <2>4, <2>9, <2>11, <1>a DEF Ctx!Inv
<1>6. CASE UNCHANGED Ctx!vars
  BY <1>6 DEF Ctx!vars, Ctx!Inv, Ctx!TypeOK, Ctx!HearsItsParent, Ctx!OneManager,
     Ctx!ConfigsAgree, Ctx!HardforksMatch, Ctx!Follows
<1> QED
  BY <1>1, <1>2, <1>3, <1>4, <1>5, <1>6 DEF Ctx!Next

(* All contexts share the root's request manager, and those that follow the   *)
(* root keep its configuration.                                               *)
THEOREM ContextInvariant == Ctx!Spec => []Ctx!Inv
BY ContextInit, ContextStep, PTL DEF Ctx!Spec

-----------------------------------------------------------------------------
(* RequestManager.                                                            *)
(* Nothing is answered yet.                                                   *)
LEMMA ManagerInit == Manager!Init => Manager!Inv
BY DEF Manager!Init, Manager!Inv

(* Neither the provider nor the flags change under way, so the outcome stays  *)
(* the one the answer gives.                                                  *)
LEMMA ManagerStep == Manager!Inv /\ [Manager!Next]_(Manager!vars) => Manager!Inv'
<1> SUFFICES ASSUME Manager!Inv, [Manager!Next]_(Manager!vars) PROVE Manager!Inv'
  OBVIOUS
<1> USE DEF Manager!Inv
<1>a. ASSUME UNCHANGED <<provider, batch, spec>> PROVE Manager!Interface' = Manager!Interface
  BY <1>a DEF Manager!Interface
<1>1. CASE Manager!Unsupported
  BY <1>1, <1>a DEF Manager!Unsupported
<1>2. CASE Manager!Send
  BY <1>2 DEF Manager!Send
<1>3. ASSUME NEW v \in Manager!Values, NEW onError \in BOOLEAN, Manager!PromiseSettles(v, onError)
      PROVE  Manager!Inv'
  <2>1. /\ state' = "answered" /\ answer' = v /\ rejected' = onError
        /\ UNCHANGED <<provider, batch, spec>>
        /\ Manager!Interface # "send" /\ outcome' = Manager!ByPromise(v, onError)
    BY <1>3 DEF Manager!PromiseSettles, Manager!Answered
  <2>2. Manager!ByPromise(answer, rejected)' = Manager!ByPromise(v, onError)
    BY SMTT(40), <2>1, <1>a DEF Manager!ByPromise, Manager!Finish, Manager!Caught, Manager!Process, Manager!ErrorThrown
  <2> QED BY <2>1, <2>2, <1>a DEF Manager!FromPromise
<1>4. ASSUME NEW v \in Manager!Values, NEW onError \in BOOLEAN, NEW late \in BOOLEAN,
             Manager!CallbackCalled(v, onError, late)
      PROVE  Manager!Inv'
  <2>1. /\ state' = "answered" /\ answer' = v /\ rejected' = onError
        /\ UNCHANGED <<provider, batch, spec>>
        /\ Manager!Interface \in {"request", "send"} /\ outcome' = Manager!ByCallback(v, onError, late)
        /\ onError => v # Manager!Nullish
        /\ late => LateCallbacks
    BY <1>4 DEF Manager!CallbackCalled, Manager!Answered
  <2>2. Manager!ByCallback(answer, rejected, late)' = Manager!ByCallback(v, onError, late)
    BY SMTT(40), <2>1, <1>a DEF Manager!ByCallback, Manager!Finish, Manager!Caught, Manager!Process, Manager!ErrorThrown
  <2> QED BY <2>1, <2>2, <1>a DEF Manager!FromCallback
<1>5. CASE UNCHANGED Manager!vars
  <2>1. UNCHANGED <<provider, batch, spec, state, answer, rejected, outcome>>
    BY <1>5 DEF Manager!vars
  <2>2. Manager!ByPromise(answer, rejected)' = Manager!ByPromise(answer, rejected)
    BY SMTT(40), <2>1, <1>a DEF Manager!ByPromise, Manager!Finish, Manager!Caught, Manager!Process,
       Manager!ErrorThrown
  <2>3. ASSUME NEW late \in BOOLEAN
        PROVE  Manager!ByCallback(answer, rejected, late)' = Manager!ByCallback(answer, rejected, late)
    BY SMTT(40), <2>1, <1>a DEF Manager!ByCallback, Manager!Finish, Manager!Caught, Manager!Process,
       Manager!ErrorThrown
  <2> QED BY <2>1, <2>2, <2>3, <1>a DEF Manager!FromPromise, Manager!FromCallback
<1> QED BY <1>1, <1>2, <1>3, <1>4, <1>5 DEF Manager!Next

(* A value that is a response with an error makes every path throw, and what  *)
(* it throws is the error that _processJsonRpcResponse() names.               *)
LEMMA ErrorsThrow ==
  ASSUME NEW v, Manager!IsResponseWithError(v), NEW legacy, NEW onError
  PROVE  /\ v # Manager!Nullish /\ Manager!IsJsonRpcResponse(v)
         /\ Manager!Process(v, legacy, onError) = Manager!Throw(Manager!ErrorThrown(v))
         /\ Manager!Caught(v, legacy, onError) = Manager!Throw(Manager!ErrorThrown(v))
<1>1. v # Manager!Nullish
  BY DEF Manager!IsResponseWithError, Manager!Nullish
<1> QED
  BY <1>1 DEF Manager!IsJsonRpcResponse, Manager!Process, Manager!Caught

(* A function that throws rejects the promise of the caller.                  *)
LEMMA ThrowingRejects ==
  ASSUME NEW what
  PROVE  /\ Manager!Throw(what).ends = "throws"
         /\ Manager!Throw(what).with = Manager!Error(what)
         /\ Manager!Finish(Manager!Throw(what)) = Manager!Settled("rejected", Manager!Error(what))
         /\ Manager!Finish(Manager!Throw(what)).how = "rejected"
BY DEF Manager!Throw, Manager!Finish, Manager!Settled

(* So the caller gets that error, or hears nothing if a callback came late.   *)
LEMMA ErrorsEnd ==
  ASSUME Manager!Inv, state = "answered", Manager!IsResponseWithError(answer)
  PROVE  outcome \in {Manager!Settled("rejected", Manager!Error(Manager!ErrorThrown(answer))),
                      Manager!Settled("pending", Manager!Error(Manager!ErrorThrown(answer)))}
<1> DEFINE end == Manager!Throw(Manager!ErrorThrown(answer))
<1>1. /\ end.ends = "throws" /\ end.with = Manager!Error(Manager!ErrorThrown(answer))
      /\ Manager!Finish(end) = Manager!Settled("rejected", Manager!Error(Manager!ErrorThrown(answer)))
  BY ThrowingRejects
<1>2. /\ answer # Manager!Nullish /\ Manager!IsJsonRpcResponse(answer)
      /\ \A legacy, onError : /\ Manager!Process(answer, legacy, onError) = end
                              /\ Manager!Caught(answer, legacy, onError) = end
  BY ErrorsThrow
<1> HIDE DEF end
<1>3. CASE Manager!FromPromise
  BY <1>1, <1>2, <1>3 DEF Manager!FromPromise, Manager!ByPromise
<1>4. CASE Manager!FromCallback
  BY <1>1, <1>2, <1>4 DEF Manager!FromCallback, Manager!ByCallback
<1> QED BY <1>2, <1>3, <1>4 DEF Manager!Inv

(* The interface of this library's own providers takes no response with an    *)
(* error member for a bare result.                                            *)
LEMMA OwnInterfaceRefuses ==
  ASSUME Manager!HasError(answer), ~batch, Manager!Interface = "web3", NEW onError
  PROVE  Manager!ByPromise(answer, onError).how = "rejected"
<1>1. CASE Manager!IsResponseWithError(answer)
  <2>1. /\ Manager!Process(answer, FALSE, FALSE) = Manager!Throw(Manager!ErrorThrown(answer))
        /\ Manager!Caught(answer, FALSE, FALSE) = Manager!Throw(Manager!ErrorThrown(answer))
    BY <1>1, ErrorsThrow
  <2> QED
    BY <2>1, ThrowingRejects DEF Manager!ByPromise
<1>2. CASE ~Manager!IsResponseWithError(answer)
  <2>1. /\ answer # Manager!Nullish /\ ~Manager!IsResponseWithResult(answer)
        /\ ~Manager!IsBatchResponse(answer) /\ answer.shape # "error"
        /\ ~Manager!IsJsonRpcResponse(answer)
    BY <1>2 DEF Manager!HasError, Manager!RpcErrors, Manager!Nullish, Manager!IsResponseWithResult,
       Manager!IsBatchResponse, Manager!IsJsonRpcResponse
  <2>2. /\ Manager!Process(answer, FALSE, FALSE) = Manager!Throw("ResponseError")
        /\ Manager!Caught(answer, FALSE, FALSE) = Manager!Throw(Manager!NonJsonRpcError(answer))
    BY <1>2, <2>1 DEF Manager!Process, Manager!Caught
  <2> QED
    BY <2>2, ThrowingRejects DEF Manager!ByPromise
<1> QED BY <1>1, <1>2

(* Both parts of ErrorsSurface follow.                                        *)
LEMMA ErrorsSurfaceNow ==
  ASSUME Manager!Inv
  PROVE  Manager!ErrorResponsesNeverResolve /\ Manager!RevertsAreRecognised
<1>1. Manager!ErrorResponsesNeverResolve
  <2> SUFFICES ASSUME ~batch, outcome.how = "resolved", Manager!HasError(answer)
               PROVE  Manager!Interface # "web3" /\ ~Manager!IsResponseWithError(answer)
    BY DEF Manager!ErrorResponsesNeverResolve
  <2>1. state = "answered" /\ answer # Manager!Nullish
    BY DEF Manager!Inv, Manager!Settled, Manager!HasError, Manager!Nullish
  <2>2. ~Manager!IsResponseWithError(answer)
    BY <2>1, ErrorsEnd DEF Manager!Settled
  <2>3. ASSUME Manager!Interface = "web3" PROVE FALSE
    <3>1. outcome = Manager!ByPromise(answer, rejected)
      BY <2>1, <2>3 DEF Manager!Inv, Manager!FromPromise, Manager!FromCallback
    <3> QED BY <2>3, <3>1, OwnInterfaceRefuses
  <2> QED BY <2>2, <2>3
<1>2. Manager!RevertsAreRecognised
  <2> SUFFICES ASSUME state = "answered", outcome.how # "pending",
                      Manager!IsResponseWithError(answer),
                      answer.error \in IF spec THEN {"revert"} ELSE {"revert", "rpcRevert"}
               PROVE  /\ outcome.how = "rejected"
                      /\ outcome.with = Manager!Error("ContractExecutionError")
    BY DEF Manager!RevertsAreRecognised
  <2>1. Manager!ErrorThrown(answer) = "ContractExecutionError"
    BY DEF Manager!ErrorThrown
  <2> QED BY <2>1, ErrorsEnd DEF Manager!Settled
<1> QED BY <1>1, <1>2

(* What the caller of send() got is what the functions of the request manager *)
(* make of the answer, for the interface picked when it was sent.             *)
THEOREM ManagerInvariant == Manager!Spec => []Manager!Inv
BY ManagerInit, ManagerStep, PTL DEF Manager!Spec

-----------------------------------------------------------------------------
(* The composition: a step of one component leaves the others alone, so each  *)
(* component runs as its own specification says.                              *)
LEMMA Components ==
  MCSpec => Http!Spec /\ Batch!Spec /\ Ctx!Spec /\ Manager!Spec
<1>1. MCInit => Http!Init /\ Batch!Init /\ Ctx!Init /\ Manager!Init
  BY DEF MCInit
<1>2. [MCNext]_mcVars => /\ [Http!Next]_(Http!vars) /\ [Batch!Next]_(Batch!vars)
                        /\ [Ctx!Next]_(Ctx!vars) /\ [Manager!Next]_(Manager!vars)
  BY DEF MCNext, mcVars, httpVars, batchVars, contextVars, managerVars,
     Http!vars, Batch!vars, Ctx!vars, Manager!vars
<1> QED
  BY <1>1, <1>2, PTL DEF MCSpec, Http!Spec, Batch!Spec, Ctx!Spec, Manager!Spec

(* The invariants of the four components hold together.                       *)
THEOREM RequestsInvariant == MCSpec => []Inv
BY Components, HttpInvariant, BatchInvariant, ContextInvariant, ManagerInvariant, PTL DEF Inv

(* An answer with an error never resolves send(), and a revert is recognised, *)
(* on every interface, for every provider and with late callbacks.            *)
THEOREM ErrorsAlwaysSurface == MCSpec => []ErrorsSurface
<1>1. Manager!Inv => ErrorsSurface
  BY ErrorsSurfaceNow DEF ErrorsSurface
<1> QED BY <1>1, Components, ManagerInvariant, PTL

(* A request of a batch is fulfilled only with the result that has its own    *)
(* id; for any ids, requests and executions, and responses in any order.      *)
THEOREM BatchGivesEachItsOwn == MCSpec => []EachGetsItsOwn
<1>1. Batch!Inv => EachGetsItsOwn
  BY DEF Batch!Inv, EachGetsItsOwn
<1> QED BY <1>1, Components, BatchInvariant, PTL

(* An execution that settles leaves no request pending, but for those a       *)
(* response has a look-alike for.                                             *)
THEOREM NoneLeftBehind == MCSpec => NoRequestLeftBehind
BY Components, BatchLeavesNoRequest, PTL DEF NoRequestLeftBehind

(* The caller of the HTTP provider sees its own reason.                       *)
THEOREM CauseIsNamed == MCSpec => ErrorNamesCause
BY Components, CallerSeesItsReason, PTL DEF ErrorNamesCause

(* However many contexts there are, whichever they are linked to and whose    *)
(* setters are called: all share one provider, and a context that is linked   *)
(* to the root only and not written to itself has the root's configuration.   *)
THEOREM AllContextsAgree == MCSpec => []ContextsAgree
<1>1. Ctx!Inv => ContextsAgree
  BY DEF Ctx!Inv, ContextsAgree, Ctx!OneManager, Ctx!ProvidersAgree
<1> QED BY <1>1, Components, ContextInvariant, PTL
=============================================================================
