--------------------------- MODULE DeferredPromise ---------------------------
(* Web3DeferredPromise as a value: the promise it wraps, which settles once   *)
(* and for good, the `state' field the class keeps beside it, its timeout and *)
(* whether the timer of it is pending.                                        *)
EXTENDS Integers

Settlement == {"pending", "fulfilled", "rejected"}
Deferred == [promise : Settlement, state : Settlement, timer : BOOLEAN, timeout : Int]

(* new Web3DeferredPromise({timeout, eagerStart}): startTimer() arms a timer  *)
(* for a positive interval only.                                              *)
NewDeferred(timeout, eagerStart) ==
    [promise |-> "pending", state |-> "pending",
     timer |-> eagerStart /\ timeout > 0, timeout |-> timeout]

(* The executor's resolve/reject act on a pending promise only; the state     *)
(* field is overwritten and the timer cleared in any case.                    *)
SettleAs(d, how) ==
    [d EXCEPT !.promise = IF @ = "pending" THEN how ELSE @, !.state = how, !.timer = FALSE]

Resolve(d) == SettleAs(d, "fulfilled")
Reject(d)  == SettleAs(d, "rejected")

(* _checkTimeout() rejects only while the state field says pending.           *)
TimesOut(d) == d.timer /\ d.state = "pending"

IsSettled(d) == d.promise # "pending"
=============================================================================
