----------------------------- MODULE FullWrite -----------------------------
(***************************************************************************)
(* full_write() of lib/io.c, called again and again by one process, which  *)
(* is how virus_driver() sends its reports.  A byte of a buffer is known   *)
(* by its position; write() may be interrupted before or after it wrote    *)
(* something, and may fail for good.                                       *)
(***************************************************************************)
EXTENDS Integers, Sequences, SequencesExt

CONSTANTS
    EINTR,          \* the error number the return value is compared with
    MaxTries,       \* "not forever"
    Lengths,        \* the sizes of the buffers to write
    MaxCalls,       \* bound: calls of full_write
    MaxErrors       \* bound: interrupted, short and failed writes

ASSUME FullWriteAssumption ==
    /\ EINTR \in Nat \ {0} /\ MaxTries \in Nat
    /\ Lengths \subseteq Nat
    /\ MaxCalls \in Nat /\ MaxErrors \in Nat

VARIABLES
    pc,         \* "idle", "loop", or "returned"
    size,       \* the len of the call
    len,        \* what is left of it
    total,
    tries,      \* static: it is never set back
    ret,        \* what the last call returned
    stream,     \* history: the bytes of this call that reached the fd
    sent,       \* history: bytes that reached the fd since the process began
    counted,    \* history: bytes that its calls counted as written
    calls, errors

vars == <<pc, size, len, total, tries, ret, stream, sent, counted,
          calls, errors>>

Init ==
    /\ pc = "idle"
    /\ size = 0 /\ len = 0 /\ total = 0
    /\ tries = 0
    /\ ret = 0
    /\ stream = <<>>
    /\ sent = 0 /\ counted = 0
    /\ calls = 0 /\ errors = 0

\* Faulty variant: the tries begin anew in each call.
CallAnew(n) ==
    /\ pc = "idle" /\ calls < MaxCalls
    /\ pc' = "loop"
    /\ size' = n /\ len' = n
    /\ total' = 0 /\ tries' = 0
    /\ stream' = <<>>
    /\ calls' = calls + 1
    /\ UNCHANGED <<ret, sent, counted, errors>>

Call(n) ==
    /\ pc = "idle" /\ calls < MaxCalls
    /\ pc' = "loop"
    /\ size' = n /\ len' = n
    /\ total' = 0
    /\ stream' = <<>>
    /\ calls' = calls + 1
    /\ UNCHANGED <<tries, ret, sent, counted, errors>>

\* Faulty variant: the buffer is written from its start each time.
PieceFromStart(cc) == [b \in 1 .. cc |-> b]

Piece(cc) == [b \in 1 .. cc |-> size - len + b]

\* What the code takes for an interrupted write().
Retry(cc) == cc = EINTR /\ tries < MaxTries

\* write() wrote cc bytes, starting at the first that was not yet counted.
Wrote(cc) ==
    /\ pc = "loop" /\ len # 0 /\ cc \in 1 .. len
    /\ cc < len => errors < MaxErrors
    /\ errors' = IF cc < len THEN errors + 1 ELSE errors
    /\ stream' = stream \o Piece(cc)
    /\ sent' = sent + cc
    /\ IF Retry(cc)
       THEN /\ tries' = tries + 1
            /\ UNCHANGED <<total, len, counted>>
       ELSE /\ total' = total + cc /\ len' = len - cc
            /\ counted' = counted + cc
            /\ UNCHANGED tries
    /\ UNCHANGED <<pc, size, ret, calls>>

\* write() returned -1, for a signal or for an error.
Failed ==
    /\ pc = "loop" /\ len # 0 /\ errors < MaxErrors
    /\ errors' = errors + 1
    /\ ret' = IF total # 0 THEN total ELSE -1
    /\ pc' = "returned"
    /\ UNCHANGED <<size, len, total, tries, stream, sent, counted, calls>>

Done ==
    /\ pc = "loop" /\ len = 0
    /\ ret' = total
    /\ pc' = "returned"
    /\ UNCHANGED <<size, len, total, tries, stream, sent, counted, calls,
                   errors>>

Resume ==
    /\ pc = "returned"
    /\ pc' = "idle"
    /\ UNCHANGED <<size, len, total, tries, ret, stream, sent, counted,
                   calls, errors>>

Terminated == pc = "idle" /\ calls = MaxCalls /\ UNCHANGED vars

Next ==
    \/ \E n \in Lengths : Call(n)
    \/ \E cc \in 1 .. len : Wrote(cc)
    \/ Failed
    \/ Done
    \/ Resume
    \/ Terminated

Spec == Init /\ [][Next]_vars

(***************************************************************************)
(* Properties.                                                             *)
(***************************************************************************)

\* Every byte that is counted was sent, and while no write was taken for an
\* interrupted one, the stream is the counted part of the buffer.
CountedBytesAreSent ==
    /\ total = size - len
    /\ 1 .. total \subseteq Range(stream)
    /\ tries = 0 => stream = [b \in 1 .. total |-> b]

\* What all calls of a process together sent twice is bounded, because
\* tries is static and never set back: of all the bytes that reached the fd
\* since the process began, at most MaxTries pieces of EINTR bytes were not
\* counted by the call that sent them, in however many calls.
ResentIsBounded == sent <= counted + MaxTries * EINTR

\* "Write *all* of the supplied buffer": a call that returns the size of
\* its buffer has sent its bytes once each, in order.
StreamIsBuffer ==
    pc = "returned" /\ ret = size => stream = [b \in 1 .. size |-> b]
=============================================================================
