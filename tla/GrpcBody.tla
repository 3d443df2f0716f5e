------------------------------ MODULE GrpcBody ------------------------------
(***************************************************************************)
(* One request over the gRPC tunnel: session.Do and the pull-based         *)
(* bodyReader on the hub (internal/tunnel/grpctun/session.go) against      *)
(* spokeServer.Proxy and streamBody on the spoke (server.go), with a       *)
(* reader, a second goroutine that closes the body, a caller that cancels  *)
(* and a session that closes under them.                                   *)
(***************************************************************************)
EXTENDS Integers, Sequences, TLAPS

CONSTANTS
  Budget,    \* Request.MaxResponseBytes
  MaxLen,    \* longest upstream body
  Chunk,     \* chunkBytes
  ReadSize,  \* len(p) of the reader
  Window,    \* chunks in flight before flow control stops the spoke
  Honest     \* the spoke enforces the budget as streamBody does

GrpcBodyConstants ==
  /\ {Budget, MaxLen, Chunk, ReadSize, Window} \subseteq Nat \ {0} /\ Honest \in BOOLEAN

VARIABLES
  len, fate,      \* the upstream body: its length, and how it ends
  spoke,          \* Proxy: "do", "stream", "trail", "done"
  sent,           \* bytes streamBody has sent
  truncated,      \* what streamBody learned by its probe
  broke,          \* copyErr: the upstream read failed
  wire,           \* chunks on their way
  status,         \* the final status of the RPC, "none" until the spoke returns
  streamCancelled,\* streamCtx: the hub reset the stream
  caller,         \* the caller's context is done
  session,        \* "live", "cancelled" (Close began) or "done"
  do,             \* session.Do: "new", "waiting", "returned" or "failed"
  reader,         \* Read: "idle", "recv" or "drain" (it holds mu in both)
  pending, received, finished, term, trail,
  closing,        \* bodyReader.closing
  closer,         \* Close: "idle", "raised", "aborted" or "done"
  inflight,       \* session.inflight
  got             \* bytes the reader was given

body == <<pending, received, finished, term, trail>>
spokeSide == <<spoke, sent, truncated, broke>>
vars == <<len, fate, spokeSide, wire, status, streamCancelled, caller, session, do, reader, body,
          closing, closer, inflight, got>>

NoTrail == [bytes |-> 0, truncated |-> FALSE, err |-> FALSE]

Init ==
  /\ len \in 0 .. MaxLen /\ fate \in {"whole", "broken", "cut"}
  /\ spoke = "do" /\ sent = 0 /\ truncated = FALSE /\ broke = FALSE
  /\ wire = <<>> /\ status = "none" /\ streamCancelled = FALSE
  /\ caller = FALSE /\ session = "live" /\ do = "new" /\ reader = "idle"
  /\ pending = 0 /\ received = 0 /\ finished = FALSE /\ term = "none" /\ trail = NoTrail
  /\ closing = FALSE /\ closer = "idle" /\ inflight = 0 /\ got = 0

-----------------------------------------------------------------------------
(* The spoke *)

head == [kind |-> "head"]
(* n bytes, and where in the body they begin (history). *)
data(n) == [kind |-> "data", n |-> n, at |-> sent]
Trail(t, e) == [kind |-> "trail", bytes |-> sent, truncated |-> t, err |-> e]

Send(chunk) == ~streamCancelled /\ Len(wire) < Window /\ wire' = Append(wire, chunk)

(* codeFor: a cancelled request answers Canceled, a refused one Unavailable. *)
codeFor == IF streamCancelled THEN "Canceled" ELSE "Unavailable"

(* The handler answers with a body, whose head is sent, or with an error. *)
HandlerAnswers ==
  /\ spoke = "do" /\ do # "new"
  /\ \/ Send(head) /\ spoke' = "stream" /\ UNCHANGED status
     \/ status' = codeFor /\ spoke' = "done" /\ UNCHANGED wire
  /\ UNCHANGED <<len, fate, sent, truncated, broke, streamCancelled, caller, session, do, reader, body,
                 closing, closer, inflight, got>>

remaining == IF Honest THEN Budget - sent ELSE MaxLen - sent

(* streamBody: a chunk of what the budget still allows, ... *)
StreamChunk ==
  /\ spoke = "stream" /\ remaining > 0 /\ sent < len
  /\ \E n \in 1 .. Chunk :
       /\ n <= remaining /\ sent + n <= len
       /\ Send(data(n)) /\ sent' = sent + n
  /\ UNCHANGED <<len, fate, spoke, truncated, broke, status, streamCancelled, caller, session, do,
                 reader, body, closing, closer, inflight, got>>

(* ... then the end of the body, a failed read, or one byte too many. *)

StreamEnd ==
  /\ spoke = "stream" /\ (sent = len \/ remaining <= 0)
  /\ spoke' = "trail"
  /\ truncated' = (sent < len)
  /\ broke' = (sent = len /\ fate = "broken")
  /\ UNCHANGED <<len, fate, sent, wire, status, streamCancelled, caller, session, do, reader, body,
                 closing, closer, inflight, got>>

(* The trailer, with what the handler's own trailer adds; the RPC ends. *)
SendTrail ==
  /\ spoke = "trail"
  /\ Send(Trail(truncated \/ fate = "cut", broke)) /\ status' = "OK" /\ spoke' = "done"
  /\ UNCHANGED <<len, fate, sent, truncated, broke, streamCancelled, caller, session, do, reader, body,
                 closing, closer, inflight, got>>

(* A reset stream ends the call with the error of its context, no trailer. *)
SpokeCancelled ==
  /\ spoke \in {"do", "stream", "trail"} /\ do # "new" /\ streamCancelled
  /\ status' = "Canceled" /\ spoke' = "done"
  /\ UNCHANGED <<len, fate, sent, truncated, broke, wire, streamCancelled, caller, session, do, reader,
                 body, closing, closer, inflight, got>>

(* The connection goes: whatever was not received never will be. *)
TransportDies ==
  /\ status = "none" /\ do # "new" /\ status' = "Unavailable" /\ wire' = <<>> /\ spoke' = "done"
  /\ UNCHANGED <<len, fate, sent, truncated, broke, streamCancelled, caller, session, do, reader, body,
                 closing, closer, inflight, got>>

-----------------------------------------------------------------------------
(* The hub *)

(* mapErr: the caller's own cancellation, then the session's end, then the  *)
(* status.                                                                  *)
mapErr(code) ==
  CASE caller -> "context"
    [] ~caller /\ session = "done" -> "sessionClosed"
    [] OTHER -> IF code = "Unavailable" THEN "sessionClosed" ELSE "context"

(* Recv has an answer: a chunk, the end of the stream, or its cancellation. *)
RecvChunk == wire # <<>> /\ wire' = Tail(wire)
RecvEOF == wire = <<>> /\ status = "OK"
RecvFails(code) ==
  \/ streamCancelled /\ code = "Canceled"
  \/ wire = <<>> /\ status = code /\ code \in {"Canceled", "Unavailable"}

cleanup == streamCancelled' = TRUE

(* Do refuses a closed session, opens the stream, ... *)
DoBegins ==
  /\ do = "new" /\ do' = IF session = "done" THEN "failed" ELSE "waiting"
  /\ UNCHANGED <<len, fate, spokeSide, wire, status, streamCancelled, caller, session, reader, body,
                 closing, closer, inflight, got>>

(* ... waits for the head and hands out the body. *)
DoReturns ==
  /\ do = "waiting"
  /\ \/ /\ RecvChunk /\ Head(wire).kind = "head"
        /\ do' = "returned" /\ inflight' = inflight + 1
        /\ UNCHANGED <<streamCancelled, status>>
     \/ /\ \/ RecvEOF
           \/ \E code \in {"Canceled", "Unavailable"} : RecvFails(code)
        /\ do' = "failed" /\ cleanup /\ UNCHANGED <<wire, status, inflight>>
  /\ UNCHANGED <<len, fate, spokeSide, caller, session, reader, body, closing, closer, got>>

(* finish latches the outcome, cancels the stream and gives the slot back.  *)
finish(err) ==
  /\ finished' = TRUE /\ term' = err
  /\ cleanup /\ inflight' = IF finished THEN inflight ELSE inflight - 1

Min(a, b) == IF a < b THEN a ELSE b

(* Read under mu: what is pending first, then the latched outcome, then it  *)
(* waits in Recv.                                                           *)
ReadBegin ==
  /\ do = "returned" /\ reader = "idle"
  /\ \/ /\ pending > 0
        /\ got' = got + Min(ReadSize, pending) /\ pending' = pending - Min(ReadSize, pending)
        /\ UNCHANGED reader
     \/ pending = 0 /\ ~finished /\ reader' = "recv" /\ UNCHANGED <<got, pending>>
  /\ UNCHANGED <<len, fate, spokeSide, wire, status, streamCancelled, caller, session, do, received,
                 finished, term, trail, closing, closer, inflight>>

(* The bytes just received go to the reader before the lock is released. *)
Hand(n) == got' = got + Min(ReadSize, n) /\ pending' = n - Min(ReadSize, n) /\ reader' = "idle"

(* A data chunk within the budget, or the part of it that fits and the end. *)
PullData(n) ==
  IF n > Budget - received
  THEN /\ Hand(Budget - received) /\ received' = Budget
       /\ trail' = [trail EXCEPT !.bytes = Budget, !.truncated = TRUE]
       /\ finish("tooLarge")
  ELSE /\ Hand(n) /\ received' = received + n
       /\ UNCHANGED <<finished, term, trail, inflight, streamCancelled>>

(* absorbTrail keeps the trailer and goes on to drain the final status. *)
PullTrail(t) ==
  /\ trail' = [bytes |-> t.bytes, truncated |-> t.truncated, err |-> t.err]
  /\ reader' = "drain"
  /\ UNCHANGED <<pending, received, finished, term, inflight, streamCancelled, got>>

Pull ==
  /\ reader = "recv" /\ RecvChunk
  /\ LET chunk == Head(wire) IN
       \/ chunk.kind = "data" /\ PullData(chunk.n)
       \/ chunk.kind = "trail" /\ PullTrail(chunk)
  /\ UNCHANGED <<len, fate, spokeSide, status, caller, session, do, closing, closer>>

(* Recv failed: the closer's doing, a stream without trailer, or the cause. *)
PullFails ==
  /\ reader = "recv"
  /\ \/ RecvEOF /\ finish(IF closing THEN "closed" ELSE "protocol")
     \/ \E code \in {"Canceled", "Unavailable"} :
          RecvFails(code) /\ finish(IF closing THEN "closed" ELSE mapErr(code))
  /\ trail' = [trail EXCEPT !.bytes = received]
  /\ reader' = "idle"
  /\ UNCHANGED <<len, fate, spokeSide, wire, status, caller, session, do, pending, received, closing,
                 closer, got>>

(* The trailer decides how the body ends; only a clean one may still fail   *)
(* on the final status.                                                     *)
absorbTrail(e) ==
  CASE trail.err -> "upstream"
    [] ~trail.err /\ trail.truncated -> "tooLarge"
    [] OTHER -> e

Drain ==
  /\ reader = "drain"
  /\ \/ RecvEOF /\ finish(absorbTrail("eof"))
     \/ \E code \in {"Canceled", "Unavailable"} : RecvFails(code) /\ finish(absorbTrail(mapErr(code)))
  /\ reader' = "idle"
  /\ UNCHANGED <<len, fate, spokeSide, wire, status, caller, session, do, pending, received, trail,
                 closing, closer, got>>

(* Close: raise the flag, cancel the stream, and only then take the lock.   *)
CloseRaise ==
  /\ do = "returned" /\ closer = "idle"
  /\ closing' = TRUE /\ closer' = "raised"
  /\ UNCHANGED <<len, fate, spokeSide, wire, status, streamCancelled, caller, session, do, reader, body,
                 inflight, got>>

CloseLockFirst ==
  /\ closer = "raised" /\ closer' = "aborted"
  /\ UNCHANGED <<len, fate, spokeSide, wire, status, streamCancelled, caller, session, do, reader, body,
                 closing, inflight, got>>

CloseAbort ==
  /\ closer = "raised" /\ cleanup /\ closer' = "aborted"
  /\ UNCHANGED <<len, fate, spokeSide, wire, status, caller, session, do, reader, body, closing,
                 inflight, got>>

CloseLock ==
  /\ closer = "aborted" /\ reader = "idle"
  /\ closer' = "done" /\ pending' = 0
  /\ IF finished THEN UNCHANGED <<finished, term, streamCancelled, inflight, trail>>
     ELSE finish("closed") /\ trail' = [trail EXCEPT !.bytes = received]
  /\ UNCHANGED <<len, fate, spokeSide, wire, status, caller, session, do, reader, received, closing, got>>

(* The caller gives up; the session closes: its context first, done last.   *)
CallerCancels ==
  /\ ~caller /\ caller' = TRUE /\ streamCancelled' = TRUE
  /\ UNCHANGED <<len, fate, spokeSide, wire, status, session, do, reader, body, closing, closer,
                 inflight, got>>

SessionCloses ==
  /\ \/ session = "live" /\ session' = "cancelled" /\ streamCancelled' = TRUE
     \/ session = "cancelled" /\ session' = "done" /\ UNCHANGED streamCancelled
  /\ UNCHANGED <<len, fate, spokeSide, wire, status, caller, do, reader, body, closing, closer,
                 inflight, got>>

-----------------------------------------------------------------------------
SpokeSteps == HandlerAnswers \/ StreamChunk \/ StreamEnd \/ SendTrail \/ TransportDies
ReadSteps == Pull \/ PullFails \/ Drain
CloseSteps == CloseAbort \/ CloseLock

Next == DoBegins \/ DoReturns \/ SpokeSteps \/ SpokeCancelled \/ ReadBegin \/ ReadSteps \/ CloseRaise \/ CloseSteps
        \/ CallerCancels \/ SessionCloses

Spec == Init /\ [][Next]_vars

-----------------------------------------------------------------------------
Terms == {"none", "eof", "tooLarge", "closed", "protocol", "context", "sessionClosed", "upstream"}

TypeOK ==
  /\ {pending, received, got} \subseteq 0 .. Budget /\ sent \in 0 .. MaxLen /\ term \in Terms
  /\ finished \in BOOLEAN /\ (finished <=> term # "none") /\ inflight \in {0, 1}
  /\ reader \in {"idle", "recv", "drain"} /\ closer \in {"idle", "raised", "aborted", "done"}

(* What Read reports, once and for good. *)
Outcome ==
  CASE term = "none" -> "open"
    [] term \in {"eof", "tooLarge", "closed"} -> term
    [] OTHER -> "failed"

(* The reader keeps the contract of tunnel.Response.Body against a spoke    *)
(* that breaks off, truncates or sends too much, and against Close, a       *)
(* cancelled caller and a closing session at any moment.                    *)
Contract == INSTANCE BodyContract WITH outcome <- Outcome

(* "Too large" is reported behind exactly the budget, and io.EOF behind     *)
(* every byte of the body, with a trailer that counts them.                 *)
WholeOrExact ==
  finished /\ closer # "done" =>
    /\ term = "tooLarge" /\ fate # "cut" => got + pending = Budget /\ trail.truncated
    /\ term = "eof" => got + pending = len /\ trail.bytes = len

(* An open body counts once in session.inflight; a finished one not at all. *)
InflightSettles == inflight = IF do = "returned" /\ ~finished THEN 1 ELSE 0

Closing == closer = "raised"
Closed == closer = "done"
Abandoned == Closed \/ caller \/ session # "live"
SpokeDone == spoke = "done"

-----------------------------------------------------------------------------
(* Proofs, for every budget, body, chunk, buffer and window.                *)

Chunks ==
  {head} \cup [kind : {"data"}, n : Nat, at : Nat]
         \cup [kind : {"trail"}, bytes : Nat, truncated : BOOLEAN, err : BOOLEAN]

(* The stretch of the body a chunk stands for. *)
From(chunk) ==
  CASE chunk.kind = "data" -> chunk.at [] chunk.kind = "trail" -> chunk.bytes [] OTHER -> 0
To(chunk) ==
  CASE chunk.kind = "data" -> chunk.at + chunk.n [] chunk.kind = "trail" -> chunk.bytes
    [] OTHER -> 0

Types ==
  /\ len \in Nat /\ len <= MaxLen /\ fate \in {"whole", "broken", "cut"}
  /\ spoke \in {"do", "stream", "trail", "done"} /\ sent \in Nat
  /\ truncated \in BOOLEAN /\ broke \in BOOLEAN /\ wire \in Seq(Chunks)
  /\ do \in {"new", "waiting", "returned", "failed"} /\ reader \in {"idle", "recv", "drain"}
  /\ pending \in Nat /\ received \in Nat /\ got \in Nat /\ inflight \in Nat
  /\ finished \in BOOLEAN /\ term \in Terms
  /\ trail \in [bytes : Nat, truncated : BOOLEAN, err : BOOLEAN]
  /\ closer \in {"idle", "raised", "aborted", "done"}

(* streamBody came to the end of the body or of the budget. *)
Through == sent = len \/ remaining <= 0

(* The spoke sends no more than there is, nor, when honest, than it may. *)
Sends ==
  /\ sent <= len /\ (Honest => sent <= Budget)
  /\ spoke = "do" => wire = <<>> /\ sent = 0
  /\ do = "new" => spoke = "do"
  /\ do = "returned" => spoke # "do"
  /\ spoke = "trail" =>
       /\ Through /\ (truncated <=> sent < len) /\ (broke <=> sent = len /\ fate = "broken")

(* While the body is open, the chunks on the wire are the stretches of it   *)
(* between what was received and what was sent, none lost or out of order.  *)
InOrder ==
  ~finished =>
    /\ wire # <<>> => From(wire[1]) = received
    /\ \A i \in 1 .. Len(wire) - 1 : To(wire[i]) = From(wire[i + 1])
    /\ \A i \in 1 .. Len(wire) : From(wire[i]) <= To(wire[i]) /\ To(wire[i]) <= sent
    /\ spoke # "done" => IF wire = <<>> THEN received = sent ELSE To(wire[Len(wire)]) = sent

(* A trailer says how the body ended. *)
Says(t) ==
  /\ t.bytes = sent /\ Through
  /\ t.truncated <=> sent < len \/ fate = "cut"
  /\ t.err <=> sent = len /\ fate = "broken"

Trailed ==
  /\ \A i \in 1 .. Len(wire) : wire[i].kind = "trail" => spoke = "done" /\ Says(wire[i])
  /\ reader = "drain" => spoke = "done" /\ Says(trail) /\ received = sent

(* What was received is handed over or pending, until Close drops the rest. *)
Reads ==
  /\ received <= sent /\ received <= Budget
  /\ IF closer = "done" THEN finished /\ pending = 0 /\ got <= received
     ELSE got + pending = received
  /\ do # "returned" => received = 0 /\ ~finished /\ reader = "idle" /\ closer = "idle"
  /\ reader # "idle" => pending = 0 /\ ~finished

(* The outcome, once it is latched. *)
Ends ==
  /\ finished <=> term # "none"
  /\ term = "closed" => pending = 0
  /\ term = "eof" =>
       fate = "whole" /\ received = len /\ trail.bytes = len
  /\ term = "tooLarge" => /\ fate = "cut" \/ (received = Budget /\ len > Budget)
                          /\ trail.truncated

BInv == Types /\ Sends /\ InOrder /\ Trailed /\ Reads /\ Ends /\ InflightSettles

LEMMA ChunkKinds ==
  /\ head \in Chunks /\ From(head) = 0 /\ To(head) = 0
  /\ \A n \in Nat : sent \in Nat =>
       /\ data(n) \in Chunks /\ data(n).kind = "data"
       /\ From(data(n)) = sent /\ To(data(n)) = sent + n
  /\ \A t, e \in BOOLEAN : sent \in Nat =>
       /\ Trail(t, e) \in Chunks /\ Trail(t, e).kind = "trail"
       /\ From(Trail(t, e)) = sent /\ To(Trail(t, e)) = sent
  /\ \A chunk \in Chunks :
       /\ From(chunk) \in Nat /\ To(chunk) \in Nat
       /\ chunk.kind = "data" => chunk.n \in Nat /\ To(chunk) = From(chunk) + chunk.n
       /\ chunk.kind = "trail" =>
            /\ From(chunk) = chunk.bytes /\ To(chunk) = chunk.bytes
            /\ [bytes |-> chunk.bytes, truncated |-> chunk.truncated, err |-> chunk.err]
                 \in [bytes : Nat, truncated : BOOLEAN, err : BOOLEAN]
  <1>1. head \in Chunks /\ From(head) = 0 /\ To(head) = 0
    BY DEF Chunks, head, From, To
  <1>2. ASSUME NEW n \in Nat, sent \in Nat
        PROVE  /\ data(n) \in Chunks /\ data(n).kind = "data"
               /\ From(data(n)) = sent /\ To(data(n)) = sent + n
    BY <1>2 DEF Chunks, data, From, To
  <1>3. ASSUME NEW t \in BOOLEAN, NEW e \in BOOLEAN, sent \in Nat
        PROVE  /\ Trail(t, e) \in Chunks /\ Trail(t, e).kind = "trail"
               /\ From(Trail(t, e)) = sent /\ To(Trail(t, e)) = sent
    BY <1>3 DEF Chunks, Trail, From, To
  <1>4. ASSUME NEW chunk \in Chunks
        PROVE  /\ From(chunk) \in Nat /\ To(chunk) \in Nat
               /\ chunk.kind = "data" => chunk.n \in Nat /\ To(chunk) = From(chunk) + chunk.n
               /\ chunk.kind = "trail" =>
                    /\ From(chunk) = chunk.bytes /\ To(chunk) = chunk.bytes
                    /\ [bytes |-> chunk.bytes, truncated |-> chunk.truncated, err |-> chunk.err]
                         \in [bytes : Nat, truncated : BOOLEAN, err : BOOLEAN]
    <2>1. CASE chunk = head
      BY <2>1 DEF head, From, To
    <2>2. CASE chunk \in [kind : {"data"}, n : Nat, at : Nat]
      BY <2>2 DEF From, To
    <2>3. CASE chunk \in [kind : {"trail"}, bytes : Nat, truncated : BOOLEAN, err : BOOLEAN]
      BY <2>3 DEF From, To
    <2> QED BY <2>1, <2>2, <2>3 DEF Chunks
  <1> QED BY <1>1, <1>2, <1>3, <1>4

LEMMA NoneIsEmpty == \A s \in Seq(Chunks) : s = <<>> <=> Len(s) = 0
  OBVIOUS

(* A chunk sent continues the stretch on the wire. *)
LEMMA SendingContinues ==
  ASSUME Types, InOrder, NEW chunk \in Chunks, Send(chunk), spoke # "done",
         From(chunk) = sent, sent' = To(chunk), sent <= sent', UNCHANGED <<received, finished>>
  PROVE  /\ wire' \in Seq(Chunks) /\ InOrder'
         /\ \A i \in 1 .. Len(wire') : (i \in 1 .. Len(wire) /\ wire'[i] = wire[i]) \/ wire'[i] = chunk
  <1>1. /\ wire \in Seq(Chunks) /\ wire' = Append(wire, chunk) /\ sent \in Nat /\ sent' \in Nat
    BY ChunkKinds DEF Types, Send
  <1>2. /\ wire' \in Seq(Chunks) /\ Len(wire') = Len(wire) + 1 /\ wire'[Len(wire')] = chunk
        /\ Len(wire) \in Nat /\ wire' # <<>>
        /\ \A i \in 1 .. Len(wire) : wire'[i] = wire[i]
        /\ wire = <<>> <=> Len(wire) = 0
    BY <1>1
  <1>3. \A i \in 1 .. Len(wire) : wire[i] \in Chunks /\ To(wire[i]) \in Nat /\ From(wire[i]) \in Nat
    <2>1. \A i \in 1 .. Len(wire) : wire[i] \in Chunks
      BY <1>1
    <2> QED BY <2>1, ChunkKinds, Zenon
  <1>4. ASSUME ~finished PROVE InOrder'
    <2>1. From(wire'[1]) = received'
      BY <1>2, <1>4 DEF InOrder
    <2>2. ASSUME NEW i \in 1 .. Len(wire') - 1 PROVE To(wire'[i]) = From(wire'[i + 1])
      BY <1>2, <1>4 DEF InOrder
    <2>3. ASSUME NEW i \in 1 .. Len(wire') PROVE From(wire'[i]) <= To(wire'[i]) /\ To(wire'[i]) <= sent'
      BY <1>1, <1>2, <1>3, <1>4 DEF InOrder
    <2>4. To(wire'[Len(wire')]) = sent'
      BY <1>2
    <2> QED BY <1>2, <2>1, <2>2, <2>3, <2>4 DEF InOrder
  <1> QED BY <1>2, <1>4 DEF InOrder

(* A chunk received leaves the rest of the stretch. *)
LEMMA ReceivingContinues ==
  ASSUME Types, InOrder, RecvChunk, UNCHANGED <<sent, spoke>>,
         ~finished' => ~finished /\ received' = To(Head(wire))
  PROVE  /\ wire' \in Seq(Chunks) /\ InOrder'
         /\ \A i \in 1 .. Len(wire') : i + 1 \in 1 .. Len(wire) /\ wire'[i] = wire[i + 1]
  <1>1. wire \in Seq(Chunks) /\ wire # <<>> /\ wire' = Tail(wire)
    BY DEF Types, RecvChunk
  <1>2. /\ wire' \in Seq(Chunks) /\ Len(wire') = Len(wire) - 1 /\ Len(wire) \in Nat \ {0}
        /\ \A i \in 1 .. Len(wire') : i + 1 \in 1 .. Len(wire) /\ wire'[i] = wire[i + 1]
        /\ wire' = <<>> <=> Len(wire') = 0
        /\ Head(wire) = wire[1]
    <2>1. Len(wire) \in Nat \ {0} /\ Head(wire) = wire[1]
      BY <1>1
    <2>2. Tail(wire) \in Seq(Chunks) /\ Len(Tail(wire)) = Len(wire) - 1
      BY <1>1
    <2>3. \A i \in 1 .. Len(wire) - 1 : i + 1 \in 1 .. Len(wire) /\ Tail(wire)[i] = wire[i + 1]
      BY <1>1, <2>1
    <2>4. Tail(wire) = <<>> <=> Len(Tail(wire)) = 0
      BY <2>2, NoneIsEmpty, Zenon
    <2> QED BY <1>1, <2>1, <2>2, <2>3, <2>4
  <1>3. ASSUME ~finished' PROVE InOrder'
    <2>1. wire' # <<>> => From(wire'[1]) = received'
      BY <1>2, <1>3 DEF InOrder
    <2>2. ASSUME NEW i \in 1 .. Len(wire') - 1 PROVE To(wire'[i]) = From(wire'[i + 1])
      <3>1. i \in 1 .. Len(wire') /\ i + 1 \in 1 .. Len(wire') /\ i + 1 \in 1 .. Len(wire) - 1
        BY <1>2
      <3> QED BY <1>2, <1>3, <3>1 DEF InOrder
    <2>3. ASSUME NEW i \in 1 .. Len(wire') PROVE From(wire'[i]) <= To(wire'[i]) /\ To(wire'[i]) <= sent'
      BY <1>2, <1>3, Zenon DEF InOrder
    <2>4. ASSUME spoke' # "done"
          PROVE  IF wire' = <<>> THEN received' = sent' ELSE To(wire'[Len(wire')]) = sent'
      BY <1>2, <1>3, <2>4 DEF InOrder
    <2> QED BY <2>1, <2>2, <2>3, <2>4 DEF InOrder
  <1> QED BY <1>2, <1>3 DEF InOrder

LEMMA InitHolds ==
  ASSUME GrpcBodyConstants, Init
  PROVE  BInv
  <1>1. Types
    <2>1. trail \in [bytes : Nat, truncated : BOOLEAN, err : BOOLEAN] /\ wire \in Seq(Chunks)
      BY DEF Init, NoTrail
    <2>2. len \in Nat /\ len <= MaxLen
      BY DEF Init, GrpcBodyConstants
    <2> QED BY <2>1, <2>2, Zenon DEF Init, Types, Terms
  <1>2. Sends /\ InOrder /\ Trailed
    BY DEF GrpcBodyConstants, Init, Sends, InOrder, Trailed
  <1>3. Reads /\ Ends /\ InflightSettles
    BY DEF GrpcBodyConstants, Init, Reads, Ends, InflightSettles
  <1> QED BY <1>1, <1>2, <1>3 DEF BInv

(* A true trailer stays true while the bodies on both ends do. *)
LEMMA SaysStays ==
  ASSUME UNCHANGED <<sent, len, fate>>, NEW t, Says(t)
  PROVE  /\ t.bytes = sent' /\ Through'
         /\ t.truncated <=> sent' < len' \/ fate' = "cut"
         /\ t.err <=> sent' = len' /\ fate' = "broken"
  BY DEF Says, Through, remaining

(* The spoke's steps: what it sends is in order, and its trailer true. *)
LEMMA SpokePreserves ==
  ASSUME GrpcBodyConstants, BInv, SpokeSteps \/ SpokeCancelled
  PROVE  BInv'
  <1> USE DEF BInv
  <1>0. {Budget, MaxLen, Chunk} \subseteq Nat \ {0} /\ Honest \in BOOLEAN
    BY ZenonT(60) DEF GrpcBodyConstants
  <1>1. UNCHANGED <<len, fate, do, reader, pending, received, finished, term, trail, closing, closer,
                    inflight, got>>
    BY DEF SpokeSteps, HandlerAnswers, StreamChunk, StreamEnd, SendTrail, TransportDies,
       SpokeCancelled, body
  <1>2. Ends' /\ InflightSettles'
    BY <1>1 DEF Ends, InflightSettles
  <1>3. SUFFICES Types' /\ Sends' /\ InOrder' /\ Trailed' /\ Reads'
    BY <1>2
  <1>4. CASE StreamChunk
    <2>1. PICK n \in 1 .. Chunk : n <= remaining /\ sent + n <= len /\ Send(data(n)) /\ sent' = sent + n
      BY <1>4 DEF StreamChunk
    <2>2. n \in Nat /\ sent \in Nat /\ sent' \in Nat /\ sent <= sent' /\ received \in Nat
      BY <1>0, <2>1 DEF Types
    <2>3. spoke = "stream" /\ UNCHANGED <<spoke, truncated, broke, status>>
      BY <1>4 DEF StreamChunk
    <2>4. data(n) \in Chunks /\ data(n).kind = "data" /\ From(data(n)) = sent /\ To(data(n)) = sent'
      BY <2>1, <2>2, ChunkKinds
    <2>5. /\ wire' \in Seq(Chunks) /\ InOrder'
          /\ \A i \in 1 .. Len(wire') : (i \in 1 .. Len(wire) /\ wire'[i] = wire[i]) \/ wire'[i] = data(n)
      BY <1>1, <2>1, <2>2, <2>3, <2>4, SendingContinues, ZenonT(60)
    <2>6. Types'
      BY <1>1, <2>2, <2>3, <2>5 DEF Types
    <2>7. Honest => sent' <= Budget
      BY <1>0, <2>1, <2>2 DEF remaining
    <2>8. Sends'
      BY <1>1, <2>1, <2>3, <2>7 DEF Sends
    <2>9. Trailed'
      BY <1>1, <2>3, <2>4, <2>5, Zenon DEF Trailed
    <2>10. Reads'
      BY <1>0, <1>1, <2>2 DEF Reads, Types
    <2> QED BY <2>5, <2>6, <2>8, <2>9, <2>10
  <1>5. CASE SendTrail
    <2> DEFINE chunk == Trail(truncated \/ fate = "cut", broke)
    <2>1. /\ spoke = "trail" /\ spoke' = "done" /\ Send(chunk) /\ UNCHANGED <<sent, truncated, broke>>
      BY <1>5 DEF SendTrail
    <2>2. sent \in Nat /\ truncated \in BOOLEAN /\ broke \in BOOLEAN
      BY DEF Types
    <2>3. chunk \in Chunks /\ From(chunk) = sent /\ To(chunk) = sent
      <3>1. (truncated \/ fate = "cut") \in BOOLEAN
        OBVIOUS
      <3> QED BY <2>2, <3>1, ChunkKinds, Zenon
    <2>4. Says(chunk)
      <3>1. chunk.bytes = sent /\ chunk.truncated = (truncated \/ fate = "cut") /\ chunk.err = broke
        BY DEF Trail
      <3>2. Through /\ (truncated <=> sent < len) /\ (broke <=> sent = len /\ fate = "broken")
        BY <2>1 DEF Sends
      <3> HIDE DEF chunk
      <3> QED BY <3>1, <3>2, Zenon DEF Says
    <2> HIDE DEF chunk
    <2>5. /\ wire' \in Seq(Chunks) /\ InOrder'
          /\ \A i \in 1 .. Len(wire') : (i \in 1 .. Len(wire) /\ wire'[i] = wire[i]) \/ wire'[i] = chunk
      BY <1>1, <2>1, <2>2, <2>3, SendingContinues
    <2>6. Types'
      BY <1>1, <2>1, <2>5 DEF Types
    <2>7. Sends'
      BY <1>1, <2>1 DEF Sends
    <2>8. ASSUME NEW i \in 1 .. Len(wire'), wire'[i].kind = "trail" PROVE Says(wire[i])'
      <3>1. Says(wire'[i])
        BY <2>4, <2>5, <2>8, Zenon DEF Trailed
      <3> QED BY <1>1, <2>1, <3>1, SaysStays, Zenon DEF Says
    <2>9. reader' # "drain"
      BY <1>1, <2>1 DEF Trailed
    <2>10. Trailed'
      BY <2>1, <2>8, <2>9, Zenon DEF Trailed
    <2>11. Reads'
      BY <1>1, <2>1 DEF Reads
    <2> QED BY <2>5, <2>6, <2>7, <2>10, <2>11
  <1>6. CASE HandlerAnswers
    <2>1. spoke = "do" /\ UNCHANGED <<sent, truncated, broke>> /\ do # "new"
      BY <1>6 DEF HandlerAnswers
    <2>2. wire = <<>> /\ sent = 0 /\ reader # "drain"
      BY <2>1 DEF Sends, Trailed
    <2>3. CASE Send(head) /\ spoke' = "stream"
      <3>1. head \in Chunks /\ From(head) = sent /\ To(head) = sent' /\ sent <= sent'
        BY <2>1, <2>2, ChunkKinds
      <3>2. /\ wire' \in Seq(Chunks) /\ InOrder'
            /\ \A i \in 1 .. Len(wire') : (i \in 1 .. Len(wire) /\ wire'[i] = wire[i]) \/ wire'[i] = head
        BY <1>1, <2>1, <2>3, <3>1, SendingContinues, ZenonT(60)
      <3>3. Types'
        BY <1>1, <2>1, <2>3, <3>2 DEF Types
      <3>4. Sends' /\ Reads'
        BY <1>1, <2>1, <2>3, ZenonT(60) DEF Sends, Reads
      <3>5. Trailed'
        <4>1. \A i \in 1 .. Len(wire') : wire'[i].kind # "trail"
          BY <2>2, <3>2 DEF head
        <4> QED BY <1>1, <2>2, <4>1 DEF Trailed
      <3> QED BY <3>2, <3>3, <3>4, <3>5
    <2>4. CASE spoke' = "done" /\ UNCHANGED wire
      <3>1. Types'
        BY <1>1, <2>1, <2>4 DEF Types
      <3>2. Sends' /\ Reads'
        BY <1>1, <2>1, <2>4 DEF Sends, Reads
      <3>3. Trailed' /\ InOrder'
        BY <1>1, <2>2, <2>4 DEF Trailed, InOrder
      <3> QED BY <3>1, <3>2, <3>3
    <2> QED BY <1>6, <2>3, <2>4 DEF HandlerAnswers
  <1>7. CASE StreamEnd
    <2>1. /\ spoke = "stream" /\ spoke' = "trail" /\ UNCHANGED <<sent, wire>>
          /\ truncated' = (sent < len) /\ broke' = (sent = len /\ fate = "broken")
          /\ sent = len \/ remaining <= 0
      BY <1>7 DEF StreamEnd
    <2>2. Through'
      BY <1>1, <2>1 DEF Through, remaining
    <2>3. truncated' \in BOOLEAN /\ broke' \in BOOLEAN
      BY <2>1
    <2>4. Types'
      BY <1>1, <2>1, <2>3 DEF Types
    <2>5. /\ truncated' <=> sent' < len'
          /\ broke' <=> sent' = len' /\ fate' = "broken"
      BY <1>1, <2>1, Zenon
    <2>6. Sends'
      BY <1>1, <2>1, <2>2, <2>5 DEF Sends
    <2>7. Trailed'
      BY <1>1, <2>1, Zenon DEF Trailed
    <2>8. InOrder' /\ Reads'
      BY <1>1, <2>1 DEF InOrder, Reads
    <2> QED BY <2>4, <2>6, <2>7, <2>8
  <1>8. CASE SpokeCancelled \/ TransportDies
    <2>1. spoke' = "done" /\ UNCHANGED <<sent, truncated, broke>> /\ wire' \in {wire, <<>>} /\ do # "new"
      BY <1>8 DEF SpokeCancelled, TransportDies
    <2>2. Types'
      <3>1. wire \in Seq(Chunks) /\ <<>> \in Seq(Chunks)
        BY DEF Types
      <3>2. wire' \in Seq(Chunks)
        BY <2>1, <3>1, Zenon
      <3> QED BY <1>1, <2>1, <3>2 DEF Types
    <2>3. Sends' /\ Reads'
      BY <1>1, <2>1 DEF Sends, Reads
    <2>4. InOrder'
      BY <1>1, <2>1 DEF InOrder
    <2>5. ASSUME NEW i \in 1 .. Len(wire'), wire'[i].kind = "trail" PROVE Says(wire[i])'
      <3>1. Says(wire'[i])
        BY <2>1, <2>5 DEF Trailed
      <3> QED BY <1>1, <2>1, <3>1, SaysStays, Zenon DEF Says
    <2>6. ASSUME reader' = "drain" PROVE Says(trail)' /\ received' = sent'
      <3>1. Says(trail) /\ received = sent
        BY <1>1, <2>6 DEF Trailed
      <3> QED BY <1>1, <2>1, <3>1, SaysStays, Zenon DEF Says
    <2>7. Trailed'
      BY <2>1, <2>5, <2>6, Zenon DEF Trailed
    <2> QED BY <2>2, <2>3, <2>4, <2>7
  <1> QED BY <1>4, <1>5, <1>6, <1>7, <1>8 DEF SpokeSteps

(* What a step that leaves the spoke alone keeps of it. *)
LEMMA SpokeAlone ==
  ASSUME BInv, UNCHANGED <<len, fate, spokeSide>>, do' = "returned" => spoke # "do",
         do' # "new", spoke = "do" => wire' = <<>>,
         \A i \in 1 .. Len(wire') : \E k \in 1 .. Len(wire) : wire'[i] = wire[k]
  PROVE  /\ Sends'
         /\ \A i \in 1 .. Len(wire') : wire'[i].kind = "trail" => spoke' = "done" /\ Says(wire[i])'
  <1>1. UNCHANGED <<len, fate, spoke, sent, truncated, broke>>
    BY DEF spokeSide
  <1>2. Through' <=> Through
    BY <1>1 DEF Through, remaining
  <1>3. Sends'
    BY <1>1, <1>2 DEF BInv, Sends
  <1>4. ASSUME NEW i \in 1 .. Len(wire'), wire'[i].kind = "trail"
        PROVE  spoke' = "done" /\ Says(wire[i])'
    <2>1. Says(wire'[i]) /\ spoke = "done"
      BY <1>4, Zenon DEF BInv, Trailed
    <2> QED BY <1>1, <2>1, SaysStays, Zenon DEF Says
  <1> QED BY <1>3, <1>4

(* The steps that move only Do, Close or a context, and Read's first one. *)
LEMMA QuietPreserves ==
  ASSUME GrpcBodyConstants, BInv,
         DoBegins \/ CloseRaise \/ CloseAbort \/ CallerCancels \/ SessionCloses \/ ReadBegin
  PROVE  BInv'
  <1> USE DEF BInv
  <1>0. {Budget, ReadSize} \subseteq Nat \ {0}
    BY Zenon DEF GrpcBodyConstants
  <1>1. UNCHANGED <<len, fate, spoke, sent, truncated, broke, wire, received, finished, term, trail,
                    inflight>>
    BY Zenon DEF DoBegins, CloseRaise, CloseAbort, CallerCancels, SessionCloses, ReadBegin, spokeSide, body
  <1>2. /\ do' \in {"new", "waiting", "returned", "failed"}
        /\ do' = do \/ (do = "new" /\ do' \in {"waiting", "failed"})
        /\ closer' = closer \/ (do = "returned" /\ closer' \in {"raised", "aborted"} /\ closer # "done")
        /\ reader' \in {"idle", "recv"} \/ reader' = reader
    BY Zenon DEF DoBegins, CloseRaise, CloseAbort, CallerCancels, SessionCloses, ReadBegin, Types, body, Reads
  <1>3. /\ pending' \in Nat /\ got' \in Nat /\ got' + pending' = got + pending
        /\ pending = 0 => pending' = 0 /\ got' = got
        /\ reader' # "idle" => reader' = reader \/ (do = "returned" /\ pending' = 0 /\ ~finished /\ reader' = "recv")
        /\ reader # "idle" => pending' = pending /\ got' = got
    <2>1. pending \in Nat /\ got \in Nat
      BY DEF Types
    <2>2. CASE ReadBegin
      <3>1. CASE pending > 0 /\ got' = got + Min(ReadSize, pending)
                 /\ pending' = pending - Min(ReadSize, pending) /\ UNCHANGED reader
        <4>1. Min(ReadSize, pending) \in 1 .. pending
          BY <1>0, <2>1, <3>1 DEF Min
        <4>2. reader = "idle"
          BY <2>2 DEF ReadBegin
        <4> QED BY <2>1, <3>1, <4>1, <4>2
      <3>2. CASE pending = 0 /\ ~finished /\ reader' = "recv" /\ UNCHANGED <<got, pending>>
        BY <2>1, <2>2, <3>2 DEF ReadBegin
      <3> QED BY <2>2, <3>1, <3>2 DEF ReadBegin
    <2>3. CASE DoBegins \/ CloseRaise \/ CloseAbort \/ CallerCancels \/ SessionCloses
      <3>1. UNCHANGED <<pending, got, reader>>
        BY <2>3, ZenonT(60) DEF DoBegins, CloseRaise, CloseAbort, CallerCancels, SessionCloses, body
      <3> QED BY <2>1, <3>1, Zenon
    <2> QED BY <2>2, <2>3
  <1>4. Types'
    BY <1>1, <1>2, <1>3, SMTT(60) DEF Types
  <1>5. Sends' /\ InOrder'
    BY <1>1, <1>2, Zenon DEF Sends, InOrder, Through, remaining
  <1>6. Trailed'
    <2>1. Through' <=> Through
      BY <1>1 DEF Through, remaining
    <2>2. \A i \in 1 .. Len(wire') : wire'[i].kind = "trail" => spoke' = "done" /\ Says(wire[i])'
      BY <1>1, <2>1, Zenon DEF Trailed, Says
    <2>3. reader' = "drain" => reader = "drain"
      BY <1>3
    <2> QED BY <1>1, <2>1, <2>2, <2>3, Zenon DEF Trailed, Says
  <1>7. Reads'
    <2>1. received' <= sent' /\ received' <= Budget
      BY <1>1 DEF Reads
    <2>2. IF closer' = "done" THEN finished' /\ pending' = 0 /\ got' <= received'
          ELSE got' + pending' = received'
      <3>1. CASE closer = "done"
        BY <1>1, <1>2, <1>3, <3>1 DEF Reads
      <3>2. CASE closer # "done"
        <4>1. closer' # "done" /\ got + pending = received
          BY <1>2, <3>2 DEF Reads
        <4>2. got' + pending' = got + pending
          BY <1>3
        <4> QED BY <1>1, <4>1, <4>2
      <3> QED BY <3>1, <3>2
    <2>3. do' # "returned" => received' = 0 /\ ~finished' /\ reader' = "idle" /\ closer' = "idle"
      BY <1>1, <1>2, <1>3 DEF Reads
    <2>4. reader' # "idle" => pending' = 0 /\ ~finished'
      BY <1>1, <1>3 DEF Reads
    <2> QED BY <2>1, <2>2, <2>3, <2>4 DEF Reads
  <1>8. Ends' /\ InflightSettles'
    BY <1>1, <1>2, <1>3 DEF Ends, InflightSettles
  <1> QED BY <1>4, <1>5, <1>6, <1>7, <1>8

(* Do hands out the body behind its head, or fails. *)
LEMMA DoPreserves ==
  ASSUME GrpcBodyConstants, BInv, DoReturns
  PROVE  BInv'
  <1> USE DEF BInv
  <1>1. /\ UNCHANGED <<len, fate, spokeSide, reader, pending, received, finished, term, trail, closer, got>>
        /\ UNCHANGED <<spoke, sent, truncated, broke>>
        /\ do = "waiting"
    BY DEF DoReturns, body, spokeSide
  <1>2. received = 0 /\ ~finished /\ reader = "idle" /\ closer = "idle" /\ inflight = 0
    BY <1>1 DEF Reads, InflightSettles
  <1>3. \/ RecvChunk /\ Head(wire).kind = "head" /\ do' = "returned" /\ inflight' = inflight + 1
        \/ do' = "failed" /\ UNCHANGED <<wire, inflight>>
    BY DEF DoReturns
  <1>4. /\ wire' \in Seq(Chunks) /\ InOrder'
        /\ \A i \in 1 .. Len(wire') : \E k \in 1 .. Len(wire) : wire'[i] = wire[k]
        /\ (do' = "returned" => spoke # "do") /\ (spoke = "do" => wire' = <<>>)
    <2>1. CASE RecvChunk /\ Head(wire).kind = "head" /\ do' = "returned"
      <3>1. wire # <<>>
        BY <2>1 DEF RecvChunk
      <3>2. spoke # "do"
        BY <3>1 DEF Sends
      <3>3. To(Head(wire)) = 0
        BY <2>1 DEF To
      <3>4. /\ wire' \in Seq(Chunks) /\ InOrder'
            /\ \A i \in 1 .. Len(wire') : i + 1 \in 1 .. Len(wire) /\ wire'[i] = wire[i + 1]
        BY <1>1, <1>2, <2>1, <3>3, ReceivingContinues
      <3> QED BY <3>2, <3>4, Zenon
    <2>2. CASE do' = "failed" /\ UNCHANGED wire
      <3>1. InOrder' /\ wire' \in Seq(Chunks)
        BY <1>1, <2>2 DEF InOrder, Types
      <3> QED BY <2>2, <3>1, ZenonT(60) DEF Sends
    <2> QED BY <1>3, <2>1, <2>2
  <1>5. do' # "new"
    BY <1>3
  <1>6. /\ Sends'
        /\ \A i \in 1 .. Len(wire') : wire'[i].kind = "trail" => spoke' = "done" /\ Says(wire[i])'
    BY <1>1, <1>4, <1>5, SpokeAlone, ZenonT(60)
  <1>7. Types'
    BY <1>1, <1>2, <1>3, <1>4 DEF Types
  <1>8. Trailed'
    BY <1>1, <1>2, <1>6, Zenon DEF Trailed
  <1>9. Reads' /\ Ends' /\ InflightSettles'
    BY <1>1, <1>2, <1>3, SMTT(60) DEF Reads, Ends, InflightSettles
  <1> QED BY <1>4, <1>6, <1>7, <1>8, <1>9

(* The bytes of a chunk go to the reader as far as its buffer and the       *)
(* budget allow, and "too large" is latched behind the last that fits.      *)
LEMMA PullPreserves ==
  ASSUME GrpcBodyConstants, BInv, Pull
  PROVE  BInv'
  <1> USE DEF BInv
  <1> DEFINE chunk == Head(wire)
  <1>0. {Budget, ReadSize} \subseteq Nat \ {0}
    BY DEF GrpcBodyConstants
  <1>1. /\ UNCHANGED <<len, fate, spokeSide, spoke, sent, truncated, broke, do, closer>>
        /\ reader = "recv" /\ RecvChunk
    BY DEF Pull, spokeSide
  <1>2. /\ pending = 0 /\ ~finished /\ do = "returned" /\ closer # "done" /\ got = received
        /\ inflight = 1 /\ term = "none"
    BY <1>1 DEF Reads, Types, InflightSettles, Ends
  <1>3. /\ wire # <<>> /\ Head(wire) = wire[1] /\ 1 \in 1 .. Len(wire) /\ chunk \in Chunks
    BY <1>1 DEF RecvChunk, Types
  <1>4. /\ From(chunk) = received /\ To(chunk) <= sent
    BY <1>2, <1>3 DEF InOrder
  <1> HIDE DEF chunk
  <1>5. spoke # "do"
    BY <1>2 DEF Sends
  <1>6. CASE chunk.kind = "data" /\ PullData(chunk.n)
    <2> DEFINE n == chunk.n
               m == IF n > Budget - received THEN Budget - received ELSE n
    <2>1. n \in Nat /\ To(chunk) = received + n /\ received \in Nat /\ sent \in Nat /\ received <= Budget
      BY <1>3, <1>4, <1>6, ChunkKinds, Zenon DEF Reads, Types
    <2>2. m \in Nat /\ m <= n /\ received + m <= Budget /\ received + m <= sent
      BY <1>0, <1>4, <2>1
    <2> HIDE DEF n
    <2>3. Hand(m) /\ received' = received + m
      BY <1>0, <1>6, <2>1 DEF PullData, n
    <2>4. /\ n > Budget - received =>
               /\ finished' = TRUE /\ term' = "tooLarge" /\ inflight' = 0
               /\ trail' = [trail EXCEPT !.bytes = Budget, !.truncated = TRUE]
          /\ ~(n > Budget - received) => UNCHANGED <<finished, term, trail, inflight>>
      BY <1>2, <1>6, <2>1 DEF PullData, finish, n
    <2>5. /\ got' \in Nat /\ pending' \in Nat /\ got' + pending' = received' /\ reader' = "idle"
          /\ received' \in Nat
      <3>1. Min(ReadSize, m) \in 0 .. m
        BY <1>0, <2>2 DEF Min
      <3> HIDE DEF m
      <3> QED BY <1>2, <2>1, <2>2, <2>3, <3>1 DEF Hand
    <2>6. ~finished' => received' = To(chunk)
      BY <2>1, <2>3, <2>4
    <2>7. /\ wire' \in Seq(Chunks) /\ InOrder'
          /\ \A i \in 1 .. Len(wire') : i + 1 \in 1 .. Len(wire) /\ wire'[i] = wire[i + 1]
      BY <1>1, <1>2, <2>6, ReceivingContinues DEF chunk
    <2>8. \A i \in 1 .. Len(wire') : \E k \in 1 .. Len(wire) : wire'[i] = wire[k]
      BY <2>7, Zenon
    <2>9. /\ Sends'
          /\ \A i \in 1 .. Len(wire') : wire'[i].kind = "trail" => spoke' = "done" /\ Says(wire[i])'
      BY <1>1, <1>2, <1>5, <2>8, SpokeAlone
    <2>10. Trailed'
      BY <2>5, <2>9, Zenon DEF Trailed
    <2>11. /\ trail' \in [bytes : Nat, truncated : BOOLEAN, err : BOOLEAN]
           /\ n > Budget - received => trail'.truncated
      BY <1>0, <2>4, Zenon DEF Types
    <2>12. Types'
      <3>1. finished' \in BOOLEAN /\ term' \in Terms /\ inflight' \in Nat
        BY <1>2, <2>4, Zenon DEF Types, Terms
      <3> QED BY <1>1, <2>5, <2>7, <2>11, <3>1 DEF Types
    <2>13. Reads'
      BY <1>1, <1>2, <2>2, <2>3, <2>5 DEF Reads
    <2>14. n > Budget - received => received' = Budget /\ len' > Budget
      BY <1>0, <1>1, <1>4, <2>1, <2>3, SMTT(60) DEF Sends, Types
    <2>15. Ends' /\ InflightSettles'
      BY <1>1, <1>2, <2>4, <2>11, <2>14, SMTT(60) DEF Ends, InflightSettles
    <2> QED BY <2>7, <2>9, <2>10, <2>12, <2>13, <2>15, SMTT(60)
  <1>7. CASE chunk.kind = "trail" /\ PullTrail(chunk)
    <2>1. /\ trail' = [bytes |-> chunk.bytes, truncated |-> chunk.truncated, err |-> chunk.err]
          /\ reader' = "drain" /\ UNCHANGED <<pending, received, finished, term, inflight, got>>
      BY <1>7 DEF PullTrail
    <2>2. spoke = "done" /\ Says(chunk)
      BY <1>3, <1>7, Zenon DEF Trailed, chunk
    <2>3. /\ chunk.bytes = received /\ To(chunk) = received
          /\ trail' \in [bytes : Nat, truncated : BOOLEAN, err : BOOLEAN]
      BY <1>3, <1>4, <1>7, <2>1, ChunkKinds
    <2>4. received = sent
      BY <2>2, <2>3, Zenon DEF Says
    <2>5. /\ wire' \in Seq(Chunks) /\ InOrder'
          /\ \A i \in 1 .. Len(wire') : i + 1 \in 1 .. Len(wire) /\ wire'[i] = wire[i + 1]
      BY <1>1, <1>2, <2>1, <2>3, ReceivingContinues DEF chunk
    <2>6. \A i \in 1 .. Len(wire') : \E k \in 1 .. Len(wire) : wire'[i] = wire[k]
      BY <2>5, Zenon
    <2>7. /\ Sends'
          /\ \A i \in 1 .. Len(wire') : wire'[i].kind = "trail" => spoke' = "done" /\ Says(wire[i])'
      BY <1>1, <1>2, <1>5, <2>6, SpokeAlone
    <2>8. Says(trail)'
      <3>1. trail'.bytes = chunk.bytes /\ trail'.truncated = chunk.truncated /\ trail'.err = chunk.err
        BY <2>1
      <3>2. Says(trail')
        BY <2>2, <3>1 DEF Says
      <3> QED BY <1>1, <3>2, SaysStays, Zenon DEF Says
    <2>9. Trailed'
      BY <1>1, <2>1, <2>2, <2>4, <2>7, <2>8, ZenonT(60) DEF Trailed
    <2>10. Types'
      BY <1>1, <2>1, <2>3, <2>5, ZenonT(180) DEF Types
    <2>11. Reads' /\ Ends' /\ InflightSettles'
      BY <1>1, <1>2, <2>1 DEF Reads, Ends, InflightSettles
    <2> QED BY <2>5, <2>7, <2>9, <2>10, <2>11
  <1> QED BY <1>6, <1>7 DEF Pull, chunk

(* The outcome is latched once: by a failed Recv, by the trailer or by      *)
(* Close.                                                                   *)
LEMMA FinishPreserves ==
  ASSUME GrpcBodyConstants, BInv, PullFails \/ Drain \/ CloseLock
  PROVE  BInv'
  <1> USE DEF BInv
  <1>0. Budget \in Nat \ {0} /\ MaxLen \in Nat /\ Honest \in BOOLEAN
    BY DEF GrpcBodyConstants
  <1>1. UNCHANGED <<len, fate, spokeSide, spoke, sent, truncated, broke, wire, do, received, got>>
    BY DEF PullFails, Drain, CloseLock, spokeSide
  <1>2. do = "returned" /\ spoke # "do"
    <2>1. do = "returned"
      BY DEF PullFails, Drain, CloseLock, Reads
    <2> QED BY <2>1 DEF Sends
  <1>3. finished' = TRUE /\ reader' = "idle"
    BY DEF PullFails, Drain, CloseLock, finish
  <1>4. /\ Sends'
        /\ \A i \in 1 .. Len(wire') : wire'[i].kind = "trail" => spoke' = "done" /\ Says(wire[i])'
    BY <1>1, <1>2, SpokeAlone, Zenon DEF Sends
  <1>5. Trailed'
    BY <1>3, <1>4, Zenon DEF Trailed
  <1>6. InOrder'
    BY <1>3 DEF InOrder
  <1>7. wire' \in Seq(Chunks) /\ received \in Nat /\ got \in Nat /\ sent \in Nat /\ len \in Nat
    BY <1>1 DEF Types
  <1>8. ASSUME ~finished, finish(term'), term' \in Terms \ {"none"},
               trail' \in [bytes : Nat, truncated : BOOLEAN, err : BOOLEAN],
               closer' \in {"idle", "raised", "aborted", "done"}, pending' \in Nat,
               IF closer' = "done" THEN pending' = 0 ELSE closer # "done" /\ pending' = pending,
               term' = "closed" => pending' = 0,
               term' = "eof" => fate = "whole" /\ received = len /\ trail'.bytes = len,
               term' = "tooLarge" =>
                 (fate = "cut" \/ (received = Budget /\ len > Budget)) /\ trail'.truncated
        PROVE  BInv'
    <2>1. inflight = 1 /\ inflight' = 0
      BY <1>2, <1>8, SMTT(60) DEF finish, InflightSettles
    <2>2. Types'
      BY <1>1, <1>3, <1>7, <1>8, <2>1, SMTT(60) DEF Types, Terms
    <2>3. got <= received
      BY <1>7, SMTT(60) DEF Reads, Types
    <2>4. Reads'
      BY <1>1, <1>2, <1>3, <1>8, <2>3, SMTT(60) DEF Reads
    <2>5. Ends' /\ InflightSettles'
      BY <1>1, <1>3, <1>8, <2>1 DEF Ends, InflightSettles
    <2> QED BY <1>4, <1>5, <1>6, <2>2, <2>4, <2>5
  <1>9. \A code : mapErr(code) \in {"context", "sessionClosed"}
    BY DEF mapErr
  <1>10. CASE PullFails
    <2>1. /\ ~finished /\ pending = 0 /\ UNCHANGED <<pending, closer>>
          /\ trail' = [trail EXCEPT !.bytes = received] /\ closer # "done"
      BY <1>10 DEF PullFails, Reads
    <2>2. finish(term') /\ term' \in {"closed", "protocol", "context", "sessionClosed"}
      BY <1>9, <1>10, Zenon DEF PullFails, finish
    <2>3. trail' \in [bytes : Nat, truncated : BOOLEAN, err : BOOLEAN]
      BY <1>7, <2>1, Zenon DEF Types
    <2> QED BY <1>8, <2>1, <2>2, <2>3 DEF Terms, Types
  <1>11. CASE Drain
    <2>1. /\ ~finished /\ pending = 0 /\ UNCHANGED <<pending, closer, trail>> /\ closer # "done"
          /\ Says(trail) /\ received = sent /\ received <= Budget
      BY <1>11, Zenon DEF Drain, Reads, Trailed
    <2>2. PICK e \in {"eof", "context", "sessionClosed"} : finish(absorbTrail(e))
      BY <1>9, <1>11, Zenon DEF Drain
    <2>3. finish(term') /\ term' = absorbTrail(e)
      BY <2>2 DEF finish
    <2>4. trail.truncated \in BOOLEAN /\ trail.err \in BOOLEAN
      BY DEF Types
    <2>5. /\ term' \in {"upstream", "tooLarge", "eof", "context", "sessionClosed"}
          /\ term' = "eof" => ~trail.err /\ ~trail.truncated
          /\ term' = "tooLarge" => trail.truncated
      BY <2>3, <2>4, SMTT(60) DEF absorbTrail
    <2>6. term' = "eof" => fate = "whole" /\ received = len /\ trail.bytes = len
      BY <1>7, <2>1, <2>5, SMTT(60) DEF Says, Sends, Types
    <2>7. term' = "tooLarge" => fate = "cut" \/ (received = Budget /\ len > Budget)
      BY <1>0, <1>7, <2>1, <2>5 DEF Says, Sends, Types, Through, remaining
    <2> QED BY <1>8, <2>1, <2>3, <2>5, <2>6, <2>7, ZenonT(60) DEF Terms, Types
  <1>12. CASE CloseLock
    <2>1. closer' = "done" /\ pending' = 0
      BY <1>12, Zenon DEF CloseLock
    <2>2. CASE finished
      <3>1. UNCHANGED <<finished, term, inflight, trail>>
        BY <1>12, <2>2 DEF CloseLock
      <3>2. got <= received
        BY <1>7 DEF Reads, Types
      <3>3. Types'
        BY <1>1, <1>3, <2>1, <3>1, ZenonT(60) DEF Types
      <3>4. Reads' /\ Ends' /\ InflightSettles'
        BY <1>1, <1>2, <1>3, <2>1, <3>1, <3>2 DEF Reads, Ends, InflightSettles
      <3> QED BY <1>4, <1>5, <1>6, <3>3, <3>4, Zenon
    <2>3. CASE ~finished
      <3>1. finish("closed") /\ term' = "closed" /\ trail' = [trail EXCEPT !.bytes = received]
        BY <1>12, <2>3 DEF CloseLock, finish
      <3>2. trail' \in [bytes : Nat, truncated : BOOLEAN, err : BOOLEAN]
        BY <1>7, <3>1 DEF Types
      <3> QED BY <1>8, <2>1, <2>3, <3>1, <3>2 DEF Terms
    <2> QED BY <2>2, <2>3
  <1> QED BY <1>10, <1>11, <1>12

LEMMA NextPreserves ==
  ASSUME GrpcBodyConstants, BInv, [Next]_vars
  PROVE  BInv'
  <1>1. CASE UNCHANGED vars
    <2>1. UNCHANGED <<len, fate, spoke, sent, truncated, broke, wire, do, reader, pending, received,
                      finished, term, trail, closer, inflight, got>>
      BY <1>1, Zenon DEF vars, spokeSide, body
    <2>2. Types' /\ Sends'
      BY <2>1, SMTT(60) DEF BInv, Types, Sends, Through, remaining
    <2>3. InOrder' /\ Reads' /\ Ends' /\ InflightSettles'
      BY <2>1, Zenon DEF BInv, InOrder, Reads, Ends, InflightSettles
    <2>4. Through' <=> Through
      BY <2>1 DEF Through, remaining
    <2>5. Trailed'
      BY <2>1, <2>4, Zenon DEF BInv, Trailed, Says
    <2> QED BY <2>2, <2>3, <2>5 DEF BInv
  <1> QED BY <1>1, SpokePreserves, QuietPreserves, DoPreserves, PullPreserves, FinishPreserves
          DEF Next, ReadSteps, CloseSteps

LEMMA Inductive ==
  ASSUME GrpcBodyConstants
  PROVE  Spec => []BInv
  <1>1. Init => BInv
    BY InitHolds
  <1>2. BInv /\ [Next]_vars => BInv'
    BY NextPreserves
  <1> QED BY <1>1, <1>2, PTL DEF Spec

(* Types, and a reader that never holds more than the budget, whatever the  *)
(* spoke sends (bodyReader of session.go).                                  *)
THEOREM TypeCorrect ==
  ASSUME GrpcBodyConstants
  PROVE  Spec => []TypeOK
  <1>1. ASSUME BInv PROVE TypeOK
    <2>1. {pending, received, got} \subseteq 0 .. Budget /\ sent \in 0 .. MaxLen
      BY <1>1, SMTT(60) DEF GrpcBodyConstants, BInv, Types, Reads, Sends
    <2>2. inflight \in {0, 1}
      BY <1>1 DEF BInv, InflightSettles
    <2> QED BY <1>1, <2>1, <2>2 DEF TypeOK, BInv, Types, Ends
  <1> QED BY <1>1, Inductive, PTL

(* For every body and budget: "too large" is reported behind exactly the    *)
(* budget, io.EOF behind every byte of the body (bodyReader.pull and        *)
(* absorbTrail against streamBody), ...                                     *)
THEOREM BodyIsWholeOrExact ==
  ASSUME GrpcBodyConstants
  PROVE  Spec => []WholeOrExact
  <1>1. BInv => WholeOrExact
    BY DEF BInv, Reads, Ends, WholeOrExact
  <1> QED BY <1>1, Inductive, PTL

(* ... and an open body counts once in session.inflight, on every path out  *)
(* of it (bodyReader.finish).                                               *)
THEOREM InflightIsExact ==
  ASSUME GrpcBodyConstants
  PROVE  Spec => []InflightSettles
  <1>1. BInv => InflightSettles
    BY DEF BInv
  <1> QED BY <1>1, Inductive, PTL

(* A chunk takes nothing from the reader. *)
LEMMA PullGives ==
  ASSUME GrpcBodyConstants, BInv, Pull
  PROVE  got <= got'
  <1>0. Budget \in Nat /\ ReadSize \in Nat /\ got \in Nat /\ received \in Nat /\ received <= Budget
    BY DEF GrpcBodyConstants, BInv, Types, Reads
  <1>1. Head(wire) \in Chunks
    BY DEF Pull, RecvChunk, BInv, Types
  <1>2. CASE Head(wire).kind = "data" /\ PullData(Head(wire).n)
    <2>1. Head(wire).n \in Nat
      BY <1>1, <1>2, ChunkKinds
    <2>2. PICK m \in Nat : got' = got + Min(ReadSize, m)
      BY <1>0, <1>2, <2>1 DEF PullData, Hand
    <2> QED BY <1>0, <2>2, SMTT(60) DEF Min
  <1>3. CASE PullTrail(Head(wire))
    BY <1>0, <1>3 DEF PullTrail
  <1> QED BY <1>2, <1>3 DEF Pull

(* What the contract sees of a step, from what it does to the bytes and to  *)
(* the outcome.                                                             *)
LEMMA SeenAsContract ==
  ASSUME BInv, BInv', GrpcBodyConstants, UNCHANGED <<len, fate>>,
         got <= got', got' # got => term # "closed",
         term' = term \/ term = "none"
  PROVE  Contract!Next \/ UNCHANGED Contract!vars
  <1>1. /\ got' \in got .. MaxLen /\ got' <= Budget /\ got' <= len
    <2>1. {got, got', pending', received', sent', len, Budget, MaxLen} \subseteq Nat /\ len <= MaxLen
      BY Zenon DEF GrpcBodyConstants, BInv, Types
    <2>2. /\ received' <= sent' /\ received' <= Budget /\ sent' <= len
          /\ got' <= received' \/ got' + pending' = received'
      BY DEF BInv, Reads, Sends
    <2> QED BY <2>1, <2>2, SMTT(60)
  <1>2. Contract!Bytes
    BY <1>1 DEF Contract!Bytes, Outcome
  <1>3. CASE term' = term
    BY <1>2, <1>3 DEF Contract!Next, Contract!Deliver, Outcome
  <1>4. CASE term = "none" /\ term' # "none"
    <2>1. Outcome = "open" /\ Outcome' \in {"eof", "tooLarge", "failed", "closed"}
      BY <1>4 DEF Outcome, BInv, Types, Terms
    <2>2. Outcome' = "eof" => fate = "whole" /\ len <= Budget
      BY <1>4 DEF Outcome, BInv, Ends, Reads
    <2>3. Outcome' = "tooLarge" => len > Budget \/ fate = "cut"
      BY <1>4 DEF Outcome, BInv, Ends
    <2> QED BY <1>2, <2>1, <2>2, <2>3 DEF Contract!Next, Contract!Decide
  <1> QED BY <1>3, <1>4

(* The body of internal/tunnel/grpctun implements the contract of           *)
(* tunnel.Response.Body (internal/tunnel/tunnel.go): never more than the    *)
(* budget, io.EOF only behind a whole body, "too large" only for one that   *)
(* is, and one outcome for good, whenever the stream breaks, the body is    *)
(* closed, the caller gives up or the session ends.                         *)
THEOREM BodyKeepsContract ==
  ASSUME GrpcBodyConstants
  PROVE  Spec => Contract!Spec
  <1>1. Init => Contract!Init
    BY DEF Init, Contract!Init, Outcome
  <1>2. ASSUME BInv, Next
        PROVE  Contract!Next \/ UNCHANGED Contract!vars
    <2>0. BInv'
      BY <1>2, NextPreserves, Zenon
    <2>1. UNCHANGED <<len, fate>>
      BY <1>2, Zenon DEF Next, DoBegins, DoReturns, SpokeSteps, HandlerAnswers, StreamChunk, StreamEnd,
         SendTrail, TransportDies, SpokeCancelled, ReadBegin, ReadSteps, Pull, PullFails, Drain,
         CloseRaise, CloseSteps, CloseAbort, CloseLock, CallerCancels, SessionCloses
    <2>2. term' = term \/ term = "none"
      <3>1. CASE Pull \/ PullFails \/ Drain
        <4>1. term = "none"
          BY <1>2, <3>1 DEF Pull, PullFails, Drain, BInv, Reads, Ends
        <4> QED BY <4>1
      <3>2. CASE CloseLock
        BY <1>2, <3>2, SMTT(60) DEF CloseLock, BInv, Ends
      <3>3. CASE ~(Pull \/ PullFails \/ Drain \/ CloseLock)
        BY <1>2, <3>3, Zenon DEF Next, DoBegins, DoReturns, SpokeSteps, HandlerAnswers, StreamChunk, StreamEnd,
           SendTrail, TransportDies, SpokeCancelled, ReadBegin, ReadSteps, CloseRaise, CloseSteps,
           CloseAbort, CallerCancels, SessionCloses, body
      <3> QED BY <3>1, <3>2, <3>3
    <2>3. got <= got' /\ (got' # got => term # "closed")
      <3>0. got \in Nat /\ pending \in Nat /\ got' \in Nat /\ ReadSize \in Nat
        BY <1>2, <2>0 DEF BInv, Types, GrpcBodyConstants
      <3>1. CASE Pull
        <4>1. term = "none" /\ pending = 0 /\ got = received
          BY <1>2, <3>0, <3>1 DEF Pull, BInv, Reads, Ends, Types
        <4>2. got' >= got
          BY <1>2, <3>0, <3>1, PullGives, SMTT(60)
        <4> QED BY <3>0, <4>1, <4>2, Zenon
      <3>2. CASE ReadBegin
        BY <1>2, <3>0, <3>2 DEF ReadBegin, Min, BInv, Ends
      <3>3. CASE ~(Pull \/ ReadBegin)
        <4>1. got' = got
          BY <1>2, <3>3, Zenon DEF Next, DoBegins, DoReturns, SpokeSteps, HandlerAnswers, StreamChunk, StreamEnd,
             SendTrail, TransportDies, SpokeCancelled, ReadSteps, PullFails, Drain, CloseRaise,
             CloseSteps, CloseAbort, CloseLock, CallerCancels, SessionCloses
        <4> QED BY <3>0, <4>1, SMTT(60)
      <3> QED BY <3>1, <3>2, <3>3, Zenon
    <2> QED BY <1>2, <2>0, <2>1, <2>2, <2>3, SeenAsContract
  <1>3. UNCHANGED vars => UNCHANGED Contract!vars
    BY DEF vars, body, Contract!vars, Outcome
  <1> QED BY <1>1, <1>2, <1>3, Inductive, PTL DEF Spec, Contract!Spec
=============================================================================
