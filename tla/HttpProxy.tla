----------------------------- MODULE HttpProxy -----------------------------
(***************************************************************************)
(* transport/http.rs: one exchange of the HTTP proxy, from the request to  *)
(* the last chunk of the response.  Exchanges share the decision point     *)
(* (ShimLink) and nothing else.                                            *)
(*                                                                         *)
(* A body is a sequence of bytes.  Data stands for the six of "data: "; a  *)
(* JSON-RPC message is an object around one name, with blanks anywhere.    *)
(***************************************************************************)
EXTENDS Naturals, Sequences, SequencesExt

CONSTANTS
  Names,              (* what a message may hold                            *)
  Bodies,             (* what a server may answer with, in bytes            *)
  MaxHeld             (* MAX_REQUEST_BYTES, of a response's buffer          *)

ASSUME HttpAssumption == MaxHeld \in Nat /\ Bodies \subseteq Seq(STRING)

NL   == "\n"
Ret  == "\r"
Data == "data: "

(* What matters of a request: is there a route for it, is it a POST, is it  *)
(* over the ceiling, does the scan find a method of DECIDE, and has the     *)
(* frame an identifier?                                                    *)
HttpRequests ==
  [routed : BOOLEAN, post : BOOLEAN, oversize : BOOLEAN, decidable : BOOLEAN, id : BOOLEAN]

VARIABLES
  request,
  exchange,           (* "arrived", "judged", "calling", "relaying", "over" *)
  verdict,            (* "none", "allow", "deny", "error"                   *)
  reply,              (* what the client is answered                        *)
  upstream,           (* history: did the server get the request?           *)
  body,               (* what the server answers                            *)
  relayed,            (* history: how many bytes of it went by              *)
  buffer,             (* what observe_stream keeps                          *)
  offered,            (* history: what was offered for observation          *)
  overran             (* history: was the buffer ever thrown away?          *)

bodyVars == <<body, relayed, buffer, offered, overran>>
httpVars == <<request, exchange, verdict, reply, upstream, bodyVars>>

HttpInit ==
  /\ request \in HttpRequests
  /\ exchange = "arrived" /\ verdict = "none" /\ reply = "none" /\ upstream = FALSE
  /\ body \in Bodies
  /\ relayed = 0 /\ buffer = <<>> /\ offered = <<>> /\ overran = FALSE

-----------------------------------------------------------------------------
(* handle: the request. *)

Answer(status) == exchange' = "over" /\ reply' = status

(* fail_closed is false in the proxy as in every shim, so that an error is  *)
(* a call let through.                                                     *)
Arrive ==
  /\ exchange = "arrived"
  /\ IF ~request.routed THEN Answer("not_found") /\ UNCHANGED verdict
     ELSE IF ~request.post THEN exchange' = "calling" /\ UNCHANGED <<verdict, reply>>
     ELSE IF request.oversize THEN Answer("too_large") /\ UNCHANGED verdict
     ELSE /\ exchange' = "judged"
          /\ verdict' \in IF request.decidable THEN {"allow", "deny", "error"} ELSE {"none"}
          /\ UNCHANGED reply
  /\ UNCHANGED <<request, upstream, bodyVars>>

(* The path makes no address of the upstream, or the body cannot be read.   *)
HandleFails ==
  /\ exchange = "arrived" /\ request.routed
  /\ Answer("bad_gateway")
  /\ UNCHANGED <<request, verdict, upstream, bodyVars>>

(* verdict_for: a refusal is the response deny_response makes, if it makes  *)
(* one; when the frame has no identifier there is None, as for an Allow.    *)
Judge ==
  /\ exchange = "judged"
  /\ IF verdict = "deny" /\ request.id THEN Answer("refusal")
     ELSE exchange' = "calling" /\ UNCHANGED reply
  /\ UNCHANGED <<request, verdict, upstream, bodyVars>>

(* forward: the upstream answers, or cannot be reached. *)
Forwarded ==
  /\ exchange = "calling"
  /\ upstream' = TRUE
  /\ exchange' = "relaying" /\ reply' = "response"
  /\ UNCHANGED <<request, verdict, bodyVars>>

Unreachable ==
  /\ exchange = "calling"
  /\ upstream' \in BOOLEAN
  /\ Answer("bad_gateway")
  /\ UNCHANGED <<request, verdict, bodyVars>>

-----------------------------------------------------------------------------
(* observe_stream and take_messages: the response. *)

(* find_event_end: just past the first blank line, or 0. *)
EventEndSlip(b) ==
  LET ends == {i \in 2..Len(b) : SubSeq(b, i - 1, i) = <<NL, NL>>}
  IN IF ends = {} THEN 0 ELSE CHOOSE e \in ends : \A f \in ends : e <= f

EventEnd(b) ==
  LET ends == {i \in 2..Len(b) :
                 \/ SubSeq(b, i - 1, i) = <<NL, NL>>
                 \/ i >= 4 /\ SubSeq(b, i - 3, i) = <<Ret, NL, Ret, NL>>}
  IN IF ends = {} THEN 0 ELSE CHOOSE e \in ends : \A f \in ends : e <= f

StripCr(line) == IF line # <<>> /\ Last(line) = Ret THEN Front(line) ELSE line

Payload(line) ==
  IF Len(StripCr(line)) > 1 /\ line[1] = Data THEN <<Tail(StripCr(line))>> ELSE <<>>

EventLine(acc, byte) ==
  IF byte = NL THEN [out |-> acc.out \o Payload(acc.line), line |-> <<>>]
               ELSE [acc EXCEPT !.line = Append(@, byte)]

Splitting(event) ==
  LET after[n \in 0..Len(event)] ==
        IF n = 0 THEN [out |-> <<>>, line |-> <<>>] ELSE EventLine(after[n - 1], event[n])
  IN after

Payloads(event) == Splitting(event)[Len(event)].out

(* Every complete event, and what is left. *)
Events(b) ==
  LET from[n \in 0..Len(b)] ==
        LET rest == SubSeq(b, n + 1, Len(b))
            end  == EventEnd(rest)
        IN IF end = 0 THEN [out |-> <<>>, rest |-> rest]
           ELSE [out |-> Payloads(SubSeq(rest, 1, end)) \o from[n + end].out,
                 rest |-> from[n + end].rest]
  IN from[0]

Blank(byte) == byte \in {NL, Ret}
IsJson(b) ==
  \E i \in DOMAIN b : b[i] = "{" /\
    \E j \in (i + 1)..Len(b) : b[j] \in Names /\
      \E k \in (j + 1)..Len(b) :
        b[k] = "}" /\ \A x \in DOMAIN b \ {i, j, k} : Blank(b[x])

TakeMessages(b) ==
  LET sse   == Events(b)
      plain == sse.out = <<>> /\ IsJson(sse.rest)
  IN [out |-> IF plain THEN <<sse.rest>> ELSE sse.out,
      rest |-> IF plain THEN <<>> ELSE sse.rest]

(* A chunk of the response goes by, of any length. *)
RelayChunk ==
  /\ exchange = "relaying"
  /\ \E k \in 1..(Len(body) - relayed) :
       LET taken == TakeMessages(buffer \o SubSeq(body, relayed + 1, relayed + k))
           over  == Len(taken.rest) > MaxHeld
       IN /\ relayed' = relayed + k
          /\ offered' = offered \o taken.out
          /\ buffer' = IF over THEN <<>> ELSE taken.rest
          /\ overran' = (overran \/ over)
  /\ UNCHANGED <<request, exchange, verdict, reply, upstream, body>>

(* The response ends, or the connection breaks. *)
ResponseEnds ==
  /\ exchange = "relaying"
  /\ exchange' = "over"
  /\ UNCHANGED <<request, verdict, reply, upstream, bodyVars>>

HttpNext ==
  Arrive \/ HandleFails \/ Judge \/ Forwarded \/ Unreachable \/ RelayChunk \/ ResponseEnds

HttpSpec == HttpInit /\ [][HttpNext]_httpVars

-----------------------------------------------------------------------------
(* mcp.rs:397-399: a denied frame without an identifier "is simply dropped". *)
DeniedIsDropped == verdict = "deny" => ~upstream

-----------------------------------------------------------------------------
(* What the server says, whatever the chunks. *)

(* A line begins at i and its newline is at e. *)
LineAt(i, e) ==
  /\ i = 1 \/ body[i - 1] = NL
  /\ body[e] = NL /\ \A x \in i..(e - 1) : body[x] # NL

(* It says what stands after its Data, up to its end or its Ret. *)
LastOf(e)  == IF body[e - 1] = Ret THEN e - 2 ELSE e - 1
Says(i, e) == LineAt(i, e) /\ body[i] = Data /\ LastOf(e) > i
Text(i, e) == SubSeq(body, i + 1, LastOf(e))

(* A blank line ends at i: two endings in a row, of one kind. *)
BlankLineAt(b, i) ==
  \/ i \in 2..Len(b) /\ b[i - 1] = NL /\ b[i] = NL
  \/ i \in 4..Len(b) /\ b[i - 3] = Ret /\ b[i - 2] = NL /\ b[i - 1] = Ret /\ b[i] = NL

(* The lines that say something and after which a blank line went by. *)
Said ==
  {i \in 1..relayed : \E e \in i..relayed :
     Says(i, e) /\ \E n \in (e + 1)..relayed : BlankLineAt(body, n)}

(* What is offered are the texts of these lines, each once and in order.    *)
Tells(line, out, lines) ==
  /\ line \in [1..Len(out) -> lines]
  /\ \A g, h \in 1..Len(out) : g < h => line[g] < line[h]
  /\ \A i \in lines : \E h \in 1..Len(out) : line[h] = i
  /\ \A h \in 1..Len(out) :
       \E e \in line[h]..Len(body) : Says(line[h], e) /\ out[h] = Text(line[h], e)
LinesAreHeard == \E line \in [1..Len(offered) -> Said] : Tells(line, offered, Said)

(* A stream: no plain message at its beginning or after a blank line.       *)
IsStream ==
  \A q \in 0..Len(body) : q = 0 \/ BlankLineAt(body, q) =>
    \A n \in q..Len(body) : ~IsJson(SubSeq(body, q + 1, n))

(* A plain body: one message, and no blank line. *)
IsPlain == IsJson(body) /\ \A n \in 1..Len(body) : ~BlankLineAt(body, n)

(* The message is heard when what went by is whole; the rest of it is blank.*)
MessageIsHeard ==
  \/ offered = <<>> /\ ~IsJson(SubSeq(body, 1, relayed))
  \/ \E m \in 1..relayed : offered = <<SubSeq(body, 1, m)>> /\ IsJson(SubSeq(body, 1, m))

(* What is observed of a response is what the server said, once and in      *)
(* order, no later than the blank line after it, and nothing else, wherever *)
(* the chunks are cut: unless a message is over the ceiling, or a plain     *)
(* message and a blank line stand in one body (http.rs:370-451).            *)
HeardIsSaid ==
  overran \/ ((IsStream => LinesAreHeard) /\ (IsPlain => MessageIsHeard))
=============================================================================
