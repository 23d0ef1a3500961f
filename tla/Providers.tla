------------------------------ MODULE Providers ------------------------------
(***************************************************************************)
(* One reply asked of the configured providers: the attempts at a request, *)
(* the reply put together from the stream of each kind of provider, what a *)
(* person is shown of it as it arrives, and the fallback from a provider   *)
(* that failed to the next.                                                *)
(*                                                                         *)
(* A kind is the dialect spoken: "chat" completions, "messages",           *)
(* "responses", or a "process" whose output is the reply.  A reply is      *)
(* pieces of text and tool calls; a call's arguments come in Parts parts.  *)
(***************************************************************************)
EXTENDS Naturals, Sequences

CONSTANTS
  Chains,       \* the providers there may be: the active one and its fallbacks
  Retries,      \* Config.provider_retries
  MaxPieces,    \* bound of the model: pieces of text in a reply
  MaxMade,      \* bound of the model: tool calls in a reply
  Parts         \* bound of the model: parts a call's arguments come in

Kinds == {"chat", "messages", "responses", "process"}
Made == 1 .. MaxMade

ASSUME ChainsAssumption == Chains \subseteq Seq(Kinds) /\ <<>> \notin Chains
ASSUME RepliesAssumption ==
  Retries \in Nat /\ MaxPieces \in Nat \ {0} /\ MaxMade \in Nat /\ Parts \in Nat \ {0}

VARIABLES
  chain,        \* the providers, in the order they are tried
  index,        \* the one that is asked
  attempt,      \* the attempt at its request
  stage,        \* "sending", "streaming", "replied" or "failed"
  numbers,      \* whether its server numbers the calls it streams
  sent,         \* what its server has sent: pieces, and parts of each call
  text,         \* the pieces put together so far
  made,         \* the calls put together so far, by their place
  ended,        \* how the server ended the reply: "no", "stop" or "length"
  buffer,       \* what a provider of several emitted, until it has replied
  emitted,      \* what reached the run's events
  reply,        \* what complete returned
  attempts      \* requests sent to each provider (history)

assembly == <<sent, text, made, ended>>
providersVars == <<chain, index, attempt, stage, numbers, assembly, buffer, emitted, reply,
                   attempts>>

Kind == chain[index]
HasFallback == Len(chain) > 1
Streaming == stage = "streaming" /\ ended = "no"

Piece(n) == [what |-> "text", of |-> index, number |-> n]
Tells(what) == [what |-> what, of |-> index, number |-> 0]
Pieces(n) == [k \in 1 .. n |-> Piece(k)]
Part(c, n) == <<c, n>>
WholeCall(c) == [id |-> c, parts |-> [n \in 1 .. Parts |-> Part(c, n)]]

NothingSent == [pieces |-> 0, parts |-> [c \in Made |-> 0], opened |-> 0]
NoReply == [text |-> <<>>, calls |-> <<>>]
StartsOver == sent' = NothingSent /\ text' = <<>> /\ made' = <<>> /\ ended' = "no"

ProvidersInit ==
  /\ chain \in Chains /\ index = 1 /\ attempt = 1 /\ stage = "sending"
  /\ numbers \in BOOLEAN
  /\ sent = NothingSent /\ text = <<>> /\ made = <<>> /\ ended = "no"
  /\ buffer = <<>> /\ emitted = <<>> /\ reply = NoReply
  /\ attempts = [i \in 1 .. Len(chain) |-> 0]

(* With several providers, each writes into a buffer of its own.           *)
Emits(new) ==
  \/ HasFallback /\ buffer' = buffer \o new /\ UNCHANGED emitted
  \/ ~HasFallback /\ emitted' = emitted \o new /\ UNCHANGED buffer

-----------------------------------------------------------------------------
(* The request.                                                            *)

(* The next provider is asked, what this one emitted is dropped; after the *)
(* last one the request has failed.                                        *)
ProviderFails ==
  /\ \/ /\ index < Len(chain)
        /\ index' = index + 1 /\ attempt' = 1 /\ stage' = "sending"
     \/ /\ index = Len(chain)
        /\ stage' = "failed" /\ UNCHANGED <<index, attempt>>
  /\ buffer' = <<>>
  /\ StartsOver
  /\ UNCHANGED <<chain, numbers, emitted, reply>>

Asks == stage = "sending" /\ attempts' = [attempts EXCEPT ![index] = @ + 1]

Accepted ==
  /\ Asks
  /\ stage' = "streaming"
  /\ UNCHANGED <<chain, index, attempt, numbers, assembly, buffer, emitted, reply>>

(* A fault: the first attempt is not counted.                              *)
MayRetry_OneMore == attempt <= Retries + 1
MayRetry == attempt < Retries + 1

(* An error that may be gone a moment later is told, waited out and the    *)
(* request sent again, as long as there are attempts.                      *)
FailsForNow ==
  /\ Asks /\ Kind # "process"
  /\ \/ /\ MayRetry
        /\ attempt' = attempt + 1
        /\ Emits(<<Tells("retry")>>)
        /\ UNCHANGED <<chain, index, stage, numbers, assembly, reply>>
     \/ ~MayRetry /\ ProviderFails

(* A refusal for good, a request that cannot be built, a command that does *)
(* not start, or a prompt it cannot take.                                  *)
FailsForGood == Asks /\ ProviderFails

-----------------------------------------------------------------------------
(* The reply.                                                              *)

PieceArrives ==
  /\ Streaming /\ sent.pieces < MaxPieces
  /\ sent' = [sent EXCEPT !.pieces = @ + 1]
  /\ text' = Append(text, Piece(sent.pieces + 1))
  /\ Emits(<<Piece(sent.pieces + 1)>>)
  /\ UNCHANGED <<chain, index, attempt, stage, numbers, made, ended, reply, attempts>>

(* A fault: without a number every part belongs to the first call.         *)
Slot_First(c, opens) == IF Kind = "messages" \/ numbers THEN c ELSE 1

(* The place of what names call c, or carries on what came last.  Without  *)
(* a number, a new id is a new call and no id is more of the last.         *)
Slot(c, opens) ==
  IF Kind = "messages" \/ numbers THEN c
  ELSE IF made = <<>> \/ (opens /\ made[Len(made)].id # c) THEN Len(made) + 1
  ELSE Len(made)

Placed(c, opens, parts) ==
  LET slot == Slot(c, opens)
      known == slot \in DOMAIN made
      before == IF known THEN made[slot] ELSE [id |-> 0, parts |-> <<>>]
      now == [id |-> IF opens THEN c ELSE before.id, parts |-> before.parts \o parts]
  IN made' = IF known THEN [made EXCEPT ![slot] = now] ELSE Append(made, now)

Untouched == UNCHANGED <<chain, index, attempt, stage, numbers, text, ended, buffer, emitted,
                         reply, attempts>>

(* The id and name of the next call.  A server that numbers its calls may  *)
(* open one before the last is whole.                                      *)
CallOpens ==
  /\ Streaming /\ Kind \in {"chat", "messages"}
  /\ sent.opened < MaxMade
  /\ ~numbers /\ Kind = "chat" /\ sent.opened > 0 =>
       sent.parts[sent.opened] \in {0, Parts}
  /\ sent' = [sent EXCEPT !.opened = @ + 1]
  /\ Placed(sent.opened + 1, TRUE, <<>>)
  /\ Untouched

(* More of the arguments of call c.                                        *)
PartArrives(c) ==
  /\ Streaming /\ c <= sent.opened /\ sent.parts[c] < Parts
  /\ ~numbers /\ Kind = "chat" => c = sent.opened
  /\ sent' = [sent EXCEPT !.parts[c] = @ + 1]
  /\ Placed(c, FALSE, <<Part(c, sent.parts[c] + 1)>>)
  /\ Untouched

EndsWith(how) ==
  /\ Streaming /\ ended' = how
  /\ UNCHANGED <<chain, index, attempt, stage, numbers, reply, attempts>>

(* A finish reason, message_stop, or a process that exits well.            *)
StreamEnds ==
  /\ Kind # "responses"
  /\ \A c \in 1 .. sent.opened : sent.parts[c] \in {0, Parts}
  /\ EndsWith("stop")
  /\ UNCHANGED <<sent, text, made, buffer, emitted>>

(* A chat reply cut off at its limit is kept, and says so in its text.     *)
CutOff ==
  /\ Kind = "chat"
  /\ EndsWith("length")
  /\ text' = Append(text, Tells("cut off"))
  /\ Emits(<<Tells("cut off")>>)
  /\ UNCHANGED <<sent, made>>

(* response.completed carries the whole reply.                             *)
Completes(n) ==
  /\ Kind = "responses"
  /\ EndsWith("stop")
  /\ sent' = [sent EXCEPT !.opened = n, !.parts = [c \in Made |-> IF c <= n THEN Parts ELSE 0]]
  /\ made' = [c \in 1 .. n |-> WholeCall(c)]
  /\ UNCHANGED <<text, buffer, emitted>>

(* A body that is no stream, or a process's output: shown when it is here. *)
BodyArrives(n) ==
  /\ Kind # "messages" /\ sent = NothingSent
  /\ Kind = "process" => n = 0
  /\ EndsWith("stop")
  /\ sent' = [pieces |-> 1, opened |-> n,
              parts |-> [c \in Made |-> IF c <= n THEN Parts ELSE 0]]
  /\ text' = <<Piece(1)>> /\ made' = [c \in 1 .. n |-> WholeCall(c)]
  /\ Emits(<<Piece(1)>>)

(* An error in the stream, a filtered or refused reply, a connection that  *)
(* breaks or falls silent, more than fits, or a body that ends too early.  *)
(* A chat stream is read on after its finish reason.                       *)
StreamFails ==
  /\ stage = "streaming"
  /\ ended = "no" \/ Kind = "chat"
  /\ UNCHANGED attempts
  /\ ProviderFails

(* The arguments of a call: whole, none at all, or text that is no JSON.   *)
Arguments(parts) ==
  CASE parts = <<>> -> "{}"
    [] Len(parts) = Parts -> "whole"
    [] OTHER -> "invalid"

Returned ==
  [text |-> text,
   calls |-> [c \in DOMAIN made |->
                [id |-> made[c].id, parts |-> made[c].parts,
                 arguments |-> Arguments(made[c].parts)]]]

(* The reply is returned, after what its provider emitted.  A Responses    *)
(* reply with neither text nor calls is a failure.                         *)
Returns ==
  /\ stage = "streaming" /\ ended # "no"
  /\ UNCHANGED attempts
  /\ \/ Kind = "responses" /\ text = <<>> /\ made = <<>> /\ ProviderFails
     \/ /\ Kind = "responses" => text # <<>> \/ made # <<>>
        /\ reply' = Returned
        /\ stage' = "replied"
        /\ emitted' = emitted \o (IF index > 1 THEN <<Tells("fallback")>> ELSE <<>>) \o buffer
        /\ buffer' = <<>>
        /\ UNCHANGED <<chain, index, attempt, numbers, assembly>>

ReplyEnded == stage \in {"replied", "failed"} /\ UNCHANGED providersVars

ProvidersNext ==
  \/ Accepted \/ FailsForNow \/ FailsForGood
  \/ PieceArrives \/ CallOpens \/ (\E c \in Made : PartArrives(c))
  \/ StreamEnds \/ CutOff \/ StreamFails \/ Returns
  \/ \E n \in 0 .. MaxMade : Completes(n) \/ BodyArrives(n)
  \/ ReplyEnded

ProvidersSpec == ProvidersInit /\ [][ProvidersNext]_providersVars

-----------------------------------------------------------------------------
Told == [what : {"text", "retry", "fallback", "cut off"}, of : 1 .. Len(chain),
         number : 0 .. MaxPieces]

ProvidersTypeOK ==
  /\ chain \in Chains /\ index \in 1 .. Len(chain) /\ attempt \in 1 .. Retries + 1
  /\ stage \in {"sending", "streaming", "replied", "failed"} /\ numbers \in BOOLEAN
  /\ sent \in [pieces : 0 .. MaxPieces, parts : [Made -> 0 .. Parts], opened : 0 .. MaxMade]
  /\ text \in Seq(Told) /\ buffer \in Seq(Told) /\ emitted \in Seq(Told)
  /\ made \in Seq([id : Made, parts : Seq(Made \X (1 .. Parts))])
  /\ ended \in {"no", "stop", "length"}
  /\ DOMAIN attempts = 1 .. Len(chain)

(* The events show this text, after notices of retries and of a fallback.  *)
Shows(events, said) ==
  \E k \in 0 .. Len(events) :
    /\ Len(events) = k + Len(said)
    /\ \A i \in 1 .. k : events[i].what \in {"retry", "fallback"}
    /\ \A i \in 1 .. Len(said) : events[k + i] = said[i]

(* Every call the server sent, in its order and with its own arguments,    *)
(* which are broken only when the reply was cut off.                       *)
CallsAreTheirOwn ==
  /\ Len(reply.calls) = sent.opened
  /\ \A c \in 1 .. sent.opened :
       /\ reply.calls[c].id = c
       /\ reply.calls[c].parts = [n \in 1 .. sent.parts[c] |-> Part(c, n)]
       /\ reply.calls[c].arguments = "invalid" => ended = "length"

(* A reply is all of what one provider sent and only that: its text is     *)
(* what was shown, once, whichever dialect streamed it and however many    *)
(* providers failed before; of a provider that failed before another       *)
(* replied nothing was shown; and no provider is asked more often than the *)
(* retries allow.                                                          *)
ReplyIsWhole ==
  /\ stage = "replied" =>
       /\ ended # "no"
       /\ reply.text = Pieces(sent.pieces) \o (IF ended = "length" THEN <<Tells("cut off")>>
                                                                   ELSE <<>>)
       /\ Shows(emitted, reply.text)
       /\ CallsAreTheirOwn
  /\ stage = "failed" /\ HasFallback => emitted = <<>>
  /\ \A i \in DOMAIN attempts :
       /\ attempts[i] <= Retries + 1
       /\ i > index => attempts[i] = 0
=============================================================================
