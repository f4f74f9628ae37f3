----------------------------- MODULE UsageParse -----------------------------
(***************************************************************************)
(* Reading the token counts of an answer (usage_parse.rs).  A streamed     *)
(* answer arrives in chunks that end anywhere; the accumulator puts lines  *)
(* together and keeps the largest value seen of every count.               *)
(***************************************************************************)
EXTENDS Integers, Sequences

CONSTANTS
  Absent,   \* a field the provider left out
  Newline,  \* the byte that ends a line
  Payloads, \* what a `data:` line may hold, parsed
  Noise     \* lines that are not read: event names, [DONE], broken text

Count0 == Nat \cup {Absent}

\* Field(u, key).unwrap_or(0)
Field(n) == IF n = Absent THEN 0 ELSE n

Usage == [tin : Nat, tout : Nat, cached : Nat, creation : Nat]
NoUsage == [tin |-> 0, tout |-> 0, cached |-> 0, creation |-> 0]

\* A body or an event: where its usage block is, and the counts in it, by what
\* they mean: `input` and `output` are prompt_tokens and completion_tokens for
\* OpenAI, input_tokens and output_tokens for Anthropic.
Payload == [kind : {"openai", "anthropic", "message_start", "none"},
            input : Count0, output : Count0, cached : Count0, creation : Count0]

\* OpenAI's prompt_tokens includes the cached ones.
FromOpenai(p) ==
  [tin |-> Field(p.input), tout |-> Field(p.output),
   cached |-> Field(p.cached), creation |-> Field(p.creation)]

\* Anthropic's tokens are taken as OpenAI's (a seeded fault).
FromAnthropicAsIs(p) == FromOpenai(p)

\* Anthropic's input_tokens leaves them out.
FromAnthropic(p) ==
  [tin |-> Field(p.input) + Field(p.cached) + Field(p.creation), tout |-> Field(p.output),
   cached |-> Field(p.cached), creation |-> Field(p.creation)]

\* extract_usage_from_value(): the block under `message` first, then the
\* format by the names of the fields, so that a block of OpenAI's without
\* either total reads as one of Anthropic's, with none of the cache counts.
Extract(p) ==
  CASE p.kind = "message_start" -> FromAnthropic(p)
    [] p.kind = "openai" /\ (p.input # Absent \/ p.output # Absent) -> FromOpenai(p)
    [] p.kind = "anthropic" -> FromAnthropic(p)
    [] OTHER -> NoUsage

Larger(a, b) == IF a < b THEN b ELSE a
Merge(u, v) ==
  [tin |-> Larger(u.tin, v.tin), tout |-> Larger(u.tout, v.tout),
   cached |-> Larger(u.cached, v.cached), creation |-> Larger(u.creation, v.creation)]

-----------------------------------------------------------------------------
(* Bytes: a line is its halves and a newline; only a whole line parses. *)

Lines == Payloads \cup Noise
ASSUME UsageAssumption ==
  /\ Payloads \subseteq Payload /\ Absent \notin Nat
  /\ \A line \in Lines, half \in {1, 2} : Newline # [of |-> line, half |-> half]

Halves(line) == <<[of |-> line, half |-> 1], [of |-> line, half |-> 2]>>
Bytes(lines, terminated) ==
  [i \in 1..(3 * Len(lines) - (IF terminated THEN 0 ELSE 1)) |->
     IF i % 3 = 0 THEN Newline ELSE Halves(lines[(i + 2) \div 3])[i % 3]]

\* process_line(), with or without the newline.
ProcessLine(line, usage) ==
  IF \E p \in Payloads : line = Halves(p)
  THEN Merge(usage, Extract(CHOOSE p \in Payloads : line = Halves(p)))
  ELSE usage

Empty == [buf |-> <<>>, usage |-> NoUsage]

\* ingest(), over the bytes of a chunk: a newline completes the line.
Byte(acc, byte) ==
  IF byte = Newline THEN [buf |-> <<>>, usage |-> ProcessLine(acc.buf, acc.usage)]
  ELSE [acc EXCEPT !.buf = Append(@, byte)]

\* The accumulator after each byte of a chunk.
After(acc, chunk) ==
  LET upto[n \in 0..Len(chunk)] == IF n = 0 THEN acc ELSE Byte(upto[n - 1], chunk[n])
  IN upto

\* Every chunk begins a line (a seeded fault).
IngestForgetful(acc, chunk) == After([acc EXCEPT !.buf = <<>>], chunk)[Len(chunk)]

Ingest(acc, chunk) == After(acc, chunk)[Len(chunk)]

\* finish() flushes the last line, which may have no newline.
Finish(acc) == IF acc.buf = <<>> THEN acc.usage ELSE ProcessLine(acc.buf, acc.usage)
=============================================================================
