----------------------------- MODULE MCElision -----------------------------
(* Small instances of Elision.                                             *)
EXTENDS Elision

CONSTANT PromptNames

Body(size, secret, image) ==
  [size |-> size, form |-> "whole", secret |-> secret, image |-> image]

Short == Body(1, FALSE, FALSE)
Long  == Body(4, TRUE, FALSE)
Image == Body(1, FALSE, TRUE)

SomeCalls ==
  {[name |-> "read", part |-> NoPart], [name |-> "write", part |-> Long],
   [name |-> "ask", part |-> NoPart]}

SomeResults ==
  {[name |-> "read", part |-> Long, error |-> FALSE],
   [name |-> "read", part |-> Long, error |-> TRUE],
   [name |-> "read", part |-> Image, error |-> FALSE],
   [name |-> "write", part |-> Short, error |-> FALSE],
   [name |-> "write", part |-> Short, error |-> TRUE],
   [name |-> "ask", part |-> Long, error |-> FALSE]}

PlainPrompts == [name : PromptNames, secret : {FALSE}]

SecretPrompts == [name : PromptNames, secret : {TRUE}]

(***************************************************************************)
(* A file an older nare left: a result was read, answered and asked about, *)
(* and every turn thought.  Elision or redaction has since rewritten the   *)
(* result, or neither has, and that nare kept the thinking.                *)
(***************************************************************************)
Thinking(m, call, text, p) ==
  Append(m, Turn([tools |-> p.tools, system |-> p.system, msgs |-> Request(m, FALSE)],
                 text, call, NoPart))

Answered(p) ==
  LET read == Thinking(<<Saying(1)>>, "read", 0, p)
      told == Append(read, [Saying(0) EXCEPT !.call = "read",
                                             !.part = Body(4, FALSE, FALSE)])
      asked == Append(Thinking(told, None, 1, p), Saying(1))
  IN  Append(Thinking(asked, None, 1, p), Saying(1))

OldFile(p, form) ==
  [msgs    |-> [Answered(p) EXCEPT ![3].part.form = form,
                                   ![3].part.size = IF form = "stub" THEN 1 ELSE 4],
   last    |-> NotMeasured,
   tools   |-> p.tools,
   system  |-> RedactedPrompt(p.system),
   retried |-> FALSE,
   vetted  |-> FALSE]

SomeOldFiles ==
  {OldFile(p, form) : p \in [tools : ToolSets, system : PlainPrompts],
                      form \in {"whole", "stub", "redacted"}}

NamesAreAlike == Permutations(ToolSets) \cup Permutations(PromptNames)
=============================================================================
