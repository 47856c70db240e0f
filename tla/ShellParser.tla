------------------------------ MODULE ShellParser -----------------------------
(***************************************************************************)
(* The parser of a shell line: shell/parser_redir.c.  A line is a sequence *)
(* of characters; the words it is cut into are its sub-sequences.          *)
(***************************************************************************)
EXTENDS FsPath, FiniteSets

CONSTANT ArgvCap      \* SHELL_PARSE_ARGV_CAP

Space == 32       \* the only is_space that a line can hold
Bar == 124
More == 62
Special == {Bar, More}

Token(kind, word, rest, pending) == [kind |-> kind, word |-> word, rest |-> rest, pending |-> pending]

\* The first k such that s[k] is a character of Stop, or the end of s.
UpTo(s, Stop) == Min({k \in DOMAIN s : s[k] \in Stop} \cup {Len(s) + 1})
Skip(s, k) == SubSeq(s, k + 1, Len(s))
StartsWith(s, ch) == s # <<>> /\ s[1] = ch

\* parse_next_token: the cursor is rest, the rest of the line.  A special character
\* that ends a word is kept in pending, and looked at in the next call, after the
\* spaces that follow it have been skipped.
parse_next_token(cursor, pending) ==
  LET skipped == {k \in 0 .. Len(cursor) : \A j \in 1 .. k : cursor[j] = Space}
      line == Skip(cursor, Max(skipped))
      n == UpTo(line, Special \cup {Space})
  IN  IF pending # 0
        THEN IF pending = Bar THEN Token("pipe", <<>>, line, 0)
             ELSE IF StartsWith(line, More) THEN Token("append", <<>>, Tail(line), 0)
             ELSE Token("trunc", <<>>, line, 0)
      ELSE IF line = <<>> THEN Token("end", <<>>, line, 0)
      ELSE IF line[1] = Bar THEN Token("pipe", <<>>, Tail(line), 0)
      ELSE IF line[1] = More
        THEN IF StartsWith(Tail(line), More) THEN Token("append", <<>>, Tail(Tail(line)), 0)
             ELSE Token("trunc", <<>>, Tail(line), 0)
      ELSE Token("word", SubSeq(line, 1, n - 1), Skip(line, n),
                 IF n <= Len(line) /\ line[n] \in Special THEN line[n] ELSE 0)

ParseError == [ok |-> FALSE, left |-> <<>>, right |-> <<>>, pipe |-> FALSE,
               redir |-> "none", path |-> <<>>]

\* Mutant: a redirection may be given twice; the last one counts.
token_redir_again(s, token) == [s EXCEPT !.redir = token.kind, !.need = TRUE]

token_redir(s, token) ==
  IF s.redir # "none" THEN [s EXCEPT !.ok = FALSE]
  ELSE [s EXCEPT !.redir = token.kind, !.need = TRUE]

token_pipe(s) ==
  IF s.pipe \/ s.redir # "none" \/ s.left = <<>> THEN [s EXCEPT !.ok = FALSE]
  ELSE [s EXCEPT !.pipe = TRUE]

token_word(s, word) ==
  LET argv == IF s.pipe THEN s.right ELSE s.left
  IN  IF s.need THEN [s EXCEPT !.path = word, !.need = FALSE]
      ELSE IF s.redir # "none" \/ Len(argv) >= ArgvCap THEN [s EXCEPT !.ok = FALSE]
      ELSE IF s.pipe THEN [s EXCEPT !.right = Append(@, word)]
      ELSE [s EXCEPT !.left = Append(@, word)]

\* One turn of the loop; need is need_redir_path.
ParseToken(s) ==
  LET token == parse_next_token(s.cursor, s.pending)
      at == [s EXCEPT !.cursor = token.rest, !.pending = token.pending]
  IN  CASE token.kind = "end" -> [at EXCEPT !.done = TRUE]
        [] token.kind = "word" -> token_word(at, token.word)
        [] token.kind # "word" /\ s.need -> [at EXCEPT !.ok = FALSE]
        [] token.kind = "pipe" /\ ~s.need -> token_pipe(at)
        [] token.kind \in {"trunc", "append"} /\ ~s.need -> token_redir(at, token)

\* Every token but a pending one takes a character off the line.
shell_parse_with_redirection(line) ==
  LET start == [ok |-> TRUE, left |-> <<>>, right |-> <<>>, pipe |-> FALSE, redir |-> "none",
                path |-> <<>>, need |-> FALSE, cursor |-> line, pending |-> 0, done |-> FALSE]
      after[n \in 0 .. 2 * Len(line) + 1] ==
        IF n = 0 THEN start
        ELSE LET s == after[n - 1] IN IF s.done \/ ~s.ok THEN s ELSE ParseToken(s)
      end == after[2 * Len(line) + 1]
  IN  IF ~end.ok \/ end.need \/ end.left = <<>> \/ (end.pipe /\ end.right = <<>>) THEN ParseError
      ELSE [f \in DOMAIN ParseError |-> end[f]]

-------------------------------------------------------------------------------
(* Reference *)

\* The grammar of a line: words, a bar and words if there is a pipe, and one or two
\* ">" followed by one word if there is a redirection.  The two may be apart when
\* the first one follows a word directly: "a> >f" appends, "a > >f" is an error.
GrammarParse(line) ==
  LET n == Len(line)
      bars == {i \in 1 .. n : line[i] = Bar}
      mores == {i \in 1 .. n : line[i] = More}
      bar == IF bars = {} THEN Min(mores \cup {n + 1}) ELSE Min(bars)
      more == Min(mores \cup {n + 1})
      left == Runs(SubSeq(line, 1, bar - 1), {Space})
      right == Runs(SubSeq(line, bar + 1, more - 1), {Space})
      path == Runs(SubSeq(line, Max(mores) + 1, n), {Space})
      doubled == /\ Cardinality(mores) = 2
                 /\ \A i \in Min(mores) + 1 .. Max(mores) - 1 : line[i] = Space
                 /\ \/ Max(mores) = Min(mores) + 1
                    \/ Min(mores) > 1 /\ line[Min(mores) - 1] \notin {Space, Bar}
      valid ==
        /\ Cardinality(bars) <= 1 /\ bar <= more
        /\ mores # {} => (Cardinality(mores) = 1 \/ doubled) /\ Len(path) = 1
        /\ left # <<>> /\ Len(left) <= ArgvCap
        /\ bars # {} => right # <<>> /\ Len(right) <= ArgvCap
  IN  IF ~valid THEN ParseError
      ELSE [ok |-> TRUE, left |-> left, right |-> IF bars = {} THEN <<>> ELSE right,
            pipe |-> bars # {},
            redir |-> IF mores = {} THEN "none" ELSE IF doubled THEN "append" ELSE "trunc",
            path |-> IF mores = {} THEN <<>> ELSE path[1]]
===============================================================================
