---------------------------- MODULE CommandLines ----------------------------
(***************************************************************************)
(* How command lines are put together and taken apart: the arguments a      *)
(* Subprocess is given on Windows (dsbox_process), the words an AdbShell     *)
(* sends to the shell of a device (dsbox_android_adb), the tokens of the     *)
(* CLI (dsbox_cli), and the launch options of the mod loader                 *)
(* (dsbox_mod_loader).                                                      *)
(*                                                                         *)
(* A text is a sequence of characters, one of each class the code tells      *)
(* apart; the markers of the mod loader are one symbol each.                 *)
(***************************************************************************)
EXTENDS Integers, Sequences, SequencesExt

CONSTANT MaxText  \* bound: characters of a text

\* Assumed of the constant.
CommandLineConstants == MaxText \in Nat

VARIABLE text  \* an argument, a line of commands or launch options

Letter == "a"
Space  == " "
Quote  == "\""
Slash  == "\\"
Tick   == "'"
Begin  == "--ARG_PASS_BEGIN[["
End    == "]]ARG_PASS_END"
Main   == "--main_exec="
Argument == {Letter, Space, Quote, Slash, Tick}
Option   == {Letter, Space, Begin, End, Main}

Init == text = <<>>

\* One more character.
Extend(c) ==
    /\ Len(text) < MaxText
    /\ Range(text) \cup {c} \subseteq Argument \/ Range(text) \cup {c} \subseteq Option
    /\ text' = Append(text, c)

Next == \E c \in Argument \cup Option : Extend(c)

Spec == Init /\ [][Next]_text

-----------------------------------------------------------------------------
Times(n, c) == [i \in 1 .. n |-> c]

\* A mutated form: an empty argument, or one with a quote, is left as it is.
SpacesOnly(arg) == Space \in Range(arg)
\* appendQuotedArg(): backslashes are doubled in front of a quote, and in front
\* of the quote that ends the argument.
NeedsQuotes(arg) == arg = <<>> \/ Range(arg) \cap {Space, Quote} # {}
Escaped(s, c) ==
    CASE c = Slash -> [s EXCEPT !.slashes = @ + 1]
      [] c = Quote -> [out |-> s.out \o Times(2 * s.slashes + 1, Slash) \o <<Quote>>, slashes |-> 0]
      [] OTHER     -> [out |-> s.out \o Times(s.slashes, Slash) \o <<c>>, slashes |-> 0]
QuotedArg(arg) ==
    IF ~NeedsQuotes(arg) THEN arg
    ELSE LET s == FoldLeft(Escaped, [out |-> <<Quote>>, slashes |-> 0], arg)
         IN s.out \o Times(2 * s.slashes, Slash) \o <<Quote>>
CommandLine(args) == Tail(FlattenSeq([i \in DOMAIN args |-> <<Space>> \o QuotedArg(args[i])]))

\* quoteForShell(): in ticks, each tick of the text outside of them.
ForShell(t) ==
    <<Tick>> \o FlattenSeq([i \in DOMAIN t |-> IF t[i] = Tick THEN <<Tick, Slash, Tick, Tick>>
                                               ELSE <<t[i]>>]) \o <<Tick>>

\* tokenizeCommandLine(): words, and what is between two quotes; a quote that is
\* not closed takes the rest.
TokenStep(s, c) ==
    CASE s.mode = "between" /\ c = Space -> s
      [] s.mode = "between" /\ c = Quote -> [s EXCEPT !.mode = "quoted"]
      [] s.mode = "between"              -> [s EXCEPT !.mode = "bare", !.token = <<c>>]
      [] <<s.mode, c>> \in {<<"bare", Space>>, <<"quoted", Quote>>} ->
           [mode |-> "between", token |-> <<>>, tokens |-> Append(s.tokens, s.token)]
      [] OTHER                           -> [s EXCEPT !.token = Append(@, c)]
Tokenize(line) ==
    LET s == FoldLeft(TokenStep, [mode |-> "between", token |-> <<>>, tokens |-> <<>>], line)
    IN IF s.mode = "between" THEN s.tokens ELSE Append(s.tokens, s.token)

\* extractArgPassSection() and extractMainExecCommand()
FirstAt(t, c) == SelectInSeq(t, LAMBDA x : x = c)
Behind(t, i) == SubSeq(t, i + 1, Len(t))
Trim(t) ==
    LET ink == {i \in DOMAIN t : t[i] # Space} IN
    IF ink = {} THEN <<>>
    ELSE SubSeq(t, CHOOSE i \in ink : \A j \in ink : i <= j, CHOOSE i \in ink : \A j \in ink : i >= j)
ArgPass(t) ==
    LET b == FirstAt(t, Begin)
        e == FirstAt(Behind(t, b), End)
    IN IF b = 0 THEN [is |-> "absent", remainder |-> t, extra |-> <<>>]
       ELSE IF e = 0 THEN [is |-> "malformed", remainder |-> t, extra |-> <<>>]
       ELSE [is |-> "present", remainder |-> SubSeq(t, 1, b - 1) \o Behind(t, b + e),
             extra |-> Trim(SubSeq(t, b + 1, b + e - 1))]
MainExec(t) ==
    LET m == FirstAt(t, Main)
        rest == Behind(t, m)
    IN IF m = 0 THEN <<>> ELSE IF rest # <<>> /\ Head(rest) = Space THEN Tail(rest) ELSE rest
\* wWinMain(): what the game is started with, or <<>> when the loader refuses.
GameCommand(t) ==
    LET pass == ArgPass(t)
        game == MainExec(pass.remainder)
    IN IF pass.is = "malformed" \/ game = <<>> THEN <<>>
       ELSE IF pass.extra = <<>> THEN game ELSE game \o <<Space>> \o pass.extra

-----------------------------------------------------------------------------
\* What takes the command lines apart: CommandLineToArgvW() and a POSIX shell.
ArgvStep(s, c) ==
    CASE c = Slash -> [s EXCEPT !.slashes = @ + 1, !.begun = TRUE]
      [] c = Quote -> [s EXCEPT !.slashes = 0, !.begun = TRUE,
                                !.arg = @ \o Times(s.slashes \div 2, Slash)
                                          \o Times(s.slashes % 2, Quote),
                                !.in = IF s.slashes % 2 = 1 THEN @ ELSE ~@]
      [] c = Space /\ ~s.in ->
           [s EXCEPT !.args = IF s.begun THEN Append(@, s.arg \o Times(s.slashes, Slash)) ELSE @,
                     !.arg = <<>>, !.slashes = 0, !.begun = FALSE]
      [] OTHER -> [s EXCEPT !.arg = @ \o Times(s.slashes, Slash) \o <<c>>,
                            !.slashes = 0, !.begun = TRUE]
Argv(line) ==
    FoldLeft(ArgvStep, [args |-> <<>>, arg |-> <<>>, slashes |-> 0, in |-> FALSE, begun |-> FALSE],
             Append(line, Space)).args
ShellStep(s, c) ==
    CASE s.mode = "escape"            -> [s EXCEPT !.mode = "bare", !.word = Append(@, c)]
      [] c = Tick /\ s.mode = "tick"  -> [s EXCEPT !.mode = "bare"]
      [] s.mode = "tick"              -> [s EXCEPT !.word = Append(@, c)]
      [] c = Tick                     -> [s EXCEPT !.mode = "tick", !.begun = TRUE]
      [] c = Slash                    -> [s EXCEPT !.mode = "escape", !.begun = TRUE]
      [] c = Space                    -> [mode |-> "bare", word |-> <<>>, begun |-> FALSE,
                                          words |-> IF s.begun THEN Append(s.words, s.word) ELSE s.words]
      [] OTHER                        -> [s EXCEPT !.word = Append(@, c), !.begun = TRUE]
ShellWords(line) ==
    FoldLeft(ShellStep, [mode |-> "bare", word |-> <<>>, begun |-> FALSE, words |-> <<>>],
             Append(line, Space)).words

\* Every argument of a Subprocess arrives as it was given, next to others.
Program == <<Letter>>
ArgumentsArrive ==
    /\ Argv(CommandLine(<<Program, text, text>>)) = <<Program, text, text>>
    /\ Argv(CommandLine(<<Program, text, Program>>)) = <<Program, text, Program>>
\* A path or a name in a command for a device is one word of its shell.
ShellWordsArrive ==
    ShellWords(Program \o <<Space>> \o ForShell(text) \o <<Space>> \o Program)
        = <<Program, text, Program>>
\* What is typed at the CLI in quotes is one token, and nothing that is typed is
\* dropped, whatever quote is not closed.
Ink(t) == SelectSeq(t, LAMBDA c : c \notin {Space, Quote})
TokensKeepText ==
    /\ Quote \notin Range(text) => Tokenize(<<Quote>> \o text \o <<Quote>>) = <<text>>
    /\ Ink(FlattenSeq(Tokenize(text))) = Ink(text)
\* A block of extra arguments may stand anywhere: the game is started as without
\* it, followed by what is in the block; what is not closed starts no game.
Occurs(c) == {i \in DOMAIN text : text[i] = c}
BlockAnywhere ==
    \A b \in Occurs(Begin), e \in Occurs(End) :
        Occurs(Begin) = {b} /\ Occurs(End) = {e} =>
            LET without == SubSeq(text, 1, b - 1) \o Behind(text, e)
                extra   == Trim(SubSeq(text, b + 1, e - 1))
            IN IF e < b \/ GameCommand(without) = <<>> THEN GameCommand(text) = <<>>
               ELSE GameCommand(text) = GameCommand(without)
                        \o (IF extra = <<>> THEN <<>> ELSE <<Space>> \o extra)

Inv == ArgumentsArrive /\ ShellWordsArrive /\ TokensKeepText /\ BlockAnywhere
=============================================================================
