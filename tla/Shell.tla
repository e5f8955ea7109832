------------------------------- MODULE Shell -------------------------------
(***************************************************************************)
(* The shell, kernel/user/shell.c, on the screen (Console): the line       *)
(* editor, one key at a time, the splitting of the line into arguments,    *)
(* and the commands, of which it matters what they print.  main calls      *)
(* shell() again and again.  A prompt is the directory's name and "$".     *)
(***************************************************************************)
EXTENDS Console

CONSTANTS SHELL_MAX_CMD_LEN, SHELL_MAX_ARGS,
          Letters,     \* printable characters that mean nothing to the shell
          Dirs,        \* what shell_state.dir may hold
          Outputs,     \* what programs print
          MaxKeys      \* bound: keys pressed

ASSUME ShellAssumption == /\ {SHELL_MAX_CMD_LEN, SHELL_MAX_ARGS} \subseteq Nat \ {0}
                          /\ <<>> \notin Dirs /\ MaxKeys \in Nat

Quotes == {"'", "\""}
Keys   == Letters \cup Quotes \cup {" ", "\t", "bs", "\n", "esc"}   \* the last one is not printable

ASSUME LettersAssumption == Letters \cap (Quotes \cup {" ", "\t", "bs", "\n", "esc", "\r"}) = {}

VARIABLES
    at,        \* where shell() is
    dir,       \* state.dir
    cmd,       \* the first cmd_idx characters of cmd
    argv,      \* the command's arguments
    (*---------------------------------------------------------------------*)
    typed,     \* the line since the last line feed, as the user has edited it
    cut,       \* the beginning of the line was taken for a command too long
    blind,     \* a character was deleted that the screen still shows
    pressed    \* keys so far

history == <<typed, cut, blind, pressed>>
vars    == <<screen, at, dir, cmd, argv, history>>

Init == /\ ConsoleInit
        /\ at = "prompt"
        /\ dir \in Dirs
        /\ cmd = <<>> /\ argv = <<>>
        /\ typed = <<>> /\ cut = FALSE /\ blind = FALSE /\ pressed = 0

GoTo(from, to) == at = from /\ at' = to

-----------------------------------------------------------------------------
(* The line editor.                                                        *)

Prompt == dir \o <<"$">>

ShowPrompt == /\ GoTo("prompt", "key")
              /\ screen' = putsn(screen, Prompt)
              /\ cmd' = <<>>
              /\ blind' = FALSE
              /\ UNCHANGED <<dir, argv, typed, cut, pressed>>

Full == Len(cmd) >= SHELL_MAX_CMD_LEN

\* SHELL_FAIL, which main ignores: the rest of the line is the next command
TooLong == /\ Full
           /\ GoTo("key", "prompt")
           /\ screen' = putsn(screen, <<"\n", "e", "\n">>)
           /\ cut' = TRUE
           /\ UNCHANGED <<dir, cmd, argv, typed, blind, pressed>>

\* kbd_getc_blocking returns a key that action is for
Key(k) == /\ at = "key" /\ ~Full
          /\ pressed < MaxKeys /\ pressed' = pressed + 1
          /\ UNCHANGED <<dir, argv, cut>>

Enter == /\ Key("\n") /\ at' = "exec"
         /\ screen' = putc(screen, "\n")
         /\ UNCHANGED <<cmd, typed, blind>>

Backspace == /\ Key("bs") /\ at' = at
             /\ IF cmd # <<>>
                THEN /\ cmd' = Front(cmd)
                     /\ screen' = putc(screen, "bs")
                     /\ blind' = (blind \/ Column(screen) = 0)
                ELSE UNCHANGED <<cmd, screen, blind>>
             /\ typed' = IF typed # <<>> THEN Front(typed) ELSE typed

Insert(k, c) == /\ Key(k) /\ at' = at
                /\ cmd' = Append(cmd, c)
                /\ screen' = putc(screen, c)
                /\ typed' = Append(typed, c)
                /\ UNCHANGED blind

Tab == Insert("\t", " ")

Printable(k) == k \notin {"\t", "bs", "\n", "esc"} /\ Insert(k, k)

Ignored == Key("esc") /\ UNCHANGED <<at, cmd, screen, typed, blind>>

-----------------------------------------------------------------------------
(* shell_exec: the line is cut up where it stands.                         *)

\* mutant: spaces at the end stay
TrimmedFront(c) ==
    LET text == {i \in 1 .. Len(c) : c[i] # " "}
    IN  IF text = {} THEN <<>> ELSE SubSeq(c, Min(text), Len(c))

Trimmed(c) ==
    LET text == {i \in 1 .. Len(c) : c[i] # " "}
    IN  IF text = {} THEN <<>> ELSE SubSeq(c, Min(text), Max(text))

SHELL_FAIL == [ok |-> FALSE, argv |-> <<>>]

RECURSIVE Arguments(_, _)
Arguments(rest, args) ==
    LET quoted == Head(rest) \in Quotes
        text   == IF quoted THEN Tail(rest) ELSE rest
        target == IF quoted THEN Head(rest) ELSE " "
        end    == SelectInSeq(text, LAMBDA c : c = target)    \* 0 if there is none
    IN  CASE rest = <<>>                   -> [ok |-> TRUE, argv |-> args]
          [] quoted /\ end = 0             -> SHELL_FAIL
          [] Len(args) >= SHELL_MAX_ARGS   -> SHELL_FAIL
          [] end = 0                       -> [ok |-> TRUE, argv |-> Append(args, text)]
          [] OTHER -> Arguments(SubSeq(text, end + 1, Len(text)),
                                Append(args, SubSeq(text, 1, end - 1)))

shell_exec ==
    LET line == Trimmed(cmd)
        r    == IF line = <<>> THEN SHELL_FAIL ELSE Arguments(line, <<>>)
    IN  /\ GoTo("exec", IF r.ok THEN "run" ELSE "fail")
        /\ argv' = r.argv
        /\ UNCHANGED <<screen, dir, cmd, history>>

\* the call of shell() ends
Ended == /\ at' = "prompt"
         /\ argv' = <<>>
         /\ typed' = <<>>
         /\ cut' = FALSE
         /\ UNCHANGED <<cmd, blind, pressed>>

shell_builtin_clear == /\ at = "run" /\ argv[1] = <<"c">>
                       /\ screen' = printf_clear(screen)
                       /\ Ended /\ UNCHANGED dir

\* Path has what becomes of the directory
shell_builtin_cd == /\ at = "run" /\ argv[1] = <<"d">>
                    /\ \/ dir' \in Dirs /\ Len(argv) = 2 /\ UNCHANGED screen
                       \/ dir' \in Dirs /\ screen' = putsn(screen, <<"u", "\n", "e", "\n">>)
                    /\ Ended

\* a program that is not found or not loaded prints nothing and fails
RunProgram == /\ at = "run" /\ argv[1] \notin {<<"c">>, <<"d">>}
              /\ \E out \in Outputs : \E error \in {<<>>, <<"e", "\n">>} :
                    screen' = putsn(screen, out \o error)
              /\ Ended /\ UNCHANGED dir

Fail == /\ at = "fail"
        /\ screen' = putsn(screen, <<"e", "\n">>)
        /\ Ended /\ UNCHANGED dir

Next == \/ ShowPrompt \/ TooLong
        \/ Enter \/ Backspace \/ Tab \/ Ignored \/ \E k \in Keys : Printable(k)
        \/ shell_exec \/ shell_builtin_clear \/ shell_builtin_cd \/ RunProgram \/ Fail

Spec == Init /\ [][Next]_vars

-----------------------------------------------------------------------------
(* Properties.                                                             *)

(* While a line is edited, after any commands and any output, the cursor   *)
(* is on the screen, its cell is the only one in its color, and in front   *)
(* of it the screen shows the prompt and the command, over the ends of     *)
(* rows and through scrolling (printf.c:23-101).  Excepted is a line with  *)
(* a character deleted in column 0: the screen goes on showing it          *)
(* (printf.c:66-77).                                                       *)
ScreenShowsLine ==
    at = "key" =>
        /\ screen.cursor < SIZE /\ screen.lit = {screen.cursor}
        /\ ~blind => LET text == Prompt \o cmd
                     IN  \A i \in 1 .. Len(text) :
                             screen.char[screen.cursor - Len(text) + i - 1] = text[i]

(* The line as a reader takes it, character by character: its words, where *)
(* it ends, and the spaces in front of a word that end no word.            *)
NoWords == [words |-> <<>>, in |-> "gap", spaces |-> 0, gaps |-> 0]

Read(r, c) ==
    LET longer == [r EXCEPT !.words[Len(r.words)] = Append(@, c)]
        begun  == [r EXCEPT !.words = Append(@, <<>>), !.gaps = @ + r.spaces, !.spaces = 0]
    IN  CASE r.in \in Quotes            -> IF c = r.in THEN [r EXCEPT !.in = "gap"] ELSE longer
          [] r.in = "word" /\ c = " "   -> [r EXCEPT !.in = "gap"]
          [] r.in = "word"              -> longer
          [] c \in Quotes               -> [begun EXCEPT !.in = c]
          [] c = " "                    -> IF r.words = <<>> THEN r ELSE [r EXCEPT !.spaces = @ + 1]
          [] OTHER                      -> [begun EXCEPT !.in = "word", !.words[Len(begun.words)] = <<c>>]

NotEmpty(words) == SelectSeq(words, LAMBDA w : w # <<>>)

(* A command gets the words of the line that was typed, whatever was       *)
(* deleted and however it was quoted, with an empty argument more for each *)
(* space that ends no word; a line fails only if it is blank, a quote is   *)
(* open or there are too many of both (shell.c:20-65).  Excepted is the    *)
(* rest of a line that was too long (shell.c:95-99).                       *)
ArgumentsAsTyped ==
    LET r == FoldLeft(Read, NoWords, typed) IN
    ~cut =>
        /\ at = "run"  => /\ r.in \notin Quotes
                          /\ NotEmpty(argv) = NotEmpty(r.words)
                          /\ Len(argv) = Len(r.words) + r.gaps
        /\ at = "fail" => \/ r.in \in Quotes \/ r.words = <<>>
                          \/ Len(r.words) + r.gaps > SHELL_MAX_ARGS
=============================================================================
