-------------------------------- MODULE Path --------------------------------
(***************************************************************************)
(* Paths, kernel/disk/path.c, and the two directories they are kept in:    *)
(* the shell's, which `cd' changes, and the running program's, a copy of   *)
(* it that setcwd changes.                                                 *)
(* A path is a sequence of characters; only the separator, the dot and     *)
(* that there are others matter.  Every buffer has PATH_MAX bytes.         *)
(* path_simplify writes to the end of the buffer it reads from; the input  *)
(* is two shorter than the buffer (path.c:67-72), and what the loop has    *)
(* written is never longer than what it has read, so the two do not meet.  *)
(***************************************************************************)
EXTENDS Integers, Sequences, SequencesExt

CONSTANTS PATH_MAX,  \* bytes of a path's buffer
          Letters,   \* the characters of names other than the dot
          ArgMax,    \* bound: characters of what a user or a program names
          Existing   \* the directories there are, as sequences of names (file.c's)

SEP == "/"
DOT == "."

Paths(n) == BoundedSeq({SEP, DOT} \cup Letters, n)

ASSUME PathAssumption == /\ PATH_MAX \in Nat /\ PATH_MAX > 2
                         /\ ArgMax \in Nat
                         /\ {SEP, DOT} \cap Letters = {}

VARIABLES
    dir,        \* shell_state.dir
    udir,       \* program_data.dir, or NoProgram
    (*---------------------------------------------------------------------*)
    where,      \* the directory the user has asked for, as a sequence of names
    sound,      \* no cd since the last absolute one failed or left the root twice
    uwhere,     \* the same of the program's
    usound
shellVars   == <<dir, where, sound>>
programVars == <<udir, uwhere, usound>>
vars        == <<shellVars, programVars>>

NoProgram == <<"none">>

-----------------------------------------------------------------------------
(* path.c.  A result is the text in dest and whether the call succeeded.   *)

Min2(a, b) == IF a < b THEN a ELSE b

path_copy(source, size) == SubSeq(source, 1, Min2(Len(source), size - 1))

IsAbsolute(p) == p # <<>> /\ Head(p) = SEP

\* at most one leading separator; s is how far the path is read
RECURSIVE OneLeading(_)
OneLeading(s) == IF Len(s) > 1 /\ s[1] = SEP /\ s[2] = SEP THEN OneLeading(Tail(s)) ELSE s

DropTrailing(p) == IF Len(p) > 1 /\ Last(p) = SEP THEN Front(p) ELSE p

RECURSIVE DropSeps(_)
DropSeps(s) == IF s # <<>> /\ Last(s) = SEP THEN DropSeps(Front(s)) ELSE s

\* the characters behind the last separator
Component(s) == LET n == SelectLastInSeq(s, LAMBDA c : c = SEP)
                IN  SubSeq(s, n + 1, Len(s))

(* One component, from the right: . is dropped, .. is counted, and a name  *)
(* (the empty one before the root's separator too) pays for a .. .         *)
TakeComponent(c, r) ==
    CASE c = <<DOT>>      -> [r EXCEPT !.drop = TRUE]
      [] c = <<DOT, DOT>> -> [r EXCEPT !.drop = TRUE, !.dots = @ + 1]
      [] OTHER            -> IF r.dots > 0
                             THEN [r EXCEPT !.drop = TRUE, !.dots = @ - 1]
                             ELSE [r EXCEPT !.out = c \o @]

TakeSep(s, r) ==
    CASE Last(s) # SEP            -> r
      [] ~ r.drop \/ Len(s) = 1   -> [r EXCEPT !.out = <<SEP>> \o @]
      [] OTHER                    -> [r EXCEPT !.drop = FALSE]

\* the loop: s is left to read
RECURSIVE Scan(_, _)
Scan(s, r) ==
    IF s = <<>> THEN r
    ELSE LET t == DropSeps(s)
             c == Component(t)
         IN  Scan(SubSeq(t, 1, Len(t) - Len(c)), TakeComponent(c, TakeSep(s, r)))

\* ../ for each .. that no name has paid for, as long as three bytes are left
RECURSIVE AddDots(_, _)
AddDots(n, out) ==
    CASE n = 0                   -> [text |-> out, ok |-> TRUE]
      [] PATH_MAX < Len(out) + 5 -> [text |-> out, ok |-> FALSE]
      [] OTHER -> AddDots(n - 1, <<DOT, DOT>> \o
                     (IF out = <<>> \/ Head(out) = SEP THEN out ELSE <<SEP>> \o out))

\* what a call that fails there leaves: the output, at the end of the path's own buffer
Overwritten(p, out) ==
    IF Len(p) < PATH_MAX - 1 - Len(out) THEN p
    ELSE SubSeq(p, 1, PATH_MAX - 1 - Len(out)) \o out

\* mutant: a path that fills the buffer is let through
TooLongByMore(p) == Len(p) >= PATH_MAX

TooLong(p) == Len(p) + 1 >= PATH_MAX

path_simplify(p) ==
    LET s       == OneLeading(DropTrailing(p))
        r       == Scan(s, [out |-> <<>>, dots |-> 0, drop |-> FALSE])
        up      == AddDots(r.dots, r.out)
        leading == IsAbsolute(s) /\ ~ (Len(r.out) > 1 /\ r.out[2] = SEP)
    IN  CASE TooLong(p) -> [text |-> p, ok |-> FALSE]
          [] r.dots > 0 -> [up EXCEPT !.text = IF up.ok THEN @ ELSE Overwritten(p, @)]
          [] r.drop /\ ~ leading /\ r.out # <<>> -> [text |-> Tail(r.out), ok |-> TRUE]
          [] OTHER      -> [text |-> r.out, ok |-> TRUE]

\* nothing is joined, and nothing simplified, if the first path fills the buffer
path_concat(a, b) ==
    IF Len(a) + 1 >= PATH_MAX
    THEN [text |-> path_copy(a, PATH_MAX), ok |-> TRUE]
    ELSE path_simplify(a \o <<SEP>> \o path_copy(b, PATH_MAX - Len(a) - 1))

path_load(parent, child) ==
    IF IsAbsolute(child) THEN path_simplify(path_copy(child, PATH_MAX))
    ELSE path_concat(parent, child)

\* the names path_next finds, left to right
RECURSIVE Names(_)
Names(p) == IF DropSeps(p) = <<>> THEN <<>>
            ELSE LET t == DropSeps(p)
                     c == Component(t)
                 IN  Append(Names(SubSeq(t, 1, Len(t) - Len(c))), c)

path_exists(p) == IsAbsolute(p) /\ Names(p) \in Existing

-----------------------------------------------------------------------------
(* The commands and calls.                                                 *)

Args == Paths(ArgMax)

Init == /\ dir = <<SEP>> /\ where = <<>> /\ sound = TRUE
        /\ udir = NoProgram /\ uwhere = <<>> /\ usound = TRUE

\* from the directory `at', one name after the other; up counts the .. at the root
RECURSIVE Walk(_, _, _)
Walk(at, names, up) ==
    IF names = <<>> THEN [at |-> at, up |-> up]
    ELSE LET c == Head(names)
         IN  CASE c = <<DOT>> -> Walk(at, Tail(names), up)
               [] c = <<DOT, DOT>> /\ at = <<>> -> Walk(at, Tail(names), up + 1)
               [] c = <<DOT, DOT>> /\ at # <<>> -> Walk(Front(at), Tail(names), up)
               [] OTHER -> Walk(Append(at, c), Tail(names), up)

Asked(at, arg) == Walk(IF IsAbsolute(arg) THEN <<>> ELSE at, Names(arg), 0)

(* shell_builtin_cd, while no program runs.  path_load gets the directory  *)
(* as its input and as its buffer: what a failing call has written stays.  *)
cd(arg) ==
    LET r     == path_load(dir, arg)
        asked == Asked(where, arg)
    IN  /\ udir = NoProgram
        /\ dir' = r.text
        /\ sound' = (r.ok /\ (IsAbsolute(arg) \/ sound) /\ asked.up <= 1)
        /\ where' = IF sound' THEN asked.at ELSE <<>>
        /\ UNCHANGED programVars

\* any file there is may be a program; fileopen refuses a path that is not absolute
user_mode_start ==
    /\ udir = NoProgram
    /\ \E name \in Args : path_load(dir, name).ok /\ IsAbsolute(path_load(dir, name).text)
    /\ udir' = path_copy(dir, PATH_MAX)
    /\ uwhere' = where
    /\ usound' = sound
    /\ UNCHANGED shellVars

\* mutant: the path is loaded into the program's directory, as cd does it
setcwdInPlace(arg) ==
    LET r     == path_load(udir, arg)
        asked == Asked(uwhere, arg)
    IN  /\ udir # NoProgram
        /\ udir' = r.text
        /\ IF r.ok /\ path_exists(r.text)
           THEN /\ usound' = (IsAbsolute(arg) \/ usound)
                /\ uwhere' = IF usound' THEN asked.at ELSE <<>>
           ELSE UNCHANGED <<uwhere, usound>>
        /\ UNCHANGED shellVars

\* temp_path, and only then the program's directory; a failing call changes neither
setcwd(arg) ==
    LET r     == path_load(udir, arg)
        asked == Asked(uwhere, arg)
    IN  /\ udir # NoProgram
        /\ r.ok /\ path_exists(r.text)
        /\ udir' = path_copy(r.text, PATH_MAX)
        /\ usound' = (IsAbsolute(arg) \/ usound)
        /\ uwhere' = IF usound' THEN asked.at ELSE <<>>
        /\ UNCHANGED shellVars

user_mode_end ==
    /\ udir # NoProgram
    /\ udir' = NoProgram /\ uwhere' = <<>> /\ usound' = TRUE
    /\ UNCHANGED shellVars

Next == \/ \E arg \in Args : cd(arg) \/ setcwd(arg)
        \/ user_mode_start \/ user_mode_end

Spec == Init /\ [][Next]_vars

-----------------------------------------------------------------------------
(* Properties.                                                             *)

(* A directory and its terminator fit into PATH_MAX bytes.                 *)
TypeOK ==
    /\ \A d \in {dir, udir} \ {NoProgram} :
          d \in Seq({SEP, DOT} \cup Letters) /\ Len(d) < PATH_MAX
    /\ {sound, usound} \subseteq BOOLEAN

\* p is absolute, has its separators single and leads file.c to the directory `at'
LeadsTo(p, at) ==
    /\ IsAbsolute(p) /\ Names(p) = at
    /\ \A k \in 1 .. Len(p) - 1 : ~ (p[k] = SEP /\ p[k + 1] = SEP)

(* path_simplify goes from right to left, over a buffer that it reads and  *)
(* writes; still the directory is the one a walk from left to right comes  *)
(* to, through any sequence of cds, and none is cut off unnoticed          *)
(* (path.c:13-30, 59-169).  Excepted are a cd that fails, which leaves its *)
(* unsimplified text (shell_builtins.c:18), and one with two .. more than  *)
(* there are names, after which the path is not absolute (path.c:140-156). *)
(* Always there is room for the terminator.                                *)
ShellDirIsAsked == TypeOK /\ (sound => LeadsTo(dir, where))

(* So it is for a program, whose directory is a copy of the shell's, and a *)
(* failing setcwd leaves it where it was (user_functions.c:25-35).         *)
ProgramDirIsAsked == udir # NoProgram /\ usound => LeadsTo(udir, uwhere)
=============================================================================
