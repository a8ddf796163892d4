----------------------------- MODULE OpenFlags -----------------------------
(***************************************************************************)
(* The flags of open on their way from the generator of tests              *)
(* (testgen/open_flags.py) to the machine (translate_file_flags of         *)
(* mediator/builder.py with the table of mediator/enums.py).               *)
(*                                                                         *)
(* The flags of a call are the set of the bits set in its argument:        *)
(* O_RDONLY is no bit, and O_TMPFILE is a bit of its own together with     *)
(* that of O_DIRECTORY.  The flags that no guard of the machines reads     *)
(* (O_NOCTTY, O_APPEND, O_DSYNC, ...) are left out.                        *)
(***************************************************************************)
EXTENDS Naturals

-----------------------------------------------------------------------------
(* enums.py and translate_file_flags.                                      *)

FileFlags ==
    [O_RDONLY    |-> {},
     O_WRONLY    |-> {"WRONLY"},
     O_RDWR      |-> {"RDWR"},
     O_CREAT     |-> {"CREAT"},
     O_EXCL      |-> {"EXCL"},
     O_TRUNC     |-> {"TRUNC"},
     O_DIRECTORY |-> {"DIRECTORY"},
     O_CLOEXEC   |-> {"CLOEXEC"},
     O_PATH      |-> {"PATH"},
     O_TMPFILE   |-> {"TMPFILE", "DIRECTORY"}]

ACCESS_MODES == {"O_RDONLY", "O_WRONLY", "O_RDWR"}

\* The first assertion: every bit is one of some flag.
Translatable(flags) == flags \subseteq UNION {FileFlags[f] : f \in DOMAIN FileFlags}

\* Seeded slip: O_RDONLY is looked for like a bit.
translate_file_flags_NoDefault(flags) ==
    {f \in DOMAIN FileFlags : FileFlags[f] \cap flags # {}}

\* Linux discards O_WRONLY when O_RDWR is set as well.
translate_file_flags(flags) ==
    LET flags1 == flags \ {"WRONLY", "RDWR"}
    IN  {IF "RDWR" \in flags THEN "O_RDWR"
         ELSE IF "WRONLY" \in flags THEN "O_WRONLY" ELSE "O_RDONLY"}
          \cup {f \in DOMAIN FileFlags \ ACCESS_MODES : FileFlags[f] \subseteq flags1}

-----------------------------------------------------------------------------
(* open_flags.py: one formula per case of MC/DC over the guards of         *)
(* open_create and open_exists, and an assignment the solver finds for it. *)
(* An assignment is the set of the variables that are true.                *)

VARS == [open_create |-> {"creat", "tmpfile", "rdonly", "wronly", "rdwr", "path"},
         open_exists |-> {"path", "creat", "excl", "rdonly", "wronly", "rdwr",
                          "directory", "is_folder"}]

SomeMode(a) == a \cap {"rdonly", "wronly", "rdwr"} # {}
OneMode(a) == \A v, w \in a \cap {"rdonly", "wronly", "rdwr"} : v = w
Writes(a) == a \cap {"wronly", "rdwr"} # {}

open_create_guards(a) ==
    [grd11 |-> a \cap {"creat", "tmpfile"} # {},
     grd12 |-> SomeMode(a),
     grd13 |-> OneMode(a),
     grd14 |-> "tmpfile" \in a => Writes(a),
     grd18 |-> "path" \notin a]

open_exists_guards(a) ==
    [grd9  |-> "path" \in a \/ ~({"creat", "excl"} \subseteq a),
     grd10 |-> SomeMode(a),
     grd11 |-> OneMode(a),
     grd12 |-> "is_folder" \in a => "path" \in a \/ ~Writes(a),
     grd15 |-> "directory" \in a => "is_folder" \in a,
     grd16 |-> "directory" \in a => a \cap {"path", "rdonly"} # {},
     grd21 |-> {"directory", "creat"} \subseteq a => "path" \in a,
     grd22 |-> {"creat", "is_folder"} \subseteq a => "path" \in a]

guards(event, a) == IF event = "open_create" THEN open_create_guards(a)
                                             ELSE open_exists_guards(a)

\* A case is about the guard grd, whose atoms it fixes (the variables of on
\* are true, those of off false, one of some is true if there are any), and
\* asks for all other guards.
Case(event, grd, on, off) ==
    [event |-> event, grd |-> grd, on |-> on, off |-> off, some |-> {}]
CaseSome(event, grd, on, off, some) ==
    [event |-> event, grd |-> grd, on |-> on, off |-> off, some |-> some]

\* None of the access modes, and each of them.
ModeCases(event, grd) ==
    LET modes == {"rdonly", "wronly", "rdwr"}
    IN  {Case(event, grd, on, modes \ on) : on \in {{}} \cup {{v} : v \in modes}}

open_create_flags ==
    LET C(grd, on, off) == Case("open_create", grd, on, off) IN
    {C("grd11", {}, {"creat", "tmpfile"}), C("grd11", {"creat"}, {"tmpfile"}),
     C("grd11", {"tmpfile"}, {"creat"}),
     C("grd14", {"tmpfile"}, {"wronly", "rdwr"}),
     C("grd14", {}, {"tmpfile", "wronly", "rdwr"}),
     C("grd14", {"tmpfile", "wronly"}, {"rdwr"}),
     C("grd14", {"tmpfile", "rdwr"}, {"wronly"}),
     C("grd18", {}, {"path"}), C("grd18", {"path"}, {})}
      \cup ModeCases("open_create", "grd12")

open_exists_flags ==
    LET C(grd, on, off) == Case("open_exists", grd, on, off) IN
    {C("grd9", {"creat", "excl"}, {"path"}), C("grd9", {"path", "creat", "excl"}, {}),
     C("grd9", {"excl"}, {"path", "creat"}), C("grd9", {"creat"}, {"path", "excl"}),
     C("grd12", {"is_folder", "wronly"}, {"path", "rdwr"}),
     C("grd12", {"is_folder", "rdwr"}, {"path", "wronly"}),
     CaseSome("open_exists", "grd12", {}, {"is_folder", "path"}, {"wronly", "rdwr"}),
     CaseSome("open_exists", "grd12", {"is_folder", "path"}, {}, {"wronly", "rdwr"}),
     C("grd12", {"is_folder"}, {"path", "wronly", "rdwr"}),
     C("grd15", {"directory"}, {"is_folder"}), C("grd15", {}, {"directory", "is_folder"}),
     C("grd15", {"directory", "is_folder"}, {}),
     C("grd22", {"creat", "is_folder"}, {"path"}),
     C("grd22", {"path", "creat", "is_folder"}, {}),
     C("grd22", {"is_folder"}, {"path", "creat"}),
     C("grd22", {"creat"}, {"path", "is_folder"})}
      \cup ModeCases("open_exists", "grd10")

CASES == open_create_flags \cup open_exists_flags

\* The assignment a satisfies the formula of the case c.
Satisfies(a, c) ==
    /\ c.on \subseteq a
    /\ c.off \cap a = {}
    /\ c.some # {} => c.some \cap a # {}
    /\ LET holds == guards(c.event, a) IN \A grd \in DOMAIN holds \ {c.grd} : holds[grd]

\* What the solver may find; a case without a solution has no test.
solve(c) == {a \in SUBSET VARS[c.event] : Satisfies(a, c)}
TESTS == UNION {{[case |-> c, model |-> a] : a \in solve(c)} : c \in CASES}

FlagOf ==
    [creat |-> "O_CREAT", tmpfile |-> "O_TMPFILE", rdonly |-> "O_RDONLY",
     wronly |-> "O_WRONLY", rdwr |-> "O_RDWR", path |-> "O_PATH",
     excl |-> "O_EXCL", directory |-> "O_DIRECTORY"]

\* The argument of the call in the generated test.
model_to_flags(a) == UNION {FileFlags[FlagOf[v]] : v \in a \ {"is_folder"}}

\* Back to an assignment: what the guards of event see in the flags the
\* machine receives for a call of a file or of a directory.
Seen(event, flags, isFolder) ==
    {v \in VARS[event] \ {"is_folder"} : FlagOf[v] \in flags}
      \cup (IF isFolder THEN VARS[event] \cap {"is_folder"} ELSE {})
=============================================================================
