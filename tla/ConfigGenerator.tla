--------------------------- MODULE ConfigGenerator ---------------------------
(***************************************************************************)
(* generate_config_file: the configuration file is put together, line by   *)
(* line and file by file, from the template and from the .sup files its    *)
(* include directives name.  The text is gathered in a buffer that grows.  *)
(*                                                                         *)
(* The text of a line or a file is a sequence of elements below the root   *)
(* element, plus its size in bytes; the root's own tags are in lines that  *)
(* contribute no element.  The template is not edited while it is read.    *)
(***************************************************************************)
EXTENDS Naturals, Sequences, FiniteSets

CONSTANTS InitBuffer,  \* INIT_BUFFER_SIZE (512)
          IncBuffer,   \* INC_BUFFER_SIZE (1024)
          Templates,   \* what the template and the included files may hold
          Unparsable   \* a file xmlParseFile cannot make a document of

Nodes(seq) == {seq[i] : i \in DOMAIN seq}

\* A piece of the configuration: its length in bytes and the nodes it holds.
IsPiece(p) == p.size \in Nat /\ p.nodes \in Seq(Nodes(p.nodes))

\* A file of an include directive: has it the suffix .sup, and can it be read?
\* A "vanishing" one is there when its type is looked up and gone when it is
\* opened.
IsFile(f) ==
    /\ f.sup \in BOOLEAN
    /\ f.state \in {"readable", "unreadable", "vanishing"}
    /\ IsPiece(f)

\* A line of the template: text, or an include directive that names a file, a
\* directory or neither.
IsLine(l) ==
    \/ l.kind = "text" /\ l.size # 0 /\ IsPiece(l)
    \/ l.kind = "file" /\ \E f \in l.files : l.files = {f} /\ IsFile(f)
    \/ l.kind = "dir" /\ \A f \in l.files : IsFile(f)
    \/ l.kind = "none"

ASSUME GeneratorAssumption ==
    /\ InitBuffer \in Nat \ {0} /\ IncBuffer \in Nat \ {0}
    /\ \A t \in Templates : /\ Len(t) \in Nat /\ DOMAIN t = 1..Len(t)
                            /\ \A i \in 1..Len(t) : IsLine(t[i])

VARIABLES template,   \* templ_config_file and its files, while they are read
          gstate,     \* where generate_config_file is
          line,       \* the number of the line in hand
          todo,       \* directory entries that have not been visited yet
          buffer,     \* gener_cont: allocated, mem_size, mem_used
          text,       \* what the buffer holds
          gener       \* gener_config_file, until it is parsed

genvars == <<template, gstate, line, todo, buffer, text, gener>>

NoBuffer == [alloc |-> FALSE, mem_size |-> 0, mem_used |-> 0]

GenInit ==
    /\ template = <<>>
    /\ gstate = "idle" /\ line = 1 /\ todo = {}
    /\ buffer = NoBuffer /\ text = <<>> /\ gener = Unparsable

\* Mutant: a text that fills the rest of the buffer to the last byte fits.
SpaceWithoutTerminator(b, needed_size) ==
    IF ~b.alloc THEN [alloc |-> TRUE, mem_size |-> InitBuffer + needed_size,
                      mem_used |-> 0]
    ELSE IF b.mem_size - b.mem_used < needed_size
    THEN [b EXCEPT !.mem_size = @ + IncBuffer + needed_size]
    ELSE b

check_buffer_space(b, needed_size) ==
    IF ~b.alloc THEN [alloc |-> TRUE, mem_size |-> InitBuffer + needed_size,
                      mem_used |-> 0]
    ELSE IF b.mem_size - b.mem_used <= needed_size
    THEN [b EXCEPT !.mem_size = @ + IncBuffer + needed_size]
    ELSE b

\* A piece of the text behind what the buffer holds.
Appended(piece) ==
    /\ buffer' = LET b == check_buffer_space(buffer, piece.size)
                 IN  [b EXCEPT !.mem_used = @ + piece.size]
    /\ text' = text \o piece.nodes

\* Both files are opened; the generated one is empty from here on.  The operator
\* may have edited the template and its files since the last time.
BeginGenerating ==
    /\ gstate = "idle"
    /\ gstate' = "reading"
    /\ template' \in Templates
    /\ UNCHANGED <<line, todo, buffer, text, gener>>

NextLine == line' = line + 1

\* The files are closed and the buffer is freed.
Leaves(result) ==
    /\ gstate' = result
    /\ line' = 1 /\ todo' = {} /\ buffer' = NoBuffer /\ text' = <<>>

Fails == Leaves("failed")

Reading(kind) ==
    /\ gstate = "reading" /\ line <= Len(template) /\ template[line].kind = kind
    /\ UNCHANGED <<template, gener>>

AppendLine ==
    /\ Reading("text")
    /\ Appended(template[line])
    /\ NextLine /\ UNCHANGED <<gstate, todo>>

\* An include of a single file.  One that cannot be read is no file for
\* check_file_type_perm, and no directory either.
IncludeFile ==
    /\ Reading("file")
    /\ \E f \in template[line].files :
          \/ f.state = "unreadable" /\ Fails
          \/ f.state = "vanishing" /\ f.sup /\ Fails
          \/ /\ f.state # "unreadable" /\ ~f.sup
             /\ NextLine /\ UNCHANGED <<gstate, todo, buffer, text>>
          \/ /\ f.state = "readable" /\ f.sup
             /\ Appended(f) /\ NextLine /\ UNCHANGED <<gstate, todo>>

IncludeNothing == Reading("none") /\ Fails

OpenDirectory ==
    /\ Reading("dir")
    /\ gstate' = "directory" /\ todo' = template[line].files
    /\ UNCHANGED <<line, buffer, text>>

\* Mutant: every readable file of the directory is included.
AnySuffix(f) == f.state = "readable"

Included(f) == f.sup /\ f.state = "readable"

\* readdir gives the entries in any order.
ReadEntry ==
    /\ gstate = "directory"
    /\ \E f \in todo :
          \/ f.sup /\ f.state = "vanishing" /\ Fails
          \/ /\ Included(f)
             /\ todo' = todo \ {f}
             /\ Appended(f) /\ UNCHANGED <<gstate, line>>
          \/ /\ ~Included(f) /\ ~(f.sup /\ f.state = "vanishing")
             /\ todo' = todo \ {f}
             /\ UNCHANGED <<gstate, line, buffer, text>>
    /\ UNCHANGED <<template, gener>>

CloseDirectory ==
    /\ gstate = "directory" /\ todo = {}
    /\ gstate' = "reading" /\ NextLine
    /\ UNCHANGED <<template, todo, buffer, text, gener>>

\* Without a single piece the buffer is NULL and "(null)" is written.
FinishGenerating ==
    /\ gstate = "reading" /\ line > Len(template)
    /\ Leaves("generated")
    /\ gener' = IF buffer.alloc THEN text ELSE Unparsable
    /\ UNCHANGED template

generate_config_file ==
    \/ AppendLine \/ IncludeFile \/ IncludeNothing
    \/ OpenDirectory \/ ReadEntry \/ CloseDirectory
    \/ FinishGenerating

\* The caller has parsed the file; nobody reads it again.
EndGenerating ==
    /\ gstate \in {"generated", "failed"} /\ gstate' = "idle"
    /\ template' = <<>> /\ gener' = Unparsable
    /\ UNCHANGED <<line, todo, buffer, text>>

GenNext == BeginGenerating \/ generate_config_file \/ EndGenerating

GenSpec == GenInit /\ [][GenNext]_genvars

-----------------------------------------------------------------------------

(***************************************************************************)
(* Every piece goes where there is room for it and for the zero that ends  *)
(* the text: sprintf writes one behind the line, and fprintf("%s") at the  *)
(* end reads up to one (check_buffer_space).                               *)
(***************************************************************************)
RoomForText == buffer.alloc => buffer.mem_used < buffer.mem_size

\* The elements that line l stands for.
LineNodes(l) ==
    IF l.kind = "text" THEN Nodes(l.nodes)
    ELSE UNION {Nodes(f.nodes) : f \in {g \in l.files : g.sup /\ g.state = "readable"}}

(***************************************************************************)
(* README: generation replaces "include directives in XML template with    *)
(* the content of the .sup files".  A generation that succeeds has every   *)
(* element of every line and of every .sup file, and no other; one that    *)
(* fails leaves nothing a reload could load.                               *)
(***************************************************************************)
GeneratedWhole ==
    gstate = "generated" /\ gener # Unparsable =>
        Nodes(gener) = UNION {LineNodes(template[i]) : i \in DOMAIN template}
=============================================================================
