------------------------ MODULE ConfigDocument_proofs ------------------------
(***************************************************************************)
(* The reload of the configuration.                                        *)
(*                                                                         *)
(* The first part is about generate_config_file: what it does with its     *)
(* buffer and with the lines of the template, for every template, every    *)
(* set of files and every size of the buffer; and the same for the         *)
(* generation as the supervisor uses it, between reloads, callbacks, starts *)
(* and terminations.                                                       *)
(*                                                                         *)
(* The second part is about the document: for every document that the      *)
(* validation accepts and every table, the apply phase leaves in the table *)
(* what the document says.  The loops of the apply phase are recursive     *)
(* functions, about which Recursion has the theorems; InsertInv, ModulesInv *)
(* and DocumentLoopInv are their invariants.                               *)
(***************************************************************************)
EXTENDS ConfigDocument, SequenceTheorems, FiniteSetTheorems, TLAPS

-----------------------------------------------------------------------------
(* The inductive invariant. *)

BufferType ==
    buffer \in [alloc : BOOLEAN, mem_size : Nat, mem_used : Nat]

\* What the first n lines of the template stand for.
LinesDone(n) == UNION {LineNodes(template[i]) : i \in 1..n}

\* The .sup files among fs that can be read.
Readable(fs) == {g \in fs : g.sup /\ g.state = "readable"}

FilesNodes(fs) == UNION {Nodes(f.nodes) : f \in Readable(fs)}

TemplateInv ==
    /\ template = <<>> \/ template \in Templates
    /\ line \in Nat \ {0}
    /\ text \in Seq(Nodes(text))

\* Between two generations there is no text.
RestInv == gstate \notin {"reading", "directory"} => line = 1 /\ text = <<>>

\* The text has what the lines before this one stand for.
ReadingInv ==
    gstate = "reading" =>
        /\ template \in Templates /\ line \in 1..(Len(template) + 1)
        /\ Nodes(text) = LinesDone(line - 1)

\* In a directory it has, besides, what the visited files hold.
DirectoryInv ==
    gstate = "directory" =>
        /\ template \in Templates /\ line \in 1..Len(template)
        /\ template[line].kind = "dir" /\ todo \subseteq template[line].files
        /\ Nodes(text) = LinesDone(line - 1)
                             \cup FilesNodes(template[line].files \ todo)

GenInv ==
    /\ BufferType /\ RoomForText
    /\ TemplateInv /\ RestInv /\ ReadingInv /\ DirectoryInv
    /\ GeneratedWhole

-----------------------------------------------------------------------------
(* The buffer. *)

(***************************************************************************)
(* Appending one text to another leaves a text with the nodes of both      *)
(* (sprintf and fread behind mem_used).                                    *)
(***************************************************************************)
LEMMA Concatenation ==
    ASSUME NEW s, NEW t, s \in Seq(Nodes(s)), t \in Seq(Nodes(t))
    PROVE  /\ Nodes(s \o t) = Nodes(s) \cup Nodes(t)
           /\ s \o t \in Seq(Nodes(s \o t))
<1> DEFINE S == Nodes(s) \cup Nodes(t)
<1>1. s \in Seq(S) /\ t \in Seq(S)
    OBVIOUS
<1>2. /\ Len(s \o t) = Len(s) + Len(t) /\ s \o t \in Seq(S)
      /\ Len(s) \in Nat /\ Len(t) \in Nat
      /\ DOMAIN s = 1..Len(s) /\ DOMAIN t = 1..Len(t)
      /\ DOMAIN (s \o t) = 1..(Len(s) + Len(t))
    BY <1>1
<1>3. \A i \in 1..(Len(s) + Len(t)) :
          (s \o t)[i] = IF i <= Len(s) THEN s[i] ELSE t[i - Len(s)]
    BY <1>1
<1>4. Nodes(s \o t) \subseteq S
  <2>1. ASSUME NEW i \in 1..(Len(s) + Len(t)) PROVE (s \o t)[i] \in S
    <3>1. CASE i <= Len(s)
        BY <3>1, <1>2, <1>3 DEF Nodes
    <3>2. CASE ~(i <= Len(s))
      <4>1. i - Len(s) \in DOMAIN t
          BY <3>2, <1>2
      <4> QED BY <4>1, <3>2, <1>3 DEF Nodes
    <3> QED BY <3>1, <3>2
  <2> QED BY <2>1, <1>2 DEF Nodes
<1>5. Nodes(s) \subseteq Nodes(s \o t)
  <2>1. ASSUME NEW i \in DOMAIN s PROVE s[i] \in Nodes(s \o t)
    <3>1. i \in 1..(Len(s) + Len(t)) /\ i <= Len(s)
        BY <1>2
    <3>2. (s \o t)[i] = s[i]
        BY <3>1, <1>3
    <3> QED BY <3>1, <3>2, <1>2 DEF Nodes
  <2> QED BY <2>1 DEF Nodes
<1>6. Nodes(t) \subseteq Nodes(s \o t)
  <2>1. ASSUME NEW i \in DOMAIN t PROVE t[i] \in Nodes(s \o t)
    <3>1. /\ Len(s) + i \in 1..(Len(s) + Len(t)) /\ ~(Len(s) + i <= Len(s))
          /\ (Len(s) + i) - Len(s) = i
        BY <1>2
    <3>2. (s \o t)[Len(s) + i] = t[i]
        BY <3>1, <1>3
    <3> QED BY <3>1, <3>2, <1>2 DEF Nodes
  <2> QED BY <2>1 DEF Nodes
<1>7. Nodes(s \o t) = S
    BY <1>4, <1>5, <1>6
<1> QED BY <1>2, <1>7

(***************************************************************************)
(* After check_buffer_space there is room for the piece and for a zero     *)
(* behind it, in a buffer that had room for the zero before.               *)
(***************************************************************************)
LEMMA Space ==
    ASSUME NEW b \in [alloc : BOOLEAN, mem_size : Nat, mem_used : Nat],
           b.alloc => b.mem_used < b.mem_size, NEW n \in Nat
    PROVE  LET c == check_buffer_space(b, n)
           IN  /\ c \in [alloc : BOOLEAN, mem_size : Nat, mem_used : Nat]
               /\ c.alloc /\ c.mem_used + n < c.mem_size
<1>1. InitBuffer \in Nat \ {0} /\ IncBuffer \in Nat \ {0}
    BY GeneratorAssumption
<1>2. CASE ~b.alloc
    BY <1>1, <1>2 DEF check_buffer_space
<1>3. CASE b.alloc /\ b.mem_size - b.mem_used <= n
    BY <1>1, <1>3 DEF check_buffer_space
<1>4. CASE b.alloc /\ ~(b.mem_size - b.mem_used <= n)
    BY <1>4 DEF check_buffer_space
<1> QED BY <1>2, <1>3, <1>4

(***************************************************************************)
(* A piece that is appended keeps the buffer in order and adds its nodes.  *)
(***************************************************************************)
LEMMA AppendedPiece ==
    ASSUME BufferType, RoomForText, TemplateInv, NEW p, IsPiece(p), Appended(p)
    PROVE  /\ BufferType' /\ RoomForText'
           /\ text' \in Seq(Nodes(text'))
           /\ Nodes(text') = Nodes(text) \cup Nodes(p.nodes)
<1> DEFINE c == check_buffer_space(buffer, p.size)
<1>1. /\ c \in [alloc : BOOLEAN, mem_size : Nat, mem_used : Nat]
      /\ c.alloc /\ c.mem_used + p.size < c.mem_size
    BY Space DEF BufferType, RoomForText, IsPiece
<1>2. buffer' = [c EXCEPT !.mem_used = @ + p.size]
    BY DEF Appended
<1>3. p.size \in Nat
    BY DEF IsPiece
<1> HIDE DEF c
<1>4. BufferType' /\ RoomForText'
    BY <1>1, <1>2, <1>3 DEF BufferType, RoomForText
<1>5. text' = text \o p.nodes
    BY DEF Appended
<1> QED BY <1>4, <1>5, Concatenation DEF TemplateInv, IsPiece

-----------------------------------------------------------------------------
(* The lines of the template. *)

(***************************************************************************)
(* The line in hand is a line of the template and adds its own nodes to    *)
(* those of the lines before it.                                           *)
(***************************************************************************)
LEMMA LineInHand ==
    ASSUME template \in Templates, line \in 1..Len(template)
    PROVE  /\ IsLine(template[line])
           /\ line + 1 \in 1..(Len(template) + 1) /\ line + 1 \in Nat \ {0}
           /\ LinesDone((line + 1) - 1)
                 = LinesDone(line - 1) \cup LineNodes(template[line])
<1>1. Len(template) \in Nat /\ \A i \in 1..Len(template) : IsLine(template[i])
    BY GeneratorAssumption
<1>2. 1..((line + 1) - 1) = (1..(line - 1)) \cup {line}
    BY <1>1
<1> QED BY <1>1, <1>2 DEF LinesDone

(***************************************************************************)
(* A step that stays within the lines: the nodes of the text are those of  *)
(* the lines before the next one.                                          *)
(***************************************************************************)
LEMMA NextLineStep ==
    ASSUME GenInv, gstate' = "reading", template' = template, line' = line + 1,
           template \in Templates, line \in 1..Len(template),
           BufferType', RoomForText', text' \in Seq(Nodes(text')),
           Nodes(text') = LinesDone(line - 1) \cup LineNodes(template[line])
    PROVE  GenInv'
<1>1. /\ line + 1 \in 1..(Len(template) + 1) /\ line + 1 \in Nat \ {0}
      /\ Nodes(text') = LinesDone((line + 1) - 1)
    BY LineInHand
<1>2. TemplateInv'
    BY <1>1 DEF TemplateInv
<1>3. ReadingInv'
    BY <1>1 DEF ReadingInv, LinesDone
<1> QED BY <1>2, <1>3 DEF GenInv, RestInv, DirectoryInv, GeneratedWhole

\* Where a line is read, it is one of the template and the text is up to it.
LEMMA ReadingLine ==
    ASSUME GenInv, NEW kind, Reading(kind)
    PROVE  /\ template \in Templates /\ line \in 1..Len(template)
           /\ template' = template /\ template[line].kind = kind
           /\ Nodes(text) = LinesDone(line - 1) /\ IsLine(template[line])
<1>1. /\ gstate = "reading" /\ line <= Len(template) /\ template' = template
      /\ template[line].kind = kind
    BY DEF Reading
<1>2. /\ template \in Templates /\ line \in 1..(Len(template) + 1)
      /\ Nodes(text) = LinesDone(line - 1)
    BY <1>1 DEF GenInv, ReadingInv
<1>3. line \in 1..Len(template)
    BY <1>1, <1>2, GeneratorAssumption
<1> QED BY <1>1, <1>2, <1>3, LineInHand

(***************************************************************************)
(* A generation that fails leaves no buffer and no text behind.            *)
(***************************************************************************)
LEMMA FailsStep ==
    ASSUME GenInv, Fails, template' = template
    PROVE  GenInv'
<1>1. /\ gstate' = "failed" /\ line' = 1 /\ todo' = {}
      /\ buffer' = NoBuffer /\ text' = <<>>
    BY DEF Fails, Leaves
<1>2. BufferType' /\ RoomForText'
    BY <1>1 DEF BufferType, RoomForText, NoBuffer
<1>3. TemplateInv'
    BY <1>1 DEF GenInv, TemplateInv
<1> QED BY <1>1, <1>2, <1>3 DEF GenInv, RestInv, ReadingInv, DirectoryInv,
                                GeneratedWhole

(***************************************************************************)
(* A single file is the only one of its directive.                         *)
(***************************************************************************)
LEMMA SingleFile ==
    ASSUME NEW l, IsLine(l), l.kind = "file", NEW f \in l.files
    PROVE  /\ IsPiece(f)
           /\ f.sup /\ f.state = "readable" => LineNodes(l) = Nodes(f.nodes)
           /\ ~f.sup => LineNodes(l) = {}
<1>1. l.files = {f} /\ IsFile(f)
    BY DEF IsLine
<1>2. LineNodes(l) = UNION {Nodes(g.nodes) : g \in {h \in {f} : h.sup /\ h.state = "readable"}}
    BY <1>1 DEF LineNodes
<1> QED BY <1>1, <1>2 DEF IsFile

-----------------------------------------------------------------------------
(* One lemma for each action. *)

LEMMA AppendLineStep ==
    ASSUME GenInv, AppendLine PROVE GenInv'
<1>1. /\ template \in Templates /\ line \in 1..Len(template) /\ template' = template
      /\ template[line].kind = "text" /\ Nodes(text) = LinesDone(line - 1)
      /\ IsLine(template[line])
    BY ReadingLine DEF AppendLine
<1>2. IsPiece(template[line]) /\ LineNodes(template[line]) = Nodes(template[line].nodes)
    BY <1>1 DEF IsLine, LineNodes
<1>3. /\ BufferType' /\ RoomForText' /\ text' \in Seq(Nodes(text'))
      /\ Nodes(text') = Nodes(text) \cup Nodes(template[line].nodes)
    BY <1>2, AppendedPiece DEF AppendLine, GenInv
<1>4. gstate' = "reading" /\ line' = line + 1
    BY DEF AppendLine, Reading, NextLine
<1> QED BY <1>1, <1>2, <1>3, <1>4, NextLineStep

LEMMA IncludeFileStep ==
    ASSUME GenInv, IncludeFile PROVE GenInv'
<1>1. /\ template \in Templates /\ line \in 1..Len(template) /\ template' = template
      /\ template[line].kind = "file" /\ Nodes(text) = LinesDone(line - 1)
      /\ IsLine(template[line])
    BY ReadingLine DEF IncludeFile
<1>2. gstate = "reading"
    BY DEF IncludeFile, Reading
<1>3. CASE Fails
    BY <1>1, <1>3, FailsStep
<1>4. ASSUME NEW f \in template[line].files, ~f.sup,
             NextLine, UNCHANGED <<gstate, todo, buffer, text>>
      PROVE  GenInv'
  <2>1. LineNodes(template[line]) = {}
      BY <1>1, <1>4, SingleFile
  <2>2. BufferType' /\ RoomForText' /\ text' \in Seq(Nodes(text'))
      BY <1>4 DEF GenInv, BufferType, RoomForText, TemplateInv
  <2> QED BY <1>1, <1>2, <1>4, <2>1, <2>2, NextLineStep DEF NextLine
<1>5. ASSUME NEW f \in template[line].files, f.state = "readable", f.sup,
             Appended(f), NextLine, UNCHANGED <<gstate, todo>>
      PROVE  GenInv'
  <2>1. IsPiece(f) /\ LineNodes(template[line]) = Nodes(f.nodes)
      BY <1>1, <1>5, SingleFile
  <2>2. /\ BufferType' /\ RoomForText' /\ text' \in Seq(Nodes(text'))
        /\ Nodes(text') = Nodes(text) \cup Nodes(f.nodes)
      BY <1>5, <2>1, AppendedPiece DEF GenInv
  <2> QED BY <1>1, <1>2, <1>5, <2>1, <2>2, NextLineStep DEF NextLine
<1> QED BY <1>3, <1>4, <1>5 DEF IncludeFile

LEMMA OpenDirectoryStep ==
    ASSUME GenInv, OpenDirectory PROVE GenInv'
<1>1. /\ template \in Templates /\ line \in 1..Len(template) /\ template' = template
      /\ template[line].kind = "dir" /\ Nodes(text) = LinesDone(line - 1)
    BY ReadingLine DEF OpenDirectory
<1>2. /\ gstate' = "directory" /\ todo' = template[line].files
      /\ line' = line /\ buffer' = buffer /\ text' = text
    BY DEF OpenDirectory
<1>3. FilesNodes(template[line].files \ todo') = {}
    BY <1>2 DEF FilesNodes, Readable
<1>4. DirectoryInv'
    BY <1>1, <1>2, <1>3 DEF DirectoryInv, LinesDone, FilesNodes, Readable
<1>5. TemplateInv'
    BY <1>1, <1>2 DEF GenInv, TemplateInv
<1> QED BY <1>2, <1>4, <1>5 DEF GenInv, BufferType, RoomForText, RestInv,
                                ReadingInv, GeneratedWhole

LEMMA ReadEntryStep ==
    ASSUME GenInv, ReadEntry PROVE GenInv'
<1> DEFINE files == template[line].files
<1>1. /\ gstate = "directory" /\ template' = template
      /\ template \in Templates /\ line \in 1..Len(template)
      /\ template[line].kind = "dir" /\ todo \subseteq files
      /\ Nodes(text) = LinesDone(line - 1) \cup FilesNodes(files \ todo)
    BY DEF ReadEntry, GenInv, DirectoryInv
<1>2. \A f \in files : IsFile(f)
    BY <1>1, LineInHand DEF IsLine
<1>3. CASE Fails
    BY <1>1, <1>3, FailsStep
<1>4. ASSUME NEW f \in todo, todo' = todo \ {f}, UNCHANGED <<gstate, line>>,
             BufferType', RoomForText', text' \in Seq(Nodes(text')),
             Nodes(text') = Nodes(text) \cup FilesNodes({f})
      PROVE  GenInv'
  <2>1. files \ todo' = (files \ todo) \cup {f}
      BY <1>1, <1>4
  <2>2. FilesNodes(files \ todo') = FilesNodes(files \ todo) \cup FilesNodes({f})
      BY <2>1 DEF FilesNodes, Readable
  <2>3. DirectoryInv'
    <3>1. Nodes(text') = LinesDone(line - 1) \cup FilesNodes(files \ todo')
        BY <1>1, <1>4, <2>2
    <3>2. LinesDone(line - 1)' = LinesDone(line - 1) /\ files' = files
        BY <1>1, <1>4 DEF LinesDone
    <3>3. FilesNodes(files \ todo)' = FilesNodes(files \ todo')
        BY <3>2 DEF FilesNodes, Readable
    <3> QED BY <1>1, <1>4, <3>1, <3>2, <3>3 DEF DirectoryInv
  <2>4. TemplateInv'
      BY <1>1, <1>4 DEF GenInv, TemplateInv
  <2> QED BY <1>1, <1>4, <2>3, <2>4 DEF GenInv, RestInv, ReadingInv, GeneratedWhole
<1>5. ASSUME NEW f \in todo, Included(f), todo' = todo \ {f}, Appended(f),
             UNCHANGED <<gstate, line>>
      PROVE  GenInv'
  <2>1. IsPiece(f)
      BY <1>1, <1>2 DEF IsFile
  <2>2. /\ BufferType' /\ RoomForText' /\ text' \in Seq(Nodes(text'))
        /\ Nodes(text') = Nodes(text) \cup Nodes(f.nodes)
      BY <1>5, <2>1, AppendedPiece DEF GenInv
  <2>3. FilesNodes({f}) = Nodes(f.nodes)
      BY <1>5 DEF FilesNodes, Readable, Included
  <2> QED BY <1>4, <1>5, <2>2, <2>3
<1>6. ASSUME NEW f \in todo, ~Included(f), todo' = todo \ {f},
             UNCHANGED <<gstate, line, buffer, text>>
      PROVE  GenInv'
  <2>1. BufferType' /\ RoomForText' /\ text' \in Seq(Nodes(text'))
      BY <1>6 DEF GenInv, BufferType, RoomForText, TemplateInv
  <2>2. FilesNodes({f}) = {}
      BY <1>6 DEF FilesNodes, Readable, Included
  <2> QED BY <1>4, <1>6, <2>1, <2>2
<1> QED BY <1>3, <1>5, <1>6 DEF ReadEntry

LEMMA CloseDirectoryStep ==
    ASSUME GenInv, CloseDirectory PROVE GenInv'
<1>1. /\ template \in Templates /\ line \in 1..Len(template)
      /\ template[line].kind = "dir" /\ todo = {}
      /\ Nodes(text) = LinesDone(line - 1) \cup FilesNodes(template[line].files \ todo)
    BY DEF CloseDirectory, GenInv, DirectoryInv
<1>2. LineNodes(template[line]) = FilesNodes(template[line].files \ todo)
    BY <1>1 DEF LineNodes, FilesNodes, Readable
<1>3. /\ gstate' = "reading" /\ line' = line + 1 /\ template' = template
      /\ buffer' = buffer /\ text' = text
    BY DEF CloseDirectory, NextLine
<1>4. BufferType' /\ RoomForText' /\ text' \in Seq(Nodes(text'))
    BY <1>3 DEF GenInv, BufferType, RoomForText, TemplateInv
<1> QED BY <1>1, <1>2, <1>3, <1>4, NextLineStep

LEMMA FinishStep ==
    ASSUME GenInv, FinishGenerating PROVE GenInv'
<1>1. /\ gstate' = "generated" /\ line' = 1 /\ text' = <<>> /\ buffer' = NoBuffer
      /\ template' = template /\ gener' = IF buffer.alloc THEN text ELSE Unparsable
      /\ gstate = "reading" /\ line > Len(template)
    BY DEF FinishGenerating, Leaves
<1>2. /\ template \in Templates /\ line \in 1..(Len(template) + 1)
      /\ Nodes(text) = LinesDone(line - 1)
    BY <1>1 DEF GenInv, ReadingInv
<1>3. Len(template) \in Nat /\ DOMAIN template = 1..Len(template)
    BY <1>2, GeneratorAssumption
<1>4. 1..(line - 1) = DOMAIN template
    BY <1>1, <1>2, <1>3
<1>5. GeneratedWhole'
    BY <1>1, <1>2, <1>4 DEF GeneratedWhole, LinesDone
<1>6. BufferType' /\ RoomForText'
    BY <1>1 DEF BufferType, RoomForText, NoBuffer
<1>7. TemplateInv'
    BY <1>1 DEF GenInv, TemplateInv
<1> QED BY <1>1, <1>5, <1>6, <1>7 DEF GenInv, RestInv, ReadingInv, DirectoryInv

LEMMA BeginStep ==
    ASSUME GenInv, BeginGenerating PROVE GenInv'
<1>1. /\ gstate' = "reading" /\ template' \in Templates /\ gstate = "idle"
      /\ line' = line /\ buffer' = buffer /\ text' = text
    BY DEF BeginGenerating
<1>2. line = 1 /\ text = <<>>
    BY <1>1 DEF GenInv, RestInv
<1>3. Len(template') \in Nat
    BY <1>1, GeneratorAssumption
<1>4. ReadingInv'
    BY <1>1, <1>2, <1>3 DEF ReadingInv, LinesDone, Nodes
<1> QED BY <1>1, <1>4 DEF GenInv, BufferType, RoomForText, TemplateInv, RestInv,
                          DirectoryInv, GeneratedWhole

LEMMA EndStep ==
    ASSUME GenInv, EndGenerating PROVE GenInv'
BY DEF GenInv, EndGenerating, BufferType, RoomForText, TemplateInv, RestInv,
       ReadingInv, DirectoryInv, GeneratedWhole

-----------------------------------------------------------------------------
(* The theorems. *)

LEMMA GenInitInv == GenInit => GenInv
BY DEF GenInit, GenInv, BufferType, RoomForText, TemplateInv, RestInv, ReadingInv,
       DirectoryInv, GeneratedWhole, NoBuffer

\* Every step of the generation, and every step that does not touch it.
LEMMA GenStep ==
    ASSUME GenInv, GenNext \/ UNCHANGED genvars PROVE GenInv'
<1>1. CASE IncludeNothing
    BY <1>1, FailsStep DEF IncludeNothing, Reading
<1>2. CASE UNCHANGED genvars
  <2>1. /\ template' = template /\ gstate' = gstate /\ line' = line /\ todo' = todo
        /\ buffer' = buffer /\ text' = text /\ gener' = gener
      BY <1>2 DEF genvars
  <2>2. BufferType' /\ RoomForText' /\ TemplateInv' /\ RestInv'
      BY <2>1 DEF GenInv, BufferType, RoomForText, TemplateInv, RestInv
  <2>3. ReadingInv'
      BY <2>1 DEF GenInv, ReadingInv, LinesDone
  <2>4. DirectoryInv'
      BY <2>1 DEF GenInv, DirectoryInv, LinesDone, FilesNodes, Readable
  <2>5. GeneratedWhole'
      BY <2>1 DEF GenInv, GeneratedWhole
  <2> QED BY <2>2, <2>3, <2>4, <2>5 DEF GenInv
<1> QED BY <1>1, <1>2, AppendLineStep, IncludeFileStep, OpenDirectoryStep,
           ReadEntryStep, CloseDirectoryStep, FinishStep, BeginStep, EndStep
        DEF GenNext, generate_config_file

(***************************************************************************)
(* The invariant of the generation.                                        *)
(***************************************************************************)
LEMMA GenInvariance == GenSpec => []GenInv
<1>1. GenInv /\ [GenNext]_genvars => GenInv'
    BY GenStep
<1> QED BY <1>1, GenInitInv, PTL DEF GenSpec

(***************************************************************************)
(* There is always room for the text and for the zero behind it, whatever  *)
(* the sizes of lines and files are (check_buffer_space).                  *)
(***************************************************************************)
THEOREM BufferHasRoom == GenSpec => []RoomForText
<1>1. GenInv => RoomForText
    BY DEF GenInv
<1> QED BY <1>1, GenInvariance, PTL

(***************************************************************************)
(* A generation that succeeds has every element of every line and of every *)
(* readable .sup file, and no other, in whatever order readdir gives the   *)
(* files (generate_config_file, include_item).                             *)
(***************************************************************************)
THEOREM WholeTemplateGenerated == GenSpec => []GeneratedWhole
<1>1. GenInv => GeneratedWhole
    BY DEF GenInv
<1> QED BY <1>1, GenInvariance, PTL

-----------------------------------------------------------------------------
(* The generation inside the supervisor. *)

(***************************************************************************)
(* Every step of the supervisor is one of the generation or none of it:    *)
(* reload_configuration calls generate_config_file and reads its result,   *)
(* and nobody else touches the buffer or the file.                         *)
(***************************************************************************)
LEMMA DocumentStep == DocNext => GenNext \/ UNCHANGED genvars
<1>1. BeginReload \/ Generating \/ EndReload => GenNext
    BY DEF BeginReload, Generating, EndReload, GenNext
<1>2. ASSUME NEW root, ReloadNode(root) PROVE UNCHANGED genvars
    BY <1>2 DEF ReloadNode
<1>3. Stop \/ StartFromBackup => UNCHANGED genvars
    BY DEF Stop, StartFromBackup
<1>4. ASSUME NEW i, StartModule(i) \/ StopModule(i) \/ RestartModule(i) \/ RemoveModule(i)
      PROVE  UNCHANGED genvars
    BY <1>4 DEF StartModule, StopModule, RestartModule, RemoveModule, Serve
<1> QED BY <1>1, <1>2, <1>3, <1>4 DEF DocNext

(***************************************************************************)
(* The supervisor's steps are steps of the generator, or leave it alone.   *)
(***************************************************************************)
LEMMA DocumentGenerates == DocSpec => GenSpec
<1>1. DocInit => GenInit
    BY DEF DocInit
<1>2. [DocNext]_allvars => [GenNext]_genvars
    BY DocumentStep DEF allvars, docvars
<1> QED BY <1>1, <1>2, PTL DEF DocSpec, GenSpec

(***************************************************************************)
(* The buffer has room for the text and its zero in every reload, however  *)
(* many there are (check_buffer_space).                                    *)
(***************************************************************************)
THEOREM ReloadHasRoom == DocSpec => []RoomForText
BY DocumentGenerates, BufferHasRoom, PTL

(***************************************************************************)
(* What a reload validates and applies is the whole template with all its  *)
(* readable .sup files (generate_config_file).                             *)
(***************************************************************************)
THEOREM ReloadsWholeTemplate == DocSpec => []GeneratedWhole
BY DocumentGenerates, WholeTemplateGenerated, PTL

-----------------------------------------------------------------------------
(* Lists, children and interfaces. *)

(***************************************************************************)
(* A function on 1..n is a list.                                           *)
(***************************************************************************)
LEMMA ListMade ==
    ASSUME NEW n \in Nat, NEW s, s = [i \in 1..n |-> s[i]]
    PROVE  s \in Seq(Nodes(s)) /\ Len(s) = n /\ DOMAIN s = 1..n
BY DEF Nodes

(***************************************************************************)
(* What a list is made of.                                                 *)
(***************************************************************************)
LEMMA ListFacts ==
    ASSUME NEW s, s \in Seq(Nodes(s))
    PROVE  /\ Len(s) \in Nat /\ DOMAIN s = 1..Len(s) /\ s = [i \in 1..Len(s) |-> s[i]]
           /\ \A i \in 1..Len(s) : s[i] \in Nodes(s)
           /\ s # <<>> <=> Len(s) # 0
BY DEF Nodes

\* What is only needed for the principle of induction.
NoBase(x) == 0
NoStep(x, v, i) == 0
NoClaim(x, i, v) == TRUE

AnyLoop == INSTANCE Recursion WITH Base <- NoBase, Step <- NoStep, P <- NoClaim

(***************************************************************************)
(* A set of places has a first one.                                        *)
(***************************************************************************)
LEMMA FirstPlace ==
    ASSUME NEW S \in SUBSET Nat, S # {}
    PROVE  Min(S) \in S /\ \A i \in S : Min(S) <= i
<1> DEFINE T == {n \in Nat : \A i \in S : n <= i}
<1>1. \E x \in S : \A i \in S : x <= i
  <2> SUFFICES ASSUME \A x \in S : \E i \in S : ~(x <= i) PROVE FALSE
      OBVIOUS
  <2>1. T \in SUBSET Nat /\ 0 \in T
      OBVIOUS
  <2>2. ASSUME NEW n \in T PROVE n + 1 \in T
    <3>1. n \notin S
        BY <2>2
    <3> QED BY <3>1, <2>2
  <2>3. T = Nat
      BY <2>1, <2>2, AnyLoop!SetInduction
  <2>4. PICK i \in S : TRUE
      OBVIOUS
  <2>5. i + 1 \in T
      BY <2>3
  <2> QED BY <2>4, <2>5
<1> QED BY <1>1 DEF Min

(***************************************************************************)
(* Child is one of the children, and the only one where there is one.      *)
(***************************************************************************)
LEMMA ChildFacts ==
    ASSUME NEW e, e.kids \in Seq(Nodes(e.kids)), NEW tag, Has(e, tag)
    PROVE  /\ Child(e, tag) \in Children(e, tag)
           /\ Child(e, tag) \in Nodes(e.kids)
<1>1. Places(e, tag) \in SUBSET Nat /\ Places(e, tag) # {} /\ Places(e, tag) \subseteq DOMAIN e.kids
    BY ListFacts DEF Places, Has
<1>2. Min(Places(e, tag)) \in Places(e, tag)
    BY <1>1, FirstPlace
<1> QED BY <1>1, <1>2 DEF Child, Children, Nodes

(***************************************************************************)
(* The interfaces are counted one by one.                                  *)
(***************************************************************************)
LEMMA InterfacesCounted ==
    ASSUME NEW nodes
    PROVE  /\ InterfacesUpTo(nodes, 0) = 0
           /\ \A i \in Nat : InterfacesUpTo(nodes, i) \in Nat
           /\ \A i \in Nat \ {0} :
                 InterfacesUpTo(nodes, i)
                    = InterfacesUpTo(nodes, i - 1)
                          + (IF nodes[i].tag = "interface" THEN 1 ELSE 0)
           /\ \A i, j \in Nat : j <= i => InterfacesUpTo(nodes, j) <= InterfacesUpTo(nodes, i)
<1> DEFINE S(i) == {j \in 1..i : nodes[j].tag = "interface"}
<1>1. \A i \in Nat : IsFiniteSet(S(i))
  <2> SUFFICES ASSUME NEW i \in Nat PROVE IsFiniteSet(S(i))
      OBVIOUS
  <2>1. IsFiniteSet(1..i)
      BY FS_Interval
  <2> QED BY <2>1, FS_Subset
<1>2. \A i \in Nat : Cardinality(S(i)) \in Nat
    BY <1>1, FS_CardinalityType
<1>3. S(0) = {}
    OBVIOUS
<1>4. ASSUME NEW i \in Nat \ {0}
      PROVE  Cardinality(S(i)) = Cardinality(S(i - 1))
                                    + (IF nodes[i].tag = "interface" THEN 1 ELSE 0)
  <2>1. CASE nodes[i].tag = "interface"
    <3>1. S(i) = S(i - 1) \cup {i} /\ i \notin S(i - 1)
        BY <2>1
    <3>2. IsFiniteSet(S(i - 1))
        BY <1>1
    <3> HIDE DEF S
    <3> QED BY <2>1, <3>1, <3>2, FS_AddElement
  <2>2. CASE nodes[i].tag # "interface"
    <3>1. S(i) = S(i - 1)
        BY <2>2
    <3>2. Cardinality(S(i - 1)) \in Nat
        BY <1>2
    <3> HIDE DEF S
    <3> QED BY <2>2, <3>1, <3>2
  <2> QED BY <2>1, <2>2
<1>5. ASSUME NEW i \in Nat, NEW j \in Nat, j <= i
      PROVE  Cardinality(S(j)) <= Cardinality(S(i))
  <2>1. S(j) \subseteq S(i)
      BY <1>5
  <2> HIDE DEF S
  <2> QED BY <1>1, <2>1, FS_Subset
<1>6. Cardinality(S(0)) = 0
    BY <1>3, FS_EmptySet
<1>7. \A i : InterfacesUpTo(nodes, i) = Cardinality(S(i))
    BY DEF InterfacesUpTo
<1> HIDE DEF S
<1> QED BY <1>2, <1>4, <1>5, <1>6, <1>7

-----------------------------------------------------------------------------
(* The array of interfaces. *)

\* An interface of the table, and an element for one.
IfcType(ifc) ==
    /\ ifc = [a \in IfcAttributes |-> ifc[a]]
    /\ ifc["type"] \in IfcTypes \cup {NULL}
    /\ ifc["direction"] \in IfcDirections \cup {NULL}

IfcElement(e) ==
    IsTree(e) /\ OneOf(e, "type", IfcTypes) /\ OneOf(e, "direction", IfcDirections)

IfcElements(nodes) == \A j \in DOMAIN nodes : nodes[j].tag = "interface" => IfcElement(nodes[j])

\* What the element gives, and nothing else.
Attributes(e) == [a \in IfcAttributes |-> ValueOf(e, a, NULL)]

\* cnt entries are in use, the others are zeroed.
IfcArray(a, cnt) ==
    /\ a \in Seq(Nodes(a)) /\ Len(a) >= 2 /\ cnt \in 0..Len(a)
    /\ \A k \in 1..Len(a) : IfcType(a[k]) /\ (k > cnt => a[k] = NoIfc)

\* There is no interface before the node at `first'.
NoneBefore(nodes, first) == \A j \in DOMAIN nodes : j < first => nodes[j].tag # "interface"

\* The first cnt entries have the attributes of the interfaces among the first
\* i nodes.
Inserted(nodes, i, a, cnt) ==
    /\ cnt = InterfacesUpTo(nodes, i)
    /\ \A j \in 1..i : nodes[j].tag = "interface" =>
          a[InterfacesUpTo(nodes, j)] = Attributes(nodes[j])

\* The loop of InsertInterfaces; x is the nodes, the first one and the array.
InsertBase(x) == [cnt |-> 0, ifces |-> x[3]]

InsertStep(x, acc, i) ==
    IF i < x[2] \/ x[1][i].tag # "interface" THEN acc ELSE InsertInterface(acc, x[1][i])

\* Its invariant.
InsertInv(x, i, acc) ==
    /\ DOMAIN acc = {"cnt", "ifces"}
    /\ IfcArray(acc.ifces, acc.cnt)
    /\ NoneBefore(x[1], x[2]) => Inserted(x[1], i, acc.ifces, acc.cnt)

InsertLoop == INSTANCE Recursion WITH Base <- InsertBase, Step <- InsertStep, P <- InsertInv

LEMMA ZeroedIfc == IfcType(NoIfc)
BY DEF IfcType, NoIfc, IfcAttributes

(***************************************************************************)
(* The array grows when it is full, and keeps what it has.                 *)
(***************************************************************************)
LEMMA ArrayGrows ==
    ASSUME NEW a, NEW cnt, IfcArray(a, cnt)
    PROVE  LET b == reload_check_module_allocated_interfaces(a, cnt)
           IN  /\ IfcArray(b, cnt) /\ cnt + 1 \in 1..Len(b)
               /\ \A k \in 1..cnt : b[k] = a[k]
<1> DEFINE n == cnt + cnt \div 2
           b == [i \in 1..n |-> IF i <= cnt THEN a[i] ELSE NoIfc]
<1>1. /\ Len(a) \in Nat /\ DOMAIN a = 1..Len(a) /\ Len(a) >= 2 /\ cnt \in 0..Len(a)
      /\ \A k \in 1..Len(a) : IfcType(a[k]) /\ (k > cnt => a[k] = NoIfc)
    BY ListFacts DEF IfcArray
<1>2. CASE cnt # Len(a)
    BY <1>1, <1>2 DEF reload_check_module_allocated_interfaces, IfcArray
<1>3. CASE cnt = Len(a)
  <2>1. n \in Nat /\ n >= cnt + 1 /\ n >= 2
      BY <1>1, <1>3
  <2>2. b \in Seq(Nodes(b)) /\ Len(b) = n /\ DOMAIN b = 1..n
    <3>1. b = [i \in 1..n |-> b[i]]
        OBVIOUS
    <3> HIDE DEF b, n
    <3> QED BY <2>1, <3>1, ListMade
  <2>3. IfcType(NoIfc)
      BY ZeroedIfc
  <2>4. \A k \in 1..n : IfcType(b[k]) /\ (k > cnt => b[k] = NoIfc)
      BY <1>1, <1>3, <2>3
  <2>5. \A k \in 1..cnt : b[k] = a[k]
      BY <1>1, <1>3, <2>1
  <2>6. reload_check_module_allocated_interfaces(a, cnt) = b
      BY <1>3 DEF reload_check_module_allocated_interfaces
  <2> HIDE DEF b, n
  <2> QED BY <1>1, <2>1, <2>2, <2>4, <2>5, <2>6 DEF IfcArray
<1> QED BY <1>2, <1>3

(***************************************************************************)
(* What an element gives is in an entry that was zeroed, and no more.      *)
(***************************************************************************)
LEMMA AttributesTaken ==
    ASSUME NEW e, IfcElement(e), NEW old, old = NoIfc
    PROVE  /\ reload_process_module_interface_atribute(e, old) = Attributes(e)
           /\ IfcType(Attributes(e)) /\ ~InterfaceDiffers(e, Attributes(e))
<1>1. reload_process_module_interface_atribute(e, old) = Attributes(e)
    BY DEF reload_process_module_interface_atribute, Attributes, NoIfc
<1>2. /\ DOMAIN Attributes(e) = IfcAttributes
      /\ \A a \in IfcAttributes : Attributes(e)[a] = ValueOf(e, a, NULL)
    BY DEF Attributes
<1>3. ValueOf(e, "type", NULL) \in IfcTypes \cup {NULL}
    BY ChildFacts DEF IfcElement, IsTree, OneOf, ValueOf
<1>4. ValueOf(e, "direction", NULL) \in IfcDirections \cup {NULL}
    BY ChildFacts DEF IfcElement, IsTree, OneOf, ValueOf
<1>5. IfcType(Attributes(e))
  <2>1. Attributes(e) = [a \in IfcAttributes |-> Attributes(e)[a]]
      BY DEF Attributes
  <2>2. "type" \in IfcAttributes /\ "direction" \in IfcAttributes
      BY DEF IfcAttributes
  <2> QED BY <1>2, <1>3, <1>4, <2>1, <2>2 DEF IfcType
<1>6. ~InterfaceDiffers(e, Attributes(e))
    BY <1>2 DEF InterfaceDiffers, ValueOf
<1> QED BY <1>1, <1>5, <1>6

(***************************************************************************)
(* One more interface.                                                     *)
(***************************************************************************)
LEMMA InterfaceInserted ==
    ASSUME NEW acc, IfcArray(acc.ifces, acc.cnt), NEW e, IfcElement(e)
    PROVE  LET new == InsertInterface(acc, e)
           IN  /\ DOMAIN new = {"cnt", "ifces"} /\ new.cnt = acc.cnt + 1
               /\ IfcArray(new.ifces, new.cnt)
               /\ \A k \in 1..acc.cnt : new.ifces[k] = acc.ifces[k]
               /\ new.ifces[new.cnt] = Attributes(e)
<1> DEFINE b == reload_check_module_allocated_interfaces(acc.ifces, acc.cnt)
           n == acc.cnt + 1
           v == reload_process_module_interface_atribute(e, b[n])
           c == [b EXCEPT ![n] = v]
<1>1. /\ IfcArray(b, acc.cnt) /\ n \in 1..Len(b) /\ \A k \in 1..acc.cnt : b[k] = acc.ifces[k]
    BY ArrayGrows
<1>2. acc.cnt \in Nat
    BY DEF IfcArray
<1>3. InsertInterface(acc, e) = [cnt |-> n, ifces |-> c]
    BY DEF InsertInterface
<1>4. v = Attributes(e) /\ IfcType(v)
  <2>1. b[n] = NoIfc
      BY <1>1, <1>2 DEF IfcArray
  <2> HIDE DEF b, n
  <2> QED BY <2>1, AttributesTaken
<1> HIDE DEF b, v
<1>5. /\ Len(b) \in Nat /\ DOMAIN b = 1..Len(b) /\ Len(b) >= 2
      /\ \A k \in 1..Len(b) : IfcType(b[k]) /\ (k > acc.cnt => b[k] = NoIfc)
    BY <1>1, ListFacts DEF IfcArray
<1>6. c = [k \in 1..Len(b) |-> IF k = n THEN v ELSE b[k]]
    BY <1>5
<1>7. c \in Seq(Nodes(c)) /\ Len(c) = Len(b)
  <2>1. c = [k \in 1..Len(b) |-> c[k]]
      BY <1>6
  <2> HIDE DEF c
  <2> QED BY <1>5, <2>1, ListMade
<1> HIDE DEF c
<1>8. c[n] = v /\ \A k \in 1..Len(b) : k # n => c[k] = b[k]
    BY <1>1, <1>6
<1>9. IfcArray(c, n)
  <2>1. ASSUME NEW k \in 1..Len(b) PROVE IfcType(c[k]) /\ (k > n => c[k] = NoIfc)
    <3>1. CASE k = n
        BY <1>1, <1>4, <1>8, <3>1
    <3>2. CASE k # n
        BY <1>2, <1>5, <1>8, <3>2
    <3> QED BY <3>1, <3>2
  <2> QED BY <1>1, <1>2, <1>5, <1>7, <2>1 DEF IfcArray
<1>10. \A k \in 1..acc.cnt : c[k] = acc.ifces[k]
  <2>1. \A k \in 1..acc.cnt : k \in 1..Len(b) /\ k # n
      BY <1>1, <1>2, <1>5
  <2> QED BY <1>1, <1>8, <2>1
<1> HIDE DEF n
<1> QED BY <1>3, <1>4, <1>8, <1>9, <1>10 DEF n

(***************************************************************************)
(* The loop inserts all interfaces, if it does not start behind one.       *)
(***************************************************************************)
LEMMA InterfacesInserted ==
    ASSUME NEW nodes, nodes \in Seq(Nodes(nodes)), IfcElements(nodes),
           NEW first \in Nat, NEW a, IfcArray(a, 0)
    PROVE  LET new == InsertInterfaces(nodes, first, a)
           IN  /\ IfcArray(new.ifces, new.cnt)
               /\ NoneBefore(nodes, first) =>
                     Inserted(nodes, Len(nodes), new.ifces, new.cnt)
<1> DEFINE x == <<nodes, first, a>>
           n == Len(nodes)
<1>1. n \in Nat /\ x[1] = nodes /\ x[2] = first /\ x[3] = a /\ DOMAIN nodes = 1..n
    BY ListFacts
<1> HIDE DEF x, n
<1>2. \E f : InsertLoop!IsLoop(f, x, n)
    BY <1>1, InsertLoop!LoopExists
<1>3. PICK f : InsertLoop!IsLoop(f, x, n) /\ InsertInterfaces(nodes, first, a) = f[n]
  <2>1. \E f : f = [i \in 0..Len(nodes) |->
                       IF i = 0 THEN [cnt |-> 0, ifces |-> a]
                       ELSE IF i < first \/ nodes[i].tag # "interface" THEN f[i - 1]
                       ELSE InsertInterface(f[i - 1], nodes[i])]
      BY <1>1, <1>2 DEF InsertLoop!IsLoop, InsertStep, InsertBase, n
  <2>2. PICK f : /\ f = [i \in 0..Len(nodes) |->
                       IF i = 0 THEN [cnt |-> 0, ifces |-> a]
                       ELSE IF i < first \/ nodes[i].tag # "interface" THEN f[i - 1]
                       ELSE InsertInterface(f[i - 1], nodes[i])]
                 /\ InsertInterfaces(nodes, first, a) = f[Len(nodes)]
      BY <2>1 DEF InsertInterfaces
  <2> QED BY <1>1, <2>2 DEF InsertLoop!IsLoop, InsertStep, InsertBase, n
<1>4. InsertInv(x, 0, InsertBase(x))
  <2>1. /\ DOMAIN InsertBase(x) = {"cnt", "ifces"} /\ InsertBase(x).cnt = 0
        /\ InsertBase(x).ifces = a
      BY <1>1 DEF InsertBase
  <2>2. Inserted(nodes, 0, a, 0)
      BY InterfacesCounted DEF Inserted
  <2> QED BY <1>1, <2>1, <2>2 DEF InsertInv
<1>5. ASSUME NEW acc, NEW i \in 1..n, InsertInv(x, i - 1, acc)
      PROVE  InsertInv(x, i, InsertStep(x, acc, i))
  <2>1. /\ DOMAIN acc = {"cnt", "ifces"} /\ IfcArray(acc.ifces, acc.cnt)
        /\ NoneBefore(nodes, first) => Inserted(nodes, i - 1, acc.ifces, acc.cnt)
        /\ i \in Nat \ {0} /\ i \in DOMAIN nodes
      BY <1>1, <1>5 DEF InsertInv
  <2>2. InterfacesUpTo(nodes, i) = InterfacesUpTo(nodes, i - 1)
                                     + (IF nodes[i].tag = "interface" THEN 1 ELSE 0)
      BY <2>1, InterfacesCounted
  <2>3. InterfacesUpTo(nodes, i - 1) \in Nat
    <3>1. i - 1 \in Nat
        BY <2>1
    <3> QED BY <3>1, InterfacesCounted
  <2>4. CASE nodes[i].tag # "interface"
    <3>1. InsertStep(x, acc, i) = acc
        BY <1>1, <2>4 DEF InsertStep
    <3>2. InterfacesUpTo(nodes, i) = InterfacesUpTo(nodes, i - 1)
        BY <2>2, <2>3, <2>4
    <3>3. \A j \in 1..i : j \in 1..(i - 1) \/ j = i
        OBVIOUS
    <3>4. NoneBefore(nodes, first) => Inserted(nodes, i, acc.ifces, acc.cnt)
        BY <2>1, <2>4, <3>2, <3>3 DEF Inserted
    <3> QED BY <1>1, <2>1, <3>1, <3>4 DEF InsertInv
  <2>5. CASE nodes[i].tag = "interface" /\ i < first
    <3>1. InsertStep(x, acc, i) = acc
        BY <1>1, <2>5 DEF InsertStep
    <3>2. ~NoneBefore(nodes, first)
        BY <2>1, <2>5 DEF NoneBefore
    <3> QED BY <1>1, <2>1, <3>1, <3>2 DEF InsertInv
  <2>6. CASE nodes[i].tag = "interface" /\ ~(i < first)
    <3> DEFINE new == InsertInterface(acc, nodes[i])
    <3>1. InsertStep(x, acc, i) = new
        BY <1>1, <2>6 DEF InsertStep
    <3>2. /\ DOMAIN new = {"cnt", "ifces"} /\ new.cnt = acc.cnt + 1
          /\ IfcArray(new.ifces, new.cnt)
          /\ \A k \in 1..acc.cnt : new.ifces[k] = acc.ifces[k]
          /\ new.ifces[new.cnt] = Attributes(nodes[i])
      <4>1. IfcElement(nodes[i])
          BY <2>1, <2>6 DEF IfcElements
      <4> QED BY <2>1, <4>1, InterfaceInserted
    <3> HIDE DEF new
    <3>3. ASSUME NoneBefore(nodes, first) PROVE Inserted(nodes, i, new.ifces, new.cnt)
      <4>1. acc.cnt = InterfacesUpTo(nodes, i - 1)
          BY <2>1, <3>3 DEF Inserted
      <4>2. new.cnt = InterfacesUpTo(nodes, i)
          BY <2>2, <2>3, <2>6, <3>2, <4>1
      <4>3. ASSUME NEW j \in 1..i, nodes[j].tag = "interface"
            PROVE  new.ifces[InterfacesUpTo(nodes, j)] = Attributes(nodes[j])
        <5>1. CASE j = i
            BY <3>2, <4>2, <5>1
        <5>2. CASE j \in 1..(i - 1)
          <6> DEFINE k == InterfacesUpTo(nodes, j)
          <6>1. j \in Nat \ {0} /\ j <= i - 1 /\ i - 1 \in Nat /\ j - 1 \in Nat
              BY <5>2
          <6>2. k <= InterfacesUpTo(nodes, i - 1)
              BY <6>1, InterfacesCounted
          <6>3. k = InterfacesUpTo(nodes, j - 1) + 1 /\ InterfacesUpTo(nodes, j - 1) \in Nat
              BY <4>3, <6>1, InterfacesCounted
          <6> HIDE DEF k
          <6>4. k \in 1..acc.cnt
              BY <2>3, <4>1, <6>2, <6>3
          <6>5. acc.ifces[k] = Attributes(nodes[j])
              BY <2>1, <3>3, <4>3, <5>2 DEF Inserted, k
          <6> QED BY <3>2, <6>4, <6>5 DEF k
        <5> QED BY <5>1, <5>2
      <4> QED BY <4>2, <4>3 DEF Inserted
    <3> QED BY <1>1, <3>1, <3>2, <3>3 DEF InsertInv
  <2> QED BY <2>4, <2>5, <2>6
<1>6. \A i \in 0..n : InsertInv(x, i, f[i])
    BY <1>1, <1>3, <1>4, <1>5, InsertLoop!LoopInvariant
<1>7. InsertInv(x, n, f[n])
    BY <1>1, <1>6
<1> QED BY <1>1, <1>3, <1>7 DEF InsertInv, n

-----------------------------------------------------------------------------
(* One module of the document and its slot. *)

\* The fields of a slot, and those among them that are flags.
SlotFields ==
    {"name", "path", "params", "enabled", "max_restarts", "profile", "ifces", "ifces_cnt",
     "checked", "modified", "running", "pid", "init_module", "remove_module"}

SlotFlags ==
    {"enabled", "checked", "modified", "running", "pid", "init_module", "remove_module"}

\* A slot, with an array of interfaces in order.
SlotType(s) ==
    /\ DOMAIN s = SlotFields
    /\ s.max_restarts \in -1..MAX_MODULE_RESTARTS_NUM
    /\ IfcArray(s.ifces, s.ifces_cnt)
    /\ \A f \in SlotFlags : s[f] \in BOOLEAN

\* The slots differ in these fields only.
SameBut(s, t, fields) ==
    DOMAIN t = SlotFields /\ \A f \in SlotFields \ fields : t[f] = s[f]

\* The element of a module that the validation has accepted.
ModuleElement(e) ==
    /\ IsModule(e) /\ e.tag = "module" /\ e.kids # <<>>
    /\ reload_check_module_element(e)
    /\ \A t \in Children(e, "trapinterfaces") : check_trapinterfaces(t)

\* The slot has the interfaces of these nodes, and no attribute besides theirs.
ExactInterfaces(nodes, s) == Inserted(nodes, Len(nodes), s.ifces, s.ifces_cnt)

\* The slot has the interfaces and the texts of the element already.
Settled(s, e) ==
    /\ s.path = ValueOf(e, "path", s.path)
    /\ s.params = ValueOf(e, "params", s.params)
    /\ SameInterfaces(InterfaceNodes(e), s)

(***************************************************************************)
(* The interfaces that are freed leave zeroed entries behind.              *)
(***************************************************************************)
LEMMA Freed ==
    ASSUME NEW s, IfcArray(s.ifces, s.ifces_cnt)
    PROVE  IfcArray(free_module_interfaces_on_index(s), 0)
<1> DEFINE a == s.ifces
           n == s.ifces_cnt
           b == [i \in DOMAIN a |-> IF i <= n THEN NoIfc ELSE a[i]]
<1>1. /\ Len(a) \in Nat /\ DOMAIN a = 1..Len(a) /\ Len(a) >= 2 /\ n \in 0..Len(a)
      /\ \A k \in 1..Len(a) : IfcType(a[k]) /\ (k > n => a[k] = NoIfc)
    BY ListFacts DEF IfcArray
<1>2. free_module_interfaces_on_index(s) = b
    BY DEF free_module_interfaces_on_index
<1> HIDE DEF a, n
<1>3. b \in Seq(Nodes(b)) /\ Len(b) = Len(a) /\ \A k \in 1..Len(a) : b[k] = NoIfc
  <2>1. b = [i \in 1..Len(a) |-> b[i]]
      BY <1>1
  <2>2. ASSUME NEW k \in 1..Len(a) PROVE b[k] = NoIfc
      BY <1>1
  <2> HIDE DEF b
  <2> QED BY <1>1, <2>1, <2>2, ListMade
<1>4. IfcType(NoIfc)
    BY ZeroedIfc
<1> HIDE DEF b
<1> QED BY <1>1, <1>2, <1>3, <1>4 DEF IfcArray

(***************************************************************************)
(* What the loop has inserted is what the element has.                     *)
(***************************************************************************)
LEMMA InsertedSame ==
    ASSUME NEW nodes, nodes \in Seq(Nodes(nodes)), IfcElements(nodes), NEW s,
           ExactInterfaces(nodes, s)
    PROVE  SameInterfaces(nodes, s)
<1>1. DOMAIN nodes = 1..Len(nodes)
    BY ListFacts
<1>2. ASSUME NEW j \in DOMAIN nodes, nodes[j].tag = "interface"
      PROVE  ~InterfaceDiffers(nodes[j], s.ifces[InterfacesUpTo(nodes, j)])
  <2>1. s.ifces[InterfacesUpTo(nodes, j)] = Attributes(nodes[j])
      BY <1>1, <1>2 DEF ExactInterfaces, Inserted
  <2>2. IfcElement(nodes[j])
      BY <1>2 DEF IfcElements
  <2> QED BY <2>1, <2>2, AttributesTaken
<1> QED BY <1>2 DEF SameInterfaces, ExactInterfaces, Inserted

(***************************************************************************)
(* The nodes among which the interfaces of a module are.                   *)
(***************************************************************************)
LEMMA InterfaceNodesFacts ==
    ASSUME NEW e, ModuleElement(e)
    PROVE  /\ InterfaceNodes(e) \in Seq(Nodes(InterfaceNodes(e)))
           /\ IfcElements(InterfaceNodes(e))
           /\ ~Has(e, "trapinterfaces") => InterfaceNodes(e) = <<>>
           /\ Has(e, "trapinterfaces") => InterfaceNodes(e) = Child(e, "trapinterfaces").kids
<1>1. CASE Has(e, "trapinterfaces")
  <2> DEFINE t == Child(e, "trapinterfaces")
  <2>1. t \in Children(e, "trapinterfaces") /\ t \in Nodes(e.kids)
      BY <1>1, ChildFacts DEF ModuleElement, IsModule, IsTree
  <2>2. check_trapinterfaces(t) /\ IsTree(t) /\ \A k \in Nodes(t.kids) : IsTree(k)
      BY <2>1 DEF ModuleElement, IsModule
  <2>3. InterfaceNodes(e) = t.kids
      BY <1>1 DEF InterfaceNodes
  <2> HIDE DEF t
  <2>4. ASSUME NEW j \in DOMAIN t.kids, t.kids[j].tag = "interface" PROVE IfcElement(t.kids[j])
    <3>1. t.kids[j] \in Children(t, "interface") /\ t.kids[j] \in Nodes(t.kids)
        BY <2>4 DEF Children, Places, Nodes
    <3>2. reload_check_interface_element(t.kids[j])
        BY <2>2, <3>1 DEF check_trapinterfaces
    <3> QED BY <2>2, <3>1, <3>2 DEF IfcElement, reload_check_interface_element
  <2> QED BY <1>1, <2>2, <2>3, <2>4 DEF IfcElements, IsTree, t
<1>2. CASE ~Has(e, "trapinterfaces")
    BY <1>2 DEF InterfaceNodes, IfcElements
<1> QED BY <1>1, <1>2

(***************************************************************************)
(* Behind the first node there are all interfaces of a laid out element.   *)
(***************************************************************************)
LEMMA LaidOutStart ==
    ASSUME NEW e, ModuleElement(e), LaidOutModule(e)
    PROVE  NoneBefore(InterfaceNodes(e), AfterRewind)
<1> DEFINE nodes == InterfaceNodes(e)
<1>1. nodes \in Seq(Nodes(nodes))
    BY InterfaceNodesFacts
<1>2. nodes # <<>> => nodes[1].tag # "interface"
    BY DEF LaidOutModule
<1> HIDE DEF nodes
<1>3. ASSUME NEW j \in DOMAIN nodes, j < 2 PROVE j = 1 /\ nodes # <<>>
    BY <1>1, <1>3, ListFacts
<1>4. NoneBefore(nodes, AfterRewind)
    BY <1>2, <1>3 DEF NoneBefore, AfterRewind
<1> QED BY <1>4 DEF nodes

(***************************************************************************)
(* An element without interfaces is the same as a slot without.            *)
(***************************************************************************)
LEMMA NoInterfaces ==
    ASSUME NEW s
    PROVE  /\ SameInterfaces(<<>>, s) <=> s.ifces_cnt = 0
           /\ ExactInterfaces(<<>>, s) <=> s.ifces_cnt = 0
<1>1. InterfacesUpTo(<<>>, 0) = 0 /\ Len(<<>>) = 0 /\ DOMAIN <<>> = {} /\ 1..0 = {}
    BY InterfacesCounted
<1> QED BY <1>1 DEF SameInterfaces, ExactInterfaces, Inserted

(***************************************************************************)
(* The interfaces of a module (reload_process_module_interfaces): a slot   *)
(* gets those of the element, unless the update starts behind one of them, *)
(* and is modified only when something is different.                       *)
(***************************************************************************)
LEMMA InterfacesProcessed ==
    ASSUME NEW e, ModuleElement(e), NEW s, SlotType(s), NEW new_module \in BOOLEAN,
           new_module => s.ifces_cnt = 0
    PROVE  LET t == ProcessInterfaces(e, s, new_module)
           IN  /\ SameBut(s, t, {"ifces", "ifces_cnt", "modified"})
               /\ IfcArray(t.ifces, t.ifces_cnt)
               /\ t.modified \in BOOLEAN
               /\ new_module \/ SameInterfaces(InterfaceNodes(e), s) => t.modified = s.modified
               /\ LaidOutModule(e) => SameInterfaces(InterfaceNodes(e), t)
               /\ new_module => ExactInterfaces(InterfaceNodes(e), t)
<1> DEFINE nodes == InterfaceNodes(e)
           t == ProcessInterfaces(e, s, new_module)
           free == free_module_interfaces_on_index(s)
<1>1. /\ DOMAIN s = SlotFields /\ IfcArray(s.ifces, s.ifces_cnt) /\ s.modified \in BOOLEAN
      /\ IfcArray(free, 0) /\ nodes \in Seq(Nodes(nodes)) /\ IfcElements(nodes)
    BY Freed, InterfaceNodesFacts DEF SlotType, SlotFlags
<1>2. SameBut(s, s, {"ifces", "ifces_cnt", "modified"})
    BY <1>1 DEF SameBut
<1>4. CASE ~Has(e, "trapinterfaces")
  <2>1. nodes = <<>>
      BY <1>4, InterfaceNodesFacts
  <2>2. CASE s.ifces_cnt = 0
    <3>1. t = s
        BY <1>4, <2>2 DEF ProcessInterfaces
    <3>2. SameInterfaces(nodes, s) /\ ExactInterfaces(nodes, s)
        BY <2>1, <2>2, NoInterfaces
    <3> HIDE DEF t, nodes
    <3> QED BY <1>1, <1>2, <3>1, <3>2 DEF t, nodes
  <2>3. CASE s.ifces_cnt # 0
    <3>1. t = [s EXCEPT !.ifces = free, !.ifces_cnt = 0, !.modified = TRUE]
        BY <1>4, <2>3 DEF ProcessInterfaces
    <3> HIDE DEF free
    <3>2. /\ SameBut(s, t, {"ifces", "ifces_cnt", "modified"})
          /\ t.ifces = free /\ t.ifces_cnt = 0 /\ t.modified = TRUE
        BY <1>1, <3>1 DEF SameBut, SlotFields
    <3> HIDE DEF t, nodes, free
    <3>3. SameInterfaces(nodes, t) /\ ExactInterfaces(nodes, t) /\ ~SameInterfaces(nodes, s)
        BY <2>1, <2>3, <3>2, NoInterfaces
    <3>4. t.modified \in BOOLEAN
        BY <3>2, Zenon
    <3> QED BY <1>1, <2>3, <3>2, <3>3, <3>4 DEF t, nodes
  <2> QED BY <2>2, <2>3
<1>5. CASE Has(e, "trapinterfaces") /\ new_module
  <2> DEFINE new == InsertInterfaces(nodes, 1, s.ifces)
  <2>1. nodes = Child(e, "trapinterfaces").kids
      BY <1>5, InterfaceNodesFacts
  <2>2. t = [s EXCEPT !.ifces = new.ifces, !.ifces_cnt = new.cnt]
      BY <1>5, <2>1 DEF ProcessInterfaces
  <2>3. NoneBefore(nodes, 1)
      BY <1>1, ListFacts DEF NoneBefore
  <2>4. IfcArray(new.ifces, new.cnt) /\ Inserted(nodes, Len(nodes), new.ifces, new.cnt)
    <3>1. IfcArray(s.ifces, 0)
        BY <1>1, <1>5
    <3> HIDE DEF nodes
    <3> QED BY <1>1, <2>3, <3>1, InterfacesInserted
  <2> HIDE DEF new, nodes
  <2>5. /\ SameBut(s, t, {"ifces", "ifces_cnt", "modified"})
        /\ t.ifces = new.ifces /\ t.ifces_cnt = new.cnt /\ t.modified = s.modified
      BY <1>1, <2>2 DEF SameBut, SlotFields
  <2> HIDE DEF t
  <2>6. ExactInterfaces(nodes, t)
      BY <2>4, <2>5 DEF ExactInterfaces
  <2>7. SameInterfaces(nodes, t)
      BY <1>1, <2>6, InsertedSame
  <2> QED BY <1>1, <2>4, <2>5, <2>6, <2>7 DEF t, nodes
<1>6. CASE Has(e, "trapinterfaces") /\ ~new_module
  <2>1. nodes = Child(e, "trapinterfaces").kids
      BY <1>6, InterfaceNodesFacts
  <2>2. t = UpdateInterfaces(nodes, s)
      BY <1>6, <2>1 DEF ProcessInterfaces
  <2> HIDE DEF nodes, t
  <2>3. CASE SameInterfaces(nodes, s)
    <3>1. t = s
        BY <2>2, <2>3 DEF UpdateInterfaces
    <3> QED BY <1>1, <1>2, <1>6, <2>3, <3>1 DEF t, nodes
  <2>4. CASE ~SameInterfaces(nodes, s)
    <3> DEFINE first == IF InterfacesUpTo(nodes, Len(nodes)) # s.ifces_cnt
                        THEN 1 ELSE AfterRewind
               new == InsertInterfaces(nodes, first, free)
    <3>1. t = [s EXCEPT !.ifces = new.ifces, !.ifces_cnt = new.cnt, !.modified = TRUE]
        BY <2>2, <2>4 DEF UpdateInterfaces
    <3>2. first \in Nat /\ (NoneBefore(nodes, AfterRewind) => NoneBefore(nodes, first))
        BY <1>1, ListFacts DEF AfterRewind, NoneBefore
    <3> HIDE DEF first, free
    <3>3. /\ IfcArray(new.ifces, new.cnt)
          /\ NoneBefore(nodes, first) => Inserted(nodes, Len(nodes), new.ifces, new.cnt)
        BY <1>1, <3>2, InterfacesInserted
    <3> HIDE DEF new
    <3>4. /\ SameBut(s, t, {"ifces", "ifces_cnt", "modified"})
          /\ t.ifces = new.ifces /\ t.ifces_cnt = new.cnt /\ t.modified = TRUE
        BY <1>1, <3>1 DEF SameBut, SlotFields
    <3>5. t.modified \in BOOLEAN
        BY <3>4, Zenon
    <3>6. NoneBefore(nodes, AfterRewind) => SameInterfaces(nodes, t)
        BY <1>1, <3>2, <3>3, <3>4, InsertedSame DEF ExactInterfaces
    <3>7. IfcArray(t.ifces, t.ifces_cnt)
        BY <3>3, <3>4
    <3> QED BY <1>6, <2>4, <3>4, <3>5, <3>6, <3>7, LaidOutStart DEF t, nodes
  <2> QED BY <2>3, <2>4
<1> QED BY <1>4, <1>5, <1>6

\* A slot while a document is applied: Reset has been there.
WorkSlot(s) ==
    /\ SlotType(s)
    /\ ~s.init_module /\ ~s.remove_module
    /\ ~s.checked => s.max_restarts = -1 /\ ~s.modified /\ s.profile = NULL

\* The slot has the values of the element, as the apply phase writes them.
Holds(s, e) ==
    /\ s.path = ValueOf(e, "path", s.path)
    /\ s.params = ValueOf(e, "params", s.params)
    /\ s.max_restarts = ValueOf(e, "module-restarts", -1)
    /\ s.enabled = (ValueOf(e, "enabled", NULL) = "true")
    /\ LaidOutModule(e) => SameInterfaces(InterfaceNodes(e), s)

(***************************************************************************)
(* The comparison looks at the array only.                                 *)
(***************************************************************************)
LEMMA SameArray ==
    ASSUME NEW nodes, NEW s, NEW t, s.ifces = t.ifces, s.ifces_cnt = t.ifces_cnt
    PROVE  SameInterfaces(nodes, s) <=> SameInterfaces(nodes, t)
BY DEF SameInterfaces

(***************************************************************************)
(* path and params (reload_process_module_atribute).                       *)
(***************************************************************************)
LEMMA AttributesProcessed ==
    ASSUME NEW e, NEW s, SlotType(s), ~s.modified, NEW new_module \in BOOLEAN
    PROVE  LET t == reload_process_module_atribute(e, s, new_module)
           IN  /\ SameBut(s, t, {"path", "params", "modified"})
               /\ t.path = ValueOf(e, "path", s.path)
               /\ t.params = ValueOf(e, "params", s.params)
               /\ t.modified \in BOOLEAN
               /\ new_module \/ /\ s.path = ValueOf(e, "path", s.path)
                                /\ s.params = ValueOf(e, "params", s.params)
                  => ~t.modified
               /\ SlotType(t)
<1> DEFINE m == s.modified \/ /\ ~new_module
                              /\ \/ ValueOf(e, "path", s.path) # s.path
                                 \/ ValueOf(e, "params", s.params) # s.params
           p == ValueOf(e, "path", s.path)
           q == ValueOf(e, "params", s.params)
           t == reload_process_module_atribute(e, s, new_module)
<1>1. DOMAIN s = SlotFields
    BY DEF SlotType
<1>2. t = [s EXCEPT !.path = p, !.params = q, !.modified = m]
    BY <1>1 DEF reload_process_module_atribute, SlotFields
<1>3. m \in BOOLEAN
    BY Zenon
<1>4. new_module \/ (s.path = p /\ s.params = q) => ~m
    OBVIOUS
<1> HIDE DEF m, p, q, t
<1>5. /\ SameBut(s, t, {"path", "params", "modified"})
      /\ t.path = p /\ t.params = q /\ t.modified = m
    BY <1>1, <1>2 DEF SameBut, SlotFields
<1>6. SlotType(t)
  <2>1. /\ DOMAIN t = SlotFields /\ t.max_restarts = s.max_restarts /\ t.ifces = s.ifces
        /\ t.ifces_cnt = s.ifces_cnt
      BY <1>5 DEF SameBut, SlotFields
  <2>2. ASSUME NEW f \in SlotFlags PROVE t[f] \in BOOLEAN
    <3>1. CASE f = "modified"
        BY <1>3, <1>5, <3>1
    <3>2. CASE f # "modified"
      <4>1. t[f] = s[f]
          BY <1>5, <3>2 DEF SameBut, SlotFields, SlotFlags
      <4> QED BY <4>1 DEF SlotType
    <3> QED BY <3>1, <3>2
  <2> QED BY <2>1, <2>2 DEF SlotType
<1>7. t.modified \in BOOLEAN
    BY <1>3, <1>5
<1>8. t.modified = m
    BY <1>5
<1> QED BY <1>4, <1>5, <1>6, <1>7, <1>8 DEF p, q, t

(***************************************************************************)
(* A module of the document is applied to its slot                         *)
(* (reload_process_module_element).                                        *)
(***************************************************************************)
LEMMA ModuleProcessed ==
    ASSUME NEW e, ModuleElement(e), NEW s, WorkSlot(s), ~s.checked, NEW new_module \in BOOLEAN,
           new_module => s.ifces_cnt = 0, NEW profile, NEW init \in BOOLEAN
    PROVE  LET u == ProcessModule(e, s, new_module, profile, init)
           IN  /\ WorkSlot(u) /\ u.checked /\ u.name = s.name /\ u.profile = profile
               /\ Holds(u, e)
               /\ new_module \/ Settled(s, e) => ~u.modified
               /\ u.path = ValueOf(e, "path", s.path) /\ u.params = ValueOf(e, "params", s.params)
               /\ u.pid = (IF init /\ e.val # NULL THEN e.val ELSE s.pid)
               /\ u.running = s.running
               /\ new_module => ExactInterfaces(InterfaceNodes(e), u)
<1> DEFINE r == reload_process_module_atribute(e, s, new_module)
           t == ProcessInterfaces(e, r, new_module)
           p == IF init /\ e.val # NULL THEN e.val ELSE t.pid
           on == ValueOf(e, "enabled", "false") = "true"
           m == ValueOf(e, "module-restarts", t.max_restarts)
           u == ProcessModule(e, s, new_module, profile, init)
<1>0. IsModule(e) /\ e.tag = "module" /\ reload_check_module_element(e)
    BY DEF ModuleElement
<1>1. /\ SlotType(s) /\ ~s.modified /\ s.max_restarts = -1 /\ ~s.init_module
      /\ ~s.remove_module
    BY DEF WorkSlot
<1>2. /\ SameBut(s, r, {"path", "params", "modified"})
      /\ r.path = ValueOf(e, "path", s.path) /\ r.params = ValueOf(e, "params", s.params)
      /\ r.modified \in BOOLEAN /\ SlotType(r)
      /\ new_module \/ (/\ s.path = ValueOf(e, "path", s.path)
                        /\ s.params = ValueOf(e, "params", s.params))
         => ~r.modified
    BY <1>1, AttributesProcessed
<1>3. /\ r.name = s.name /\ r.ifces = s.ifces /\ r.ifces_cnt = s.ifces_cnt
      /\ r.max_restarts = s.max_restarts /\ r.init_module = s.init_module
      /\ r.remove_module = s.remove_module /\ r.pid = s.pid /\ r.running = s.running
    BY <1>2 DEF SameBut, SlotFields
<1>4. r.path = ValueOf(e, "path", r.path) /\ r.params = ValueOf(e, "params", r.params)
    BY <1>2 DEF ValueOf
<1> HIDE DEF r
<1>5. /\ SameBut(r, t, {"ifces", "ifces_cnt", "modified"})
      /\ IfcArray(t.ifces, t.ifces_cnt) /\ t.modified \in BOOLEAN
      /\ new_module \/ SameInterfaces(InterfaceNodes(e), r) => t.modified = r.modified
      /\ LaidOutModule(e) => SameInterfaces(InterfaceNodes(e), t)
      /\ new_module => ExactInterfaces(InterfaceNodes(e), t)
    BY <1>2, <1>3, InterfacesProcessed
<1> HIDE DEF t
<1>6. /\ DOMAIN t = SlotFields
      /\ t.name = r.name /\ t.path = r.path /\ t.params = r.params
      /\ t.max_restarts = r.max_restarts /\ t.init_module = r.init_module
      /\ t.remove_module = r.remove_module /\ t.pid = r.pid /\ t.running = r.running
    BY <1>5 DEF SameBut, SlotFields
<1>7. u = [t EXCEPT !.checked = TRUE, !.profile = profile, !.pid = p, !.enabled = on,
                    !.max_restarts = m]
    BY <1>6 DEF ProcessModule, r, t, SlotFields
<1>8. on \in BOOLEAN /\ p \in BOOLEAN /\ t.running \in BOOLEAN
  <2>1. t.pid \in BOOLEAN /\ t.running \in BOOLEAN
      BY <1>2, <1>6 DEF SlotType, SlotFlags
  <2>2. e.val # NULL => e.val \in BOOLEAN
      BY <1>0 DEF IsModule
  <2>3. CASE init /\ e.val # NULL
      BY <2>1, <2>2, <2>3, Zenon
  <2>4. CASE ~(init /\ e.val # NULL)
      BY <2>1, <2>4, Zenon
  <2>5. on \in BOOLEAN
      BY Zenon
  <2> QED BY <2>1, <2>3, <2>4, <2>5
<1>9. m \in -1..MAX_MODULE_RESTARTS_NUM /\ m = ValueOf(e, "module-restarts", -1)
  <2>1. t.max_restarts = -1
      BY <1>1, <1>3, <1>6
  <2>2. CASE Has(e, "module-restarts")
    <3>1. Child(e, "module-restarts").val \in 0..MAX_MODULE_RESTARTS_NUM
        BY <1>0, <2>2, ChildFacts DEF IsModule, IsTree, reload_check_module_element, OneOf,
                                     Restarts
    <3> QED BY <2>1, <2>2, <3>1, DocumentAssumption DEF ValueOf
  <2>3. CASE ~Has(e, "module-restarts")
      BY <2>1, <2>3, DocumentAssumption DEF ValueOf
  <2> QED BY <2>2, <2>3
<1>10. on = (ValueOf(e, "enabled", NULL) = "true")
  <2>1. ValueOf(e, "enabled", NULL) # NULL
      BY <1>0 DEF reload_check_module_element, Mandatory
  <2>2. Has(e, "enabled")
      BY <2>1 DEF ValueOf
  <2> QED BY <2>2 DEF ValueOf
<1> HIDE DEF p, on, m, u
<1>11. /\ DOMAIN u = SlotFields
       /\ u.checked = TRUE /\ u.profile = profile /\ u.pid = p /\ u.enabled = on
       /\ u.max_restarts = m /\ u.name = t.name /\ u.path = t.path /\ u.params = t.params
       /\ u.ifces = t.ifces /\ u.ifces_cnt = t.ifces_cnt /\ u.modified = t.modified
       /\ u.running = t.running /\ u.init_module = t.init_module
       /\ u.remove_module = t.remove_module
    BY <1>6, <1>7 DEF SlotFields
<1>12. SlotType(u)
  <2>1. u.init_module \in BOOLEAN /\ u.remove_module \in BOOLEAN
      BY <1>2, <1>6, <1>11 DEF SlotType, SlotFlags
  <2>2. u.checked \in BOOLEAN
      BY <1>11, Zenon
  <2>3. \A f \in SlotFlags : u[f] \in BOOLEAN
      BY <1>5, <1>8, <1>11, <2>1, <2>2 DEF SlotFlags
  <2> QED BY <1>5, <1>9, <1>11, <2>3 DEF SlotType
<1>13. u.checked
    BY <1>11, Zenon
<1>14. WorkSlot(u)
    BY <1>1, <1>3, <1>6, <1>11, <1>12, <1>13 DEF WorkSlot
<1>15. Holds(u, e)
  <2>1. LaidOutModule(e) => SameInterfaces(InterfaceNodes(e), u)
      BY <1>5, <1>11, SameArray
  <2>2. u.path = ValueOf(e, "path", u.path) /\ u.params = ValueOf(e, "params", u.params)
      BY <1>4, <1>6, <1>11
  <2>3. u.enabled = (ValueOf(e, "enabled", NULL) = "true")
      BY <1>10, <1>11
  <2> QED BY <1>9, <1>11, <2>1, <2>2, <2>3 DEF Holds
<1>16. ASSUME new_module \/ Settled(s, e) PROVE ~u.modified
  <2>1. ~r.modified
      BY <1>2, <1>16 DEF Settled
  <2>2. new_module \/ SameInterfaces(InterfaceNodes(e), r)
      BY <1>3, <1>16, SameArray DEF Settled
  <2>3. u.modified = r.modified
      BY <1>5, <1>11, <2>2
  <2> QED BY <2>1, <2>3
<1>17. u.name = s.name /\ u.profile = profile
    BY <1>3, <1>6, <1>11
<1>18. /\ u.path = ValueOf(e, "path", s.path) /\ u.params = ValueOf(e, "params", s.params)
       /\ u.running = s.running /\ u.pid = p
    BY <1>2, <1>3, <1>6, <1>11
<1>19. p = IF init /\ e.val # NULL THEN e.val ELSE s.pid
    BY <1>3, <1>6 DEF p
<1>20. new_module => ExactInterfaces(InterfaceNodes(e), u)
    BY <1>5, <1>11 DEF ExactInterfaces
<1> QED BY <1>13, <1>14, <1>15, <1>16, <1>17, <1>18, <1>19, <1>20 DEF u

-----------------------------------------------------------------------------
(* The table while a document is applied. *)

\* The l-th node of the k-th.
ElementAt(root, k, l) == root.kids[k].kids[l]

\* The l-th node of the k-th is before the m-th of the n-th, or is it.
ReadBy(n, m, k, l) == k < n \/ (k = n /\ l <= m)

\* The module e of the group g is loaded into this slot.
InSlot(s, g, e) == s.checked /\ s.name = Name(e) /\ s.profile = Name(g) /\ Holds(s, e)

\* No two slots have the same name.
UniqueSlots(modules) ==
    \A i, j \in DOMAIN modules : modules[i].name = modules[j].name => i = j

\* The modules up to the m-th node of the n-th are in the table.
ReadIn(root, n, m, modules) ==
    \A k \in Places(root, "modules") : \A l \in Places(root.kids[k], "module") :
        ReadBy(n, m, k, l) =>
            \E i \in DOMAIN modules : InSlot(modules[i], root.kids[k], ElementAt(root, k, l))

\* What is checked is one of them.
CheckedRead(root, n, m, modules) ==
    \A i \in DOMAIN modules : modules[i].checked =>
        \E k \in Places(root, "modules") : \E l \in Places(root.kids[k], "module") :
            ReadBy(n, m, k, l) /\ modules[i].name = Name(ElementAt(root, k, l))

\* A slot has what the document says of its module already.
SettledIn(root, s) == \A e \in ModuleElements(root) : s.name = Name(e) => Settled(s, e)

\* In a document that changes nothing no slot is modified.
Undisturbed(root, modules) ==
    \A i \in DOMAIN modules : /\ ~modules[i].modified
                              /\ ~modules[i].checked => SettledIn(root, modules[i])

\* What a module becomes that was not there before, at the start of a supervisor.
NewSlot(g, e) == ProcessModule(e, FreshSlot(Name(e)), TRUE, Name(g), TRUE)

\* In a table that was empty at the start there is nothing else.
AllNew(root, modules) ==
    \A i \in DOMAIN modules :
        /\ modules[i].checked
        /\ \E k \in Places(root, "modules") : \E l \in Places(root.kids[k], "module") :
              modules[i] = NewSlot(root.kids[k], ElementAt(root, k, l))

\* The invariant of the table while the document is applied, up to the m-th
\* node of the n-th; in the mode "quiet", that of a document that changes nothing,
\* in the mode "start", that of the first document of a supervisor.
Table(root, n, m, mode, modules) ==
    /\ modules \in Seq(Nodes(modules))
    /\ \A i \in DOMAIN modules : WorkSlot(modules[i])
    /\ UniqueSlots(modules)
    /\ ReadIn(root, n, m, modules)
    /\ CheckedRead(root, n, m, modules)
    /\ mode = "quiet" => Undisturbed(root, modules)
    /\ mode = "start" => AllNew(root, modules)

(***************************************************************************)
(* What the validation says of a module and of its group.                  *)
(***************************************************************************)
LEMMA Validated ==
    ASSUME NEW root, IsDocument(root), validate_configuration(root),
           NEW k \in Places(root, "modules")
    PROVE  /\ k \in DOMAIN root.kids /\ k \in Nat /\ root.kids[k].tag = "modules"
           /\ IsGroup(root.kids[k]) /\ reload_check_modules_element(root.kids[k])
           /\ \A l \in Places(root.kids[k], "module") :
                 LET e == ElementAt(root, k, l)
                 IN  /\ ModuleElement(e) /\ e.kids # <<>>
                     /\ reload_check_module_element(e)
                     /\ e \in ModuleElements(root) /\ l \in Nat
<1> DEFINE g == root.kids[k]
<1>1. /\ k \in DOMAIN root.kids /\ k \in Nat /\ g.tag = "modules"
      /\ g \in Children(root, "modules") /\ IsGroup(g)
    BY ListFacts DEF Places, Children, IsDocument, IsTree
<1>2. reload_check_modules_element(g)
    BY <1>1 DEF validate_configuration
<1>3. ASSUME NEW l \in Places(g, "module")
      PROVE  /\ IsModule(g.kids[l]) /\ g.kids[l].tag = "module" /\ l \in Nat
             /\ g.kids[l] \in ModuleElements(root)
  <2>1. g.kids \in Seq(Nodes(g.kids)) /\ l \in DOMAIN g.kids /\ g.kids[l].tag = "module"
      BY <1>1 DEF IsGroup, IsTree, Places
  <2>2. l \in Nat /\ g.kids[l] \in Nodes(g.kids)
      BY <2>1, ListFacts
  <2>3. g.kids[l] \in Children(g, "module")
      BY DEF Children
  <2>4. g.kids[l] \in ModuleElements(root)
      BY <1>1, <2>3 DEF ModuleElements
  <2> QED BY <1>1, <2>1, <2>2, <2>4 DEF IsGroup
<1>4. ASSUME NEW l \in Places(g, "module")
      PROVE  /\ g.kids[l].kids # <<>> /\ reload_check_module_element(g.kids[l])
             /\ \A t \in Children(g.kids[l], "trapinterfaces") : check_trapinterfaces(t)
    BY <1>3 DEF validate_configuration
<1> QED BY <1>1, <1>2, <1>3, <1>4 DEF ElementAt, ModuleElement

(***************************************************************************)
(* The slot of a module that is inserted.                                  *)
(***************************************************************************)
LEMMA Fresh ==
    ASSUME NEW name
    PROVE  LET s == FreshSlot(name)
           IN  /\ WorkSlot(s) /\ ~s.checked /\ s.ifces_cnt = 0 /\ s.name = name
               /\ s.path = NULL /\ s.params = NULL /\ ~s.running
<1> DEFINE s == FreshSlot(name)
           a == [i \in 1..IfcesStart |-> NoIfc]
<1>1. IfcesStart \in Nat /\ IfcesStart >= 2 /\ MAX_MODULE_RESTARTS_NUM \in Nat
    BY DocumentAssumption
<1>2. IfcArray(a, 0)
  <2>1. a = [i \in 1..IfcesStart |-> a[i]]
      OBVIOUS
  <2>2. \A k \in 1..IfcesStart : a[k] = NoIfc
      OBVIOUS
  <2>3. IfcType(NoIfc)
      BY ZeroedIfc
  <2> HIDE DEF a
  <2>4. a \in Seq(Nodes(a)) /\ Len(a) = IfcesStart
      BY <1>1, <2>1, ListMade
  <2> QED BY <1>1, <2>2, <2>3, <2>4 DEF IfcArray
<1> HIDE DEF a
<1>3. /\ DOMAIN s = SlotFields /\ s.name = name /\ s.ifces = a /\ s.ifces_cnt = 0
      /\ s.max_restarts = -1 /\ s.profile = NULL /\ s.path = NULL /\ s.params = NULL
    BY DEF FreshSlot, SlotFields, a
<1>4. /\ s.enabled = FALSE /\ s.checked = FALSE /\ s.modified = FALSE /\ s.running = FALSE
      /\ s.pid = FALSE /\ s.init_module = FALSE /\ s.remove_module = FALSE
    BY DEF FreshSlot
<1> HIDE DEF s
<1>5. \A f \in SlotFlags : s[f] = FALSE
    BY <1>4 DEF SlotFlags
<1>6. \A f \in SlotFlags : s[f] \in BOOLEAN
    BY <1>5, Zenon
<1>7. SlotType(s)
    BY <1>1, <1>2, <1>3, <1>6 DEF SlotType
<1>8. ~s.checked /\ ~s.modified /\ ~s.running /\ ~s.init_module /\ ~s.remove_module
    BY <1>4, Zenon
<1> QED BY <1>3, <1>7, <1>8 DEF WorkSlot, s

(***************************************************************************)
(* find_loaded_module.                                                     *)
(***************************************************************************)
LEMMA Index ==
    ASSUME NEW modules, modules \in Seq(Nodes(modules)), NEW name
    PROVE  LET k == IndexOf(modules, name)
           IN  \/ k \in DOMAIN modules /\ modules[k].name = name /\ ~(k > Len(modules))
               \/ /\ k = Len(modules) + 1 /\ k \notin DOMAIN modules /\ k > Len(modules)
                  /\ \A i \in DOMAIN modules : modules[i].name # name
<1>1. Len(modules) \in Nat /\ DOMAIN modules = 1..Len(modules)
    BY ListFacts
<1>2. CASE \E i \in DOMAIN modules : modules[i].name = name
    BY <1>1, <1>2 DEF IndexOf
<1>3. CASE ~\E i \in DOMAIN modules : modules[i].name = name
    BY <1>1, <1>3 DEF IndexOf
<1> QED BY <1>2, <1>3

(***************************************************************************)
(* A slot is replaced or put behind the last.                              *)
(***************************************************************************)
LEMMA Put ==
    ASSUME NEW modules, modules \in Seq(Nodes(modules)), NEW s,
           NEW k \in 1..(Len(modules) + 1), NEW out, out = PutAt(modules, k, s)
    PROVE  out \in Seq(Nodes(out))
<1> DEFINE n == IF k \in DOMAIN modules THEN Len(modules) ELSE k
<1>1. Len(modules) \in Nat /\ DOMAIN modules = 1..Len(modules)
    BY ListFacts
<1>2. n \in Nat /\ DOMAIN modules \cup {k} = 1..n
    BY <1>1
<1> HIDE DEF n
<1>3. out = [i \in 1..n |-> out[i]]
    BY <1>2 DEF PutAt
<1> QED BY <1>2, <1>3, ListMade

(***************************************************************************)
(* A module that the validation has accepted has its basic elements: its   *)
(* slot, if there is one, has not been met before in this reload.          *)
(***************************************************************************)
LEMMA Basic ==
    ASSUME NEW root, IsDocument(root), validate_configuration(root),
           NEW n \in Places(root, "modules"), NEW m \in Places(root.kids[n], "module"),
           NEW mode, NEW modules, Table(root, n, m - 1, mode, modules)
    PROVE  LET e == ElementAt(root, n, m)
           IN  /\ BasicElements(e, modules)
               /\ \A i \in DOMAIN modules : modules[i].name = Name(e) => ~modules[i].checked
<1> DEFINE e == ElementAt(root, n, m)
<1>1. reload_check_module_element(e) /\ n \in Nat /\ m \in Nat
    BY Validated
<1>2. /\ Single(e, "name") /\ Single(e, "path") /\ Single(e, "trapinterfaces")
      /\ Mandatory(e, {"name", "path"})
    BY <1>1 DEF reload_check_module_element, Structure, ModuleChildren, Mandatory
<1>3. ASSUME NEW i \in DOMAIN modules, modules[i].name = Name(e) PROVE ~modules[i].checked
  <2> SUFFICES ASSUME modules[i].checked PROVE FALSE
      OBVIOUS
  <2>1. PICK k \in Places(root, "modules") : \E l \in Places(root.kids[k], "module") :
            ReadBy(n, m - 1, k, l) /\ modules[i].name = Name(ElementAt(root, k, l))
      BY DEF Table, CheckedRead
  <2>2. PICK l \in Places(root.kids[k], "module") :
            ReadBy(n, m - 1, k, l) /\ modules[i].name = Name(ElementAt(root, k, l))
      BY <2>1
  <2>3. UniqueModules(root)
      BY DEF validate_configuration
  <2>4. Name(root.kids[n].kids[m]) = Name(root.kids[k].kids[l])
      BY <1>3, <2>2 DEF ElementAt
  <2>5. k = n /\ l = m
      BY <2>3, <2>4 DEF UniqueModules
  <2> QED BY <1>1, <2>2, <2>5 DEF ReadBy
<1>4. LET i == IndexOf(modules, Name(e)) IN i \in DOMAIN modules => ~modules[i].checked
    BY <1>3, Index DEF Table
<1> HIDE DEF e
<1> QED BY <1>2, <1>3, <1>4 DEF BasicElements, e

(***************************************************************************)
(* The element of a module is applied.                                     *)
(***************************************************************************)
LEMMA ModuleApplied ==
    ASSUME NEW root, IsDocument(root), validate_configuration(root),
           NEW n \in Places(root, "modules"), NEW m \in Places(root.kids[n], "module"),
           NEW mode, NEW init \in BOOLEAN, mode = "start" => init,
           NEW modules, Table(root, n, m - 1, mode, modules)
    PROVE  Table(root, n, m, mode,
                 ApplyModule(ElementAt(root, n, m), modules, Name(root.kids[n]), init))
<1> DEFINE e == ElementAt(root, n, m)
           k == IndexOf(modules, Name(e))
           new == k > Len(modules)
           s == IF new THEN FreshSlot(Name(e)) ELSE modules[k]
           u == ProcessModule(e, s, new, Name(root.kids[n]), init)
           out == PutAt(modules, k, u)
<1>1. /\ ModuleElement(e)
      /\ e \in ModuleElements(root) /\ m \in Nat /\ n \in Nat
    BY Validated
<1>2. /\ modules \in Seq(Nodes(modules)) /\ UniqueSlots(modules)
      /\ \A i \in DOMAIN modules : WorkSlot(modules[i])
    BY DEF Table
<1>3. ApplyModule(e, modules, Name(root.kids[n]), init) = out
    BY DEF ApplyModule
<1> HIDE DEF k
<1>4. \/ k \in DOMAIN modules /\ modules[k].name = Name(e) /\ ~(k > Len(modules))
      \/ /\ k = Len(modules) + 1 /\ k \notin DOMAIN modules /\ k > Len(modules)
         /\ \A i \in DOMAIN modules : modules[i].name # Name(e)
    BY <1>2, Index DEF k
<1>5. /\ WorkSlot(s) /\ ~s.checked /\ s.name = Name(e) /\ new \in BOOLEAN
      /\ new => s.ifces_cnt = 0
  <2>1. CASE new
      BY <2>1, Fresh
  <2>2. CASE ~new
      BY <1>2, <1>4, <2>2, Basic
  <2> QED BY <2>1, <2>2
<1> HIDE DEF e, s, new
<1>6. /\ WorkSlot(u) /\ u.checked /\ u.name = Name(e) /\ u.profile = Name(root.kids[n])
      /\ Holds(u, e)
      /\ new \/ Settled(s, e) => ~u.modified
    BY <1>1, <1>5, ModuleProcessed
<1> HIDE DEF u
<1>7. /\ out \in Seq(Nodes(out)) /\ DOMAIN out = DOMAIN modules \cup {k}
      /\ out[k] = u /\ \A i \in DOMAIN modules : i # k => out[i] = modules[i]
  <2>1. k \in 1..(Len(modules) + 1)
      BY <1>2, <1>4, ListFacts
  <2>2. out = PutAt(modules, k, u)
      OBVIOUS
  <2> HIDE DEF out
  <2>3. out \in Seq(Nodes(out))
      BY <1>2, <2>1, <2>2, Put
  <2> QED BY <2>2, <2>3 DEF PutAt
<1> HIDE DEF out
<1>8. \A i \in DOMAIN out : WorkSlot(out[i])
    BY <1>2, <1>6, <1>7
<1>9. \A i \in DOMAIN modules : i # k => modules[i].name # Name(e)
    BY <1>2, <1>4 DEF UniqueSlots
<1>10. UniqueSlots(out)
    BY <1>2, <1>6, <1>7, <1>9 DEF UniqueSlots
<1>11. ASSUME NEW a \in Places(root, "modules"), NEW b \in Places(root.kids[a], "module")
       PROVE  /\ ReadBy(n, m - 1, a, b) => ReadBy(n, m, a, b)
              /\ ReadBy(n, m, a, b) => ReadBy(n, m - 1, a, b) \/ (a = n /\ b = m)
              /\ ReadBy(n, m, n, m)
  <2>1. a \in Nat /\ b \in Nat
      BY Validated
  <2> QED BY <1>1, <2>1 DEF ReadBy
<1>12. k \in DOMAIN modules => ~modules[k].checked
    BY <1>4, Basic DEF e
<1>13. ReadIn(root, n, m, out)
  <2> SUFFICES ASSUME NEW a \in Places(root, "modules"),
                      NEW b \in Places(root.kids[a], "module"), ReadBy(n, m, a, b)
               PROVE  \E i \in DOMAIN out : InSlot(out[i], root.kids[a], ElementAt(root, a, b))
      BY DEF ReadIn
  <2>1. CASE ReadBy(n, m - 1, a, b)
    <3>1. PICK i \in DOMAIN modules : InSlot(modules[i], root.kids[a], ElementAt(root, a, b))
        BY <2>1 DEF Table, ReadIn
    <3>2. i # k
        BY <1>12, <3>1 DEF InSlot
    <3> QED BY <1>7, <3>1, <3>2
  <2>2. CASE a = n /\ b = m
    <3>1. InSlot(u, root.kids[a], ElementAt(root, a, b))
        BY <1>6, <2>2 DEF InSlot, e
    <3> QED BY <1>7, <3>1
  <2> QED BY <1>11, <2>1, <2>2
<1>14. CheckedRead(root, n, m, out)
  <2> SUFFICES ASSUME NEW i \in DOMAIN out, out[i].checked
               PROVE  \E a \in Places(root, "modules") :
                      \E b \in Places(root.kids[a], "module") :
                          ReadBy(n, m, a, b) /\ out[i].name = Name(ElementAt(root, a, b))
      BY DEF CheckedRead
  <2>1. CASE i = k
      BY <1>6, <1>7, <1>11, <2>1 DEF e
  <2>2. CASE i # k
    <3>1. i \in DOMAIN modules /\ out[i] = modules[i]
        BY <1>7, <2>2
    <3> QED BY <1>11, <3>1 DEF Table, CheckedRead
  <2> QED BY <2>1, <2>2
<1>15. ASSUME mode = "quiet" PROVE Undisturbed(root, out)
  <2>1. Undisturbed(root, modules)
      BY <1>15 DEF Table
  <2>2. ~u.modified
    <3>1. CASE new
        BY <1>6, <3>1
    <3>2. CASE ~new
      <4>1. k \in DOMAIN modules /\ modules[k].name = Name(e) /\ s = modules[k]
          BY <1>4, <3>2 DEF s, new
      <4>2. Settled(s, e)
          BY <1>1, <1>12, <2>1, <4>1 DEF Undisturbed, SettledIn
      <4> QED BY <1>6, <4>2
    <3> QED BY <3>1, <3>2
  <2>3. ASSUME NEW i \in DOMAIN out
        PROVE  ~out[i].modified /\ (~out[i].checked => SettledIn(root, out[i]))
    <3>1. CASE i = k
        BY <1>6, <1>7, <2>2, <3>1
    <3>2. CASE i # k
      <4>1. i \in DOMAIN modules /\ out[i] = modules[i]
          BY <1>7, <3>2
      <4> QED BY <2>1, <4>1 DEF Undisturbed
    <3> QED BY <3>1, <3>2
  <2> QED BY <2>3 DEF Undisturbed
<1>16. ASSUME mode = "start" PROVE AllNew(root, out)
  <2>1. AllNew(root, modules) /\ init
      BY <1>16 DEF Table
  <2>2. k \notin DOMAIN modules /\ k > Len(modules)
      BY <1>4, <1>12, <2>1 DEF AllNew
  <2>3. new = TRUE /\ init = TRUE /\ s = FreshSlot(Name(e))
      BY <2>1, <2>2, Zenon DEF new, s
  <2>4. u = NewSlot(root.kids[n], ElementAt(root, n, m))
      BY <2>3 DEF u, NewSlot, e
  <2>5. ASSUME NEW i \in DOMAIN out
        PROVE  /\ out[i].checked
               /\ \E a \in Places(root, "modules") : \E b \in Places(root.kids[a], "module") :
                     out[i] = NewSlot(root.kids[a], ElementAt(root, a, b))
    <3>1. CASE i = k
        BY <1>6, <1>7, <2>4, <3>1
    <3>2. CASE i # k
        BY <1>7, <2>1, <3>2 DEF AllNew
    <3> QED BY <3>1, <3>2
  <2> QED BY <2>5 DEF AllNew
<1>17. Table(root, n, m, mode, out)
    BY <1>7, <1>8, <1>10, <1>13, <1>14, <1>15, <1>16 DEF Table
<1> QED BY <1>3, <1>17 DEF e

-----------------------------------------------------------------------------
(* The loops over the document. *)

(***************************************************************************)
(* The table after a node that is no module is the table before it.        *)
(***************************************************************************)
LEMMA SameRead ==
    ASSUME NEW root, NEW mode, NEW modules, NEW n, NEW m, NEW i, NEW j,
           Table(root, n, m, mode, modules),
           \A k \in Places(root, "modules") : \A l \in Places(root.kids[k], "module") :
               ReadBy(n, m, k, l) <=> ReadBy(i, j, k, l)
    PROVE  Table(root, i, j, mode, modules)
<1>1. ReadIn(root, i, j, modules)
    BY DEF Table, ReadIn
<1>2. CheckedRead(root, i, j, modules)
    BY DEF Table, CheckedRead
<1> QED BY <1>1, <1>2 DEF Table

(***************************************************************************)
(* The search for a module with its basic elements stops where it starts.  *)
(***************************************************************************)
LEMMA FoundAtOnce ==
    ASSUME NEW nodes, nodes \in Seq(Nodes(nodes)), NEW i \in DOMAIN nodes, NEW modules,
           BasicElements(nodes[i], modules), nodes[i].kids # <<>>
    PROVE  reload_find_and_check_module_basic_elements(nodes, i, modules) = i
<1> DEFINE ends == {j \in i..Len(nodes) :
                       /\ (j - i) % 2 = 0
                       /\ Childless(nodes[j]) \/ BasicElements(nodes[j], modules)}
<1>1. Len(nodes) \in Nat /\ i \in 1..Len(nodes)
    BY ListFacts
<1>2. (i - i) % 2 = 0
    BY <1>1
<1>3. i \in ends /\ ends \in SUBSET Nat
    BY <1>1, <1>2
<1>4. \A j \in ends : i <= j /\ j \in Nat
    BY <1>1
<1>5. ~Childless(nodes[i])
    BY DEF Childless
<1>6. reload_find_and_check_module_basic_elements(nodes, i, modules)
         = IF ends = {} \/ Childless(nodes[Min(ends)]) THEN 0 ELSE Min(ends)
    BY DEF reload_find_and_check_module_basic_elements
<1> HIDE DEF ends
<1>7. Min(ends) \in ends /\ Min(ends) <= i
    BY <1>3, FirstPlace
<1>8. Min(ends) = i
    BY <1>1, <1>4, <1>7
<1> QED BY <1>3, <1>5, <1>6, <1>8

\* The loop of ProcessModules; x is the document, the number of the group, the
\* table, the mode and the init flag.
ModulesBase(x) == [modules |-> x[3], next |-> 1]

ModulesStep(x, acc, i) ==
    ProcessChild(x[1].kids[x[2]].kids, acc, i, Name(x[1].kids[x[2]]), x[5])

\* Its invariant.
ModulesInv(x, i, acc) ==
    /\ DOMAIN acc = {"modules", "next"} /\ acc.next = i + 1
    /\ Table(x[1], x[2], i, x[4], acc.modules)

ModulesLoop ==
    INSTANCE Recursion WITH Base <- ModulesBase, Step <- ModulesStep, P <- ModulesInv

(***************************************************************************)
(* A group of a validated document is applied as a whole: no module of it  *)
(* is skipped (reload_configuration, reload_find_and_check_module_basic_   *)
(* elements).                                                              *)
(***************************************************************************)
LEMMA ModulesApplied ==
    ASSUME NEW root, IsDocument(root), validate_configuration(root),
           NEW n \in Places(root, "modules"), NEW mode, NEW init \in BOOLEAN,
           mode = "start" => init, NEW modules, Table(root, n, 0, mode, modules)
    PROVE  Table(root, n, Len(root.kids[n].kids), mode,
                 ProcessModules(root.kids[n].kids, modules, Name(root.kids[n]), init))
<1> DEFINE g == root.kids[n]
           nodes == g.kids
           N == Len(nodes)
           x == <<root, n, modules, mode, init>>
<1>1. nodes \in Seq(Nodes(nodes)) /\ N \in Nat /\ DOMAIN nodes = 1..N /\ n \in Nat
    BY Validated, ListFacts DEF IsGroup, IsTree
<1>2. x[1] = root /\ x[2] = n /\ x[3] = modules /\ x[4] = mode /\ x[5] = init
    OBVIOUS
<1> HIDE DEF x, N
<1>3. \E f : ModulesLoop!IsLoop(f, x, N)
    BY <1>1, ModulesLoop!LoopExists
<1>4. PICK f : /\ ModulesLoop!IsLoop(f, x, N)
               /\ ProcessModules(nodes, modules, Name(g), init) = f[N].modules
  <2>1. \E f : f = [i \in 0..Len(nodes) |->
                       IF i = 0 THEN [modules |-> modules, next |-> 1]
                       ELSE ProcessChild(nodes, f[i - 1], i, Name(g), init)]
      BY <1>2, <1>3 DEF ModulesLoop!IsLoop, ModulesStep, ModulesBase, N
  <2>2. PICK f : /\ f = [i \in 0..Len(nodes) |->
                       IF i = 0 THEN [modules |-> modules, next |-> 1]
                       ELSE ProcessChild(nodes, f[i - 1], i, Name(g), init)]
                 /\ ProcessModules(nodes, modules, Name(g), init) = f[Len(nodes)].modules
      BY <2>1 DEF ProcessModules
  <2> QED BY <1>2, <2>2 DEF ModulesLoop!IsLoop, ModulesStep, ModulesBase, N
<1>5. ModulesInv(x, 0, ModulesBase(x))
    BY <1>2 DEF ModulesInv, ModulesBase
<1>6. ASSUME NEW acc, NEW i \in 1..N, ModulesInv(x, i - 1, acc)
      PROVE  ModulesInv(x, i, ModulesStep(x, acc, i))
  <2>1. /\ DOMAIN acc = {"modules", "next"} /\ acc.next = i
        /\ Table(root, n, i - 1, mode, acc.modules)
        /\ i \in DOMAIN nodes /\ i \in Nat /\ i # 0
      BY <1>1, <1>2, <1>6 DEF ModulesInv
  <2>2. ModulesStep(x, acc, i) = ProcessChild(nodes, acc, i, Name(g), init)
      BY <1>2 DEF ModulesStep
  <2>3. ~(i < acc.next \/ acc.next = 0)
      BY <2>1
  <2>4. CASE nodes[i].tag # "module"
    <3> DEFINE new == [acc EXCEPT !.next = i + 1]
    <3>1. ModulesStep(x, acc, i) = new
        BY <2>2, <2>3, <2>4 DEF ProcessChild
    <3>2. DOMAIN new = {"modules", "next"} /\ new.next = i + 1 /\ new.modules = acc.modules
        BY <2>1
    <3>3. ASSUME NEW k \in Places(root, "modules"), NEW l \in Places(root.kids[k], "module")
          PROVE  ReadBy(n, i - 1, k, l) <=> ReadBy(n, i, k, l)
      <4>1. k \in Nat /\ l \in Nat
          BY Validated
      <4>2. ~(k = n /\ l = i)
          BY <2>4 DEF Places
      <4> QED BY <1>1, <2>1, <4>1, <4>2 DEF ReadBy
    <3>4. Table(root, n, i, mode, acc.modules)
        BY <2>1, <3>3, SameRead
    <3> QED BY <1>2, <3>1, <3>2, <3>4 DEF ModulesInv
  <2>5. CASE nodes[i].tag = "module"
    <3> DEFINE new == [modules |-> ApplyModule(nodes[i], acc.modules, Name(g), init),
                       next |-> i + 1]
    <3>1. i \in Places(g, "module") /\ nodes[i] = ElementAt(root, n, i)
        BY <2>1, <2>5 DEF Places, ElementAt
    <3>2. BasicElements(nodes[i], acc.modules) /\ nodes[i].kids # <<>>
        BY <2>1, <3>1, Basic, Validated
    <3>3. reload_find_and_check_module_basic_elements(nodes, i, acc.modules) = i
        BY <1>1, <2>1, <3>2, FoundAtOnce
    <3>4. ModulesStep(x, acc, i) = new
        BY <2>1, <2>2, <2>3, <2>5, <3>3 DEF ProcessChild
    <3>5. Table(root, n, i, mode, new.modules)
        BY <2>1, <3>1, ModuleApplied
    <3>6. DOMAIN new = {"modules", "next"} /\ new.next = i + 1
        OBVIOUS
    <3> HIDE DEF new
    <3> QED BY <1>2, <3>4, <3>5, <3>6 DEF ModulesInv
  <2> QED BY <2>4, <2>5
<1>7. \A i \in 0..N : ModulesInv(x, i, f[i])
    BY <1>1, <1>4, <1>5, <1>6, ModulesLoop!LoopInvariant
<1>8. ModulesInv(x, N, f[N])
    BY <1>1, <1>7
<1> QED BY <1>2, <1>4, <1>8 DEF ModulesInv, N

\* The list of profiles.
ProfileList(ps) ==
    ps \in Seq(Nodes(ps)) /\ \A p \in Nodes(ps) : p.enabled \in BOOLEAN

\* The profiles up to the n-th node are in the list, each once, and no others.
ProfilesRead(root, n, ps) ==
    /\ \A k \in Places(root, "modules") :
          k <= n => \E i \in DOMAIN ps : ps[i].name = Name(root.kids[k])
    /\ \A i \in DOMAIN ps :
          \E k \in Places(root, "modules") : k <= n /\ ps[i].name = Name(root.kids[k])
    /\ \A i, j \in DOMAIN ps : ps[i].name = ps[j].name => i = j

(***************************************************************************)
(* A profile is put at the end of the list                                 *)
(* (reload_find_and_check_modules_profile_basic_elements).                 *)
(***************************************************************************)
LEMMA ProfileRead ==
    ASSUME NEW root, IsDocument(root), UniqueProfiles(root), NEW n \in Places(root, "modules"),
           NEW ps, ps \in Seq(Nodes(ps)), ProfilesRead(root, n - 1, ps),
           NEW q, q.name = Name(root.kids[n]), NEW out, out = ps \o <<q>>
    PROVE  ProfilesRead(root, n, out)
<1>1. \A k \in Places(root, "modules") : k \in Nat
    BY ListFacts DEF IsDocument, IsTree, Places
<1>2. Len(ps) \in Nat /\ DOMAIN ps = 1..Len(ps)
    BY ListFacts
<1>3. /\ DOMAIN out = 1..(Len(ps) + 1) /\ out[Len(ps) + 1] = q
      /\ \A i \in 1..Len(ps) : out[i] = ps[i]
    BY <1>2
<1>4. ASSUME NEW k \in Places(root, "modules"), k <= n
      PROVE  \E i \in DOMAIN out : out[i].name = Name(root.kids[k])
  <2>1. CASE k = n
      BY <1>2, <1>3, <2>1
  <2>2. CASE k # n
    <3>1. k <= n - 1
        BY <1>1, <1>4, <2>2
    <3>2. PICK i \in DOMAIN ps : ps[i].name = Name(root.kids[k])
        BY <3>1 DEF ProfilesRead
    <3> QED BY <1>2, <1>3, <3>2
  <2> QED BY <2>1, <2>2
<1>5. ASSUME NEW i \in DOMAIN ps
      PROVE  /\ \E k \in Places(root, "modules") : k <= n /\ ps[i].name = Name(root.kids[k])
             /\ ps[i].name # q.name
  <2>1. PICK k \in Places(root, "modules") : k <= n - 1 /\ ps[i].name = Name(root.kids[k])
      BY DEF ProfilesRead
  <2>2. k # n /\ k <= n
      BY <1>1, <2>1
  <2> QED BY <2>1, <2>2 DEF UniqueProfiles
<1>6. ASSUME NEW i \in DOMAIN out
      PROVE  \E k \in Places(root, "modules") : k <= n /\ out[i].name = Name(root.kids[k])
  <2>1. CASE i = Len(ps) + 1
      BY <1>1, <1>3, <2>1
  <2>2. CASE i # Len(ps) + 1
    <3>1. i \in DOMAIN ps /\ out[i] = ps[i]
        BY <1>2, <1>3, <2>2
    <3> QED BY <1>5, <3>1
  <2> QED BY <2>1, <2>2
<1>7. ASSUME NEW i \in DOMAIN out, NEW j \in DOMAIN out, out[i].name = out[j].name PROVE i = j
    BY <1>2, <1>3, <1>5, <1>7 DEF ProfilesRead
<1> QED BY <1>4, <1>6, <1>7 DEF ProfilesRead

\* The loop of ProcessDocument; x is the document, the init flag, the state at
\* its start and the mode.
DocumentBase(x) == x[3]

DocumentLoopStep(x, acc, n) == ProcessNode(acc, x[1].kids[n], x[2])

\* The common limit is the one of the first n nodes, if they give one.
LimitRead(root, n, r) ==
    \A k \in Places(root, "supervisor") :
        k <= n => r = ValueOf(root.kids[k], "module-restarts", r)

\* It is the default where no document has given one.
LimitLeft(root, mode, r) ==
    mode = "start" /\ Places(root, "supervisor") = {} => r = DefaultRestarts

\* Its invariant.
Applied(root, n, mode, acc) ==
    /\ DOMAIN acc = {"modules", "profiles", "restarts"}
    /\ Table(root, n + 1, 0, mode, acc.modules)
    /\ ProfileList(acc.profiles) /\ acc.restarts \in Nat
    /\ LimitRead(root, n, acc.restarts) /\ LimitLeft(root, mode, acc.restarts)
    /\ ProfilesRead(root, n, acc.profiles)

DocumentLoopInv(x, n, acc) == Applied(x[1], n, x[4], acc)

DocumentLoop ==
    INSTANCE Recursion WITH Base <- DocumentBase, Step <- DocumentLoopStep,
                            P <- DocumentLoopInv

(***************************************************************************)
(* The common limit is read from the only "supervisor" element.            *)
(***************************************************************************)
LEMMA LimitApplied ==
    ASSUME NEW root, IsDocument(root), validate_configuration(root),
           NEW n \in DOMAIN root.kids, NEW r \in Nat, LimitRead(root, n - 1, r)
    PROVE  /\ n \notin Places(root, "supervisor") => LimitRead(root, n, r)
           /\ n \in Places(root, "supervisor") =>
                 LimitRead(root, n, reload_process_supervisor_element(root.kids[n], r))
<1> DEFINE g == root.kids[n]
           q == reload_process_supervisor_element(g, r)
<1>1. n \in Nat /\ \A k \in Places(root, "supervisor") : k \in Nat
    BY ListFacts DEF IsDocument, IsTree, Places
<1>2. ASSUME n \notin Places(root, "supervisor") PROVE LimitRead(root, n, r)
  <2>1. \A k \in Places(root, "supervisor") : k # n /\ (k <= n => k <= n - 1)
      BY <1>1, <1>2
  <2> QED BY <2>1 DEF LimitRead
<1>3. ASSUME n \in Places(root, "supervisor") PROVE LimitRead(root, n, q)
  <2>1. \A k \in Places(root, "supervisor") : k = n
      BY <1>3 DEF validate_configuration, Structure, Single
  <2>2. g \in Children(root, "supervisor") /\ g \in Nodes(root.kids)
      BY <1>3 DEF Children, Nodes
  <2>3. reload_check_supervisor_element(g) /\ g.kids \in Seq(Nodes(g.kids))
      BY <2>2 DEF validate_configuration, IsDocument, IsGroup, IsTree
  <2> HIDE DEF g
  <2>4. CASE Has(g, "module-restarts")
    <3>1. Child(g, "module-restarts").val \in Restarts
        BY <2>3, <2>4, ChildFacts DEF reload_check_supervisor_element, OneOf
    <3>2. q = Child(g, "module-restarts").val
        BY <2>4, <3>1 DEF reload_process_supervisor_element, ValueOf
    <3> QED BY <2>1, <2>4, <3>2 DEF LimitRead, ValueOf, g
  <2>5. CASE ~Has(g, "module-restarts")
      BY <2>1, <2>5 DEF LimitRead, ValueOf, g
  <2> QED BY <2>4, <2>5
<1> QED BY <1>2, <1>3

(***************************************************************************)
(* One node below the root element.                                        *)
(***************************************************************************)
LEMMA NodeApplied ==
    ASSUME NEW root, IsDocument(root), validate_configuration(root),
           NEW n \in DOMAIN root.kids, NEW mode, NEW init \in BOOLEAN,
           mode = "start" => init, NEW acc, Applied(root, n - 1, mode, acc)
    PROVE  Applied(root, n, mode, ProcessNode(acc, root.kids[n], init))
<1> DEFINE g == root.kids[n]
<1>1. n \in Nat /\ n # 0
    BY ListFacts DEF IsDocument, IsTree
<1>2. /\ DOMAIN acc = {"modules", "profiles", "restarts"}
      /\ Table(root, n, 0, mode, acc.modules)
      /\ ProfileList(acc.profiles) /\ acc.restarts \in Nat
      /\ ProfilesRead(root, n - 1, acc.profiles)
      /\ LimitRead(root, n - 1, acc.restarts) /\ LimitLeft(root, mode, acc.restarts)
    BY <1>1 DEF Applied
<1>7. n \notin Places(root, "supervisor") => LimitRead(root, n, acc.restarts)
    BY <1>2, LimitApplied
<1>3. ASSUME n \notin Places(root, "modules")
      PROVE  /\ Table(root, n + 1, 0, mode, acc.modules)
             /\ ProfilesRead(root, n, acc.profiles)
  <2>1. ASSUME NEW k \in Places(root, "modules"), NEW l \in Places(root.kids[k], "module")
        PROVE  ReadBy(n, 0, k, l) <=> ReadBy(n + 1, 0, k, l)
    <3>1. k \in Nat /\ l \in Nat /\ l # 0
        BY Validated, ListFacts DEF Places, IsGroup, IsTree
    <3> QED BY <1>1, <1>3, <3>1 DEF ReadBy
  <2>2. \A k \in Places(root, "modules") : k <= n <=> k <= n - 1
    <3>1. \A k \in Places(root, "modules") : k \in Nat /\ k # n
        BY <1>3, ListFacts DEF IsDocument, IsTree, Places
    <3> QED BY <1>1, <3>1
  <2>3. ProfilesRead(root, n, acc.profiles)
      BY <1>2, <2>2 DEF ProfilesRead
  <2> QED BY <1>2, <2>1, <2>3, SameRead
<1>4. CASE g.tag = "supervisor"
  <2> DEFINE r == reload_process_supervisor_element(g, acc.restarts)
             new == [acc EXCEPT !.restarts = r]
  <2>1. ProcessNode(acc, g, init) = new
      BY <1>2, <1>4 DEF ProcessNode
  <2>2. r \in Nat
      BY <1>2, DocumentAssumption DEF reload_process_supervisor_element, Restarts
  <2> HIDE DEF r
  <2>3. /\ DOMAIN new = {"modules", "profiles", "restarts"} /\ new.modules = acc.modules
        /\ new.profiles = acc.profiles /\ new.restarts = r
      BY <1>2
  <2>4. n \notin Places(root, "modules") /\ n \in Places(root, "supervisor")
      BY <1>4 DEF Places
  <2>5. LimitRead(root, n, r) /\ LimitLeft(root, mode, r)
      BY <1>2, <2>4, LimitApplied DEF LimitLeft, r
  <2> HIDE DEF new, g
  <2> QED BY <1>2, <1>3, <2>1, <2>2, <2>3, <2>4, <2>5 DEF Applied, g
<1>5. CASE g.tag = "modules"
  <2> DEFINE p == reload_find_and_check_modules_profile_basic_elements(g)
             on == ValueOf(g, "enabled", NULL) = "true"
             q == [name |-> Name(g), enabled |-> on]
             mods == ProcessModules(g.kids, acc.modules, Name(g), init)
             new == [acc EXCEPT !.profiles = @ \o p, !.modules = mods]
  <2>1. n \in Places(root, "modules") /\ n \notin Places(root, "supervisor")
      BY <1>5 DEF Places
  <2>2. p = <<q>>
    <3>1. reload_check_modules_element(g)
        BY <2>1, Validated
    <3> QED BY <3>1 DEF reload_check_modules_element, Structure, Mandatory,
                        reload_find_and_check_modules_profile_basic_elements
  <2>3. p # <<>> /\ p[1].name = Name(g)
      BY <2>2
  <2>4. ProcessNode(acc, g, init) = new
      BY <1>2, <1>5, <2>3 DEF ProcessNode
  <2>5. Table(root, n + 1, 0, mode, mods)
    <3>1. Table(root, n, Len(g.kids), mode, mods)
        BY <1>2, <2>1, ModulesApplied
    <3>2. ASSUME NEW k \in Places(root, "modules"), NEW l \in Places(root.kids[k], "module")
          PROVE  ReadBy(n, Len(g.kids), k, l) <=> ReadBy(n + 1, 0, k, l)
      <4>1. k \in Nat /\ l \in 1..Len(root.kids[k].kids) /\ Len(root.kids[k].kids) \in Nat
          BY Validated, ListFacts DEF Places, IsGroup, IsTree
      <4> QED BY <1>1, <4>1 DEF ReadBy
    <3> HIDE DEF mods
    <3> QED BY <3>1, <3>2, SameRead
  <2>6. ProfileList(acc.profiles \o p)
    <3>1. on \in BOOLEAN
        BY Zenon
    <3>2. q.enabled \in BOOLEAN
        BY <3>1
    <3> HIDE DEF q
    <3>3. p \in Seq(Nodes(p)) /\ Nodes(p) = {q}
        BY <2>2 DEF Nodes
    <3> HIDE DEF p
    <3>4. /\ Nodes(acc.profiles \o p) = Nodes(acc.profiles) \cup {q}
          /\ acc.profiles \o p \in Seq(Nodes(acc.profiles \o p))
        BY <1>2, <3>3, Concatenation DEF ProfileList
    <3> QED BY <1>2, <3>2, <3>4 DEF ProfileList
  <2>8. ProfilesRead(root, n, acc.profiles \o p)
    <3>1. UniqueProfiles(root)
        BY DEF validate_configuration
    <3>2. q.name = Name(root.kids[n])
        OBVIOUS
    <3> HIDE DEF q
    <3> QED BY <1>2, <2>1, <2>2, <3>1, <3>2, ProfileRead DEF ProfileList
  <2> HIDE DEF mods, p
  <2>7. /\ DOMAIN new = {"modules", "profiles", "restarts"} /\ new.modules = mods
        /\ new.profiles = acc.profiles \o p /\ new.restarts = acc.restarts
      BY <1>2
  <2> HIDE DEF new, g
  <2> QED BY <1>2, <1>7, <2>1, <2>4, <2>5, <2>6, <2>7, <2>8 DEF Applied, g
<1>6. CASE g.tag \notin {"supervisor", "modules"}
  <2>1. ProcessNode(acc, g, init) = acc
      BY <1>6 DEF ProcessNode
  <2>2. n \notin Places(root, "modules") /\ n \notin Places(root, "supervisor")
      BY <1>6 DEF Places
  <2> QED BY <1>2, <1>3, <1>7, <2>1, <2>2 DEF Applied
<1> QED BY <1>4, <1>5, <1>6

(***************************************************************************)
(* The whole document is applied.                                          *)
(***************************************************************************)
LEMMA DocumentApplied ==
    ASSUME NEW root, IsDocument(root), validate_configuration(root),
           NEW mode, NEW init \in BOOLEAN, mode = "start" => init,
           NEW start, Applied(root, 0, mode, start)
    PROVE  Applied(root, Len(root.kids), mode, ProcessDocument(root, init, start))
<1> DEFINE N == Len(root.kids)
           x == <<root, init, start, mode>>
<1>1. N \in Nat /\ DOMAIN root.kids = 1..N
    BY ListFacts DEF IsDocument, IsTree
<1>2. x[1] = root /\ x[2] = init /\ x[3] = start /\ x[4] = mode
    OBVIOUS
<1> HIDE DEF x, N
<1>3. \E f : DocumentLoop!IsLoop(f, x, N)
    BY <1>1, DocumentLoop!LoopExists
<1>4. PICK f : DocumentLoop!IsLoop(f, x, N) /\ ProcessDocument(root, init, start) = f[N]
  <2>1. \E f : f = [n \in 0..Len(root.kids) |->
                       IF n = 0 THEN start ELSE ProcessNode(f[n - 1], root.kids[n], init)]
      BY <1>2, <1>3 DEF DocumentLoop!IsLoop, DocumentLoopStep, DocumentBase, N
  <2>2. PICK f : /\ f = [n \in 0..Len(root.kids) |->
                       IF n = 0 THEN start ELSE ProcessNode(f[n - 1], root.kids[n], init)]
                 /\ ProcessDocument(root, init, start) = f[Len(root.kids)]
      BY <2>1 DEF ProcessDocument
  <2> QED BY <1>2, <2>2 DEF DocumentLoop!IsLoop, DocumentLoopStep, DocumentBase, N
<1>5. DocumentLoopInv(x, 0, DocumentBase(x))
    BY <1>2 DEF DocumentLoopInv, DocumentBase
<1>6. ASSUME NEW acc, NEW n \in 1..N, DocumentLoopInv(x, n - 1, acc)
      PROVE  DocumentLoopInv(x, n, DocumentLoopStep(x, acc, n))
  <2>1. Applied(root, n - 1, mode, acc) /\ n \in DOMAIN root.kids
      BY <1>1, <1>2, <1>6 DEF DocumentLoopInv
  <2>2. Applied(root, n, mode, ProcessNode(acc, root.kids[n], init))
      BY <2>1, NodeApplied
  <2> QED BY <1>2, <2>2 DEF DocumentLoopInv, DocumentLoopStep
<1>7. \A n \in 0..N : DocumentLoopInv(x, n, f[n])
    BY <1>1, <1>4, <1>5, <1>6, DocumentLoop!LoopInvariant
<1>8. DocumentLoopInv(x, N, f[N])
    BY <1>1, <1>7
<1> QED BY <1>2, <1>4, <1>8 DEF DocumentLoopInv, N

-----------------------------------------------------------------------------
(* A reload. *)

\* The table between two reloads.
TableInv ==
    /\ running_modules \in Seq(Nodes(running_modules))
    /\ \A i \in DOMAIN running_modules : SlotType(running_modules[i])
    /\ UniqueSlots(running_modules)

\* The module e of the group g is in this slot.
LoadedSlot(s, g, e) == s.name = Name(e) /\ s.profile = Name(g) /\ SlotHas(s, e)

\* Every module of the document is in the table, and what else is there is on
\* its way out.
AllLoaded(root, modules) ==
    \A k \in Places(root, "modules") : \A l \in Places(root.kids[k], "module") :
        \E i \in DOMAIN modules : LoadedSlot(modules[i], root.kids[k], ElementAt(root, k, l))

\* What is not in the document is on its way out.
NoOther(root, modules) ==
    \A i \in DOMAIN modules :
        \/ modules[i].remove_module
        \/ \E e \in ModuleElements(root) : modules[i].name = Name(e)

\* A module below a profile has a name and a path, and the profile is in the list.
Profiled(modules, ps) ==
    \A i \in DOMAIN modules : modules[i].profile # NULL =>
        /\ modules[i].name # NULL /\ modules[i].path # NULL
        /\ \E j \in DOMAIN ps : ps[j].name = modules[i].profile

ProfileNames(ps) ==
    /\ \A i \in DOMAIN ps : ps[i].name # NULL
    /\ \A i, j \in DOMAIN ps : ps[i].name = ps[j].name => i = j

\* The common limit is the one that the document gives.
LimitLoaded(root, r) ==
    \A s \in Children(root, "supervisor") : r = ValueOf(s, "module-restarts", r)

\* Nothing but new modules.
AllStarted(root, modules) ==
    \A i \in DOMAIN modules :
        \E k \in Places(root, "modules") : \E l \in Places(root.kids[k], "module") :
            modules[i] = Concluded(NewSlot(root.kids[k], ElementAt(root, k, l)), TRUE)

(***************************************************************************)
(* The loop over the table before a document is applied.                   *)
(***************************************************************************)
LEMMA ResetFacts ==
    ASSUME NEW s, SlotType(s)
    PROVE  LET t == Reset(s)
           IN  /\ WorkSlot(t) /\ ~t.checked /\ ~t.modified
               /\ t.name = s.name /\ t.path = s.path /\ t.params = s.params
               /\ t.ifces = s.ifces /\ t.ifces_cnt = s.ifces_cnt
<1> DEFINE t == Reset(s)
<1>1. DOMAIN s = SlotFields
    BY DEF SlotType
<1>2. /\ DOMAIN t = SlotFields
      /\ t.checked = FALSE /\ t.modified = FALSE /\ t.profile = NULL
      /\ t.max_restarts = -1 /\ t.init_module = FALSE /\ t.remove_module = FALSE
      /\ t.name = s.name /\ t.path = s.path /\ t.params = s.params
      /\ t.enabled = s.enabled /\ t.ifces = s.ifces /\ t.ifces_cnt = s.ifces_cnt
      /\ t.running = s.running /\ t.pid = s.pid
    BY <1>1 DEF Reset, SlotFields
<1> HIDE DEF t
<1>3. ~t.checked /\ ~t.modified /\ ~t.init_module /\ ~t.remove_module
    BY <1>2, Zenon
<1>4. /\ t.checked \in BOOLEAN /\ t.modified \in BOOLEAN /\ t.init_module \in BOOLEAN
      /\ t.remove_module \in BOOLEAN
    BY <1>2, Zenon
<1>5. t.enabled \in BOOLEAN /\ t.running \in BOOLEAN /\ t.pid \in BOOLEAN
    BY <1>2 DEF SlotType, SlotFlags
<1>6. \A f \in SlotFlags : t[f] \in BOOLEAN
    BY <1>4, <1>5 DEF SlotFlags
<1>7. SlotType(t)
    BY <1>2, <1>6, DocumentAssumption DEF SlotType
<1> QED BY <1>2, <1>3, <1>7 DEF WorkSlot, t

(***************************************************************************)
(* The loops behind the document's (reload_configuration).                 *)
(***************************************************************************)
LEMMA ConcludedFacts ==
    ASSUME NEW s, WorkSlot(s), NEW init \in BOOLEAN
    PROVE  LET t == Concluded(s, init)
           IN  /\ SlotType(t) /\ t.name = s.name /\ t.path = s.path /\ t.profile = s.profile
               /\ t.modified = s.modified
               /\ ~s.checked => t.remove_module
               /\ \A g, e : InSlot(s, g, e) => LoadedSlot(t, g, e)
<1> DEFINE gone == ~s.checked
           stopped == s.modified /\ s.running
           restart == stopped /\ s.enabled /\ ~gone
           on == s.enabled /\ ~gone /\ ~restart
           runs == (s.running /\ ~stopped) \/ (init /\ s.pid)
           t == Concluded(s, init)
<1>1. SlotType(s) /\ DOMAIN s = SlotFields
    BY DEF WorkSlot, SlotType
<1>2. t = [s EXCEPT !.remove_module = gone, !.enabled = on, !.init_module = restart,
                    !.running = runs]
    BY <1>1 DEF Concluded, SlotFields
<1>3. gone \in BOOLEAN /\ on \in BOOLEAN /\ restart \in BOOLEAN /\ runs \in BOOLEAN
    BY Zenon
<1>4. s.checked => ~gone /\ ((on \/ restart) <=> s.enabled)
    OBVIOUS
<1>5. ~s.checked => gone
    OBVIOUS
<1> HIDE DEF gone, restart, on, runs, t
<1>6. /\ DOMAIN t = SlotFields
      /\ t.remove_module = gone /\ t.enabled = on /\ t.init_module = restart
      /\ t.running = runs
      /\ t.name = s.name /\ t.path = s.path /\ t.params = s.params /\ t.profile = s.profile
      /\ t.ifces = s.ifces /\ t.ifces_cnt = s.ifces_cnt /\ t.max_restarts = s.max_restarts
      /\ t.checked = s.checked /\ t.modified = s.modified /\ t.pid = s.pid
    BY <1>1, <1>2 DEF SlotFields
<1>7. t.checked \in BOOLEAN /\ t.modified \in BOOLEAN /\ t.pid \in BOOLEAN
    BY <1>1, <1>6 DEF SlotType, SlotFlags
<1>8. /\ t.remove_module \in BOOLEAN /\ t.enabled \in BOOLEAN /\ t.init_module \in BOOLEAN
      /\ t.running \in BOOLEAN
    BY <1>3, <1>6
<1>9. \A f \in SlotFlags : t[f] \in BOOLEAN
    BY <1>7, <1>8 DEF SlotFlags
<1>10. SlotType(t)
    BY <1>1, <1>6, <1>9 DEF SlotType
<1>11. ASSUME NEW g, NEW e, InSlot(s, g, e) PROVE LoadedSlot(t, g, e)
  <2>1. /\ s.checked /\ s.name = Name(e) /\ s.profile = Name(g)
        /\ s.path = ValueOf(e, "path", s.path) /\ s.params = ValueOf(e, "params", s.params)
        /\ s.max_restarts = ValueOf(e, "module-restarts", -1)
        /\ s.enabled = (ValueOf(e, "enabled", NULL) = "true")
        /\ LaidOutModule(e) => SameInterfaces(InterfaceNodes(e), s)
      BY <1>11 DEF InSlot, Holds
  <2>2. ~gone /\ ((on \/ restart) <=> s.enabled)
      BY <1>4, <2>1
  <2>3. ~t.remove_module
      BY <1>6, <2>2
  <2>4. (t.enabled \/ t.init_module) <=> s.enabled
      BY <1>6, <2>2
  <2>5. (t.enabled \/ t.init_module) = (ValueOf(e, "enabled", NULL) = "true")
      BY <2>1, <2>4
  <2>6. LaidOutModule(e) => SameInterfaces(InterfaceNodes(e), t)
      BY <1>6, <2>1, SameArray
  <2> QED BY <1>6, <2>1, <2>3, <2>5, <2>6 DEF LoadedSlot, SlotHas
<1>12. ~s.checked => t.remove_module
    BY <1>5, <1>6
<1> QED BY <1>6, <1>10, <1>11, <1>12 DEF t

(***************************************************************************)
(* What a function makes of every slot is a table again.                   *)
(***************************************************************************)
LEMMA MappedList ==
    ASSUME NEW s, s \in Seq(Nodes(s)), NEW t, DOMAIN t = DOMAIN s,
           t = [i \in DOMAIN s |-> t[i]]
    PROVE  t \in Seq(Nodes(t))
BY ListFacts, ListMade

(***************************************************************************)
(* A validated document is applied to the table.                           *)
(***************************************************************************)
LEMMA DocumentLoaded ==
    ASSUME TableInv, restarts_config \in Nat, NEW root, IsDocument(root),
           validate_configuration(root), NEW init \in BOOLEAN, ApplyDocument(root, init),
           NEW mode,
           mode = "start" =>
               init /\ running_modules = <<>> /\ restarts_config = DefaultRestarts,
           mode = "quiet" =>
               \A i \in DOMAIN running_modules : SettledIn(root, running_modules[i])
    PROVE  /\ TableInv' /\ restarts_config' \in Nat /\ ProfileList(profiles')
           /\ loaded' = root /\ AllLoaded(root, running_modules')
           /\ NoOther(root, running_modules') /\ LimitLoaded(root, restarts_config')
           /\ LimitLeft(root, mode, restarts_config')
           /\ ProfileNames(profiles') /\ Profiled(running_modules', profiles')
           /\ mode = "quiet" => \A i \in DOMAIN running_modules' : ~running_modules'[i].modified
           /\ mode = "start" => AllStarted(root, running_modules')
<1> DEFINE mods == [i \in DOMAIN running_modules |-> Reset(running_modules[i])]
           start == [modules |-> mods, profiles |-> <<>>, restarts |-> restarts_config]
           end == ProcessDocument(root, init, start)
           out == [i \in DOMAIN end.modules |-> Concluded(end.modules[i], init)]
<1>1. /\ running_modules' = out /\ profiles' = end.profiles
      /\ restarts_config' = end.restarts /\ loaded' = root
    BY DEF ApplyDocument
<1>2. /\ DOMAIN mods = DOMAIN running_modules
      /\ \A i \in DOMAIN mods : mods[i] = Reset(running_modules[i])
      /\ mods = [i \in DOMAIN running_modules |-> mods[i]]
    OBVIOUS
<1>3. /\ DOMAIN start = {"modules", "profiles", "restarts"} /\ start.modules = mods
      /\ start.profiles = <<>> /\ start.restarts = restarts_config
    OBVIOUS
<1> HIDE DEF mods, start
<1>4. Table(root, 0 + 1, 0, mode, mods)
  <2>1. mods \in Seq(Nodes(mods))
      BY <1>2, MappedList DEF TableInv
  <2>2. ASSUME NEW i \in DOMAIN mods
        PROVE  /\ WorkSlot(mods[i]) /\ ~mods[i].checked /\ ~mods[i].modified
               /\ mods[i].name = running_modules[i].name
               /\ mods[i].path = running_modules[i].path
               /\ mods[i].params = running_modules[i].params
               /\ mods[i].ifces = running_modules[i].ifces
               /\ mods[i].ifces_cnt = running_modules[i].ifces_cnt
      BY <1>2, ResetFacts DEF TableInv
  <2>3. UniqueSlots(mods)
      BY <1>2, <2>2 DEF TableInv, UniqueSlots
  <2>4. ReadIn(root, 0 + 1, 0, mods)
    <3>1. ASSUME NEW k \in Places(root, "modules"), NEW l \in Places(root.kids[k], "module")
          PROVE  ~ReadBy(0 + 1, 0, k, l)
      <4>1. k \in Nat /\ k # 0 /\ l \in Nat /\ l # 0
          BY Validated, ListFacts DEF Places, IsGroup, IsDocument, IsTree
      <4> QED BY <4>1 DEF ReadBy
    <3> QED BY <3>1 DEF ReadIn
  <2>5. CheckedRead(root, 0 + 1, 0, mods)
      BY <2>2 DEF CheckedRead
  <2>6. ASSUME mode = "quiet" PROVE Undisturbed(root, mods)
    <3>1. ASSUME NEW i \in DOMAIN mods PROVE SettledIn(root, mods[i])
      <4>1. SettledIn(root, running_modules[i])
          BY <1>2, <2>6
      <4>2. \A e : SameInterfaces(InterfaceNodes(e), mods[i])
                      <=> SameInterfaces(InterfaceNodes(e), running_modules[i])
          BY <2>2, SameArray
      <4> QED BY <2>2, <4>1, <4>2 DEF SettledIn, Settled
    <3> QED BY <2>2, <3>1 DEF Undisturbed
  <2>7. ASSUME mode = "start" PROVE AllNew(root, mods)
      BY <1>2, <2>7 DEF AllNew
  <2> QED BY <2>1, <2>2, <2>3, <2>4, <2>5, <2>6, <2>7 DEF Table
<1>5. ProfileList(<<>>) /\ ProfilesRead(root, 0, <<>>)
  <2>1. ASSUME NEW k \in Places(root, "modules") PROVE ~(k <= 0)
      BY ListFacts DEF IsDocument, IsTree, Places
  <2> QED BY <2>1 DEF ProfileList, ProfilesRead, Nodes
<1>20. LimitRead(root, 0, restarts_config) /\ LimitLeft(root, mode, restarts_config)
  <2>1. ASSUME NEW k \in Places(root, "supervisor") PROVE ~(k <= 0)
      BY ListFacts DEF IsDocument, IsTree, Places
  <2> QED BY <2>1 DEF LimitRead, LimitLeft
<1>6. Applied(root, 0, mode, start)
    BY <1>3, <1>4, <1>5, <1>20 DEF Applied
<1>7. Applied(root, Len(root.kids), mode, end)
    BY <1>6, DocumentApplied
<1> HIDE DEF end
<1> DEFINE N == Len(root.kids) + 1
<1>8. /\ Table(root, N, 0, mode, end.modules) /\ ProfileList(end.profiles)
      /\ end.restarts \in Nat /\ ProfilesRead(root, Len(root.kids), end.profiles)
      /\ LimitRead(root, Len(root.kids), end.restarts) /\ LimitLeft(root, mode, end.restarts)
    BY <1>7 DEF Applied
<1>21. LimitLoaded(root, end.restarts)
  <2>1. \A k \in Places(root, "supervisor") : k <= Len(root.kids)
      BY ListFacts DEF IsDocument, IsTree, Places
  <2> QED BY <1>8, <2>1 DEF LimitRead, LimitLoaded, Children
<1>9. /\ end.modules \in Seq(Nodes(end.modules)) /\ UniqueSlots(end.modules)
      /\ \A i \in DOMAIN end.modules : WorkSlot(end.modules[i])
      /\ ReadIn(root, N, 0, end.modules) /\ CheckedRead(root, N, 0, end.modules)
      /\ mode = "quiet" => Undisturbed(root, end.modules)
      /\ mode = "start" => AllNew(root, end.modules)
    BY <1>8 DEF Table
<1>10. /\ DOMAIN out = DOMAIN end.modules /\ out = [i \in DOMAIN end.modules |-> out[i]]
       /\ \A i \in DOMAIN out : out[i] = Concluded(end.modules[i], init)
    OBVIOUS
<1> HIDE DEF out
<1>11. out \in Seq(Nodes(out))
    BY <1>9, <1>10, MappedList
<1>12. ASSUME NEW i \in DOMAIN out
       PROVE  /\ SlotType(out[i]) /\ out[i].name = end.modules[i].name
              /\ out[i].path = end.modules[i].path /\ out[i].profile = end.modules[i].profile
              /\ out[i].modified = end.modules[i].modified
              /\ ~end.modules[i].checked => out[i].remove_module
              /\ \A g, e : InSlot(end.modules[i], g, e) => LoadedSlot(out[i], g, e)
  <2> DEFINE w == end.modules[i]
  <2>1. WorkSlot(w) /\ out[i] = Concluded(w, init)
      BY <1>9, <1>10
  <2> HIDE DEF w
  <2>2. /\ SlotType(out[i]) /\ out[i].name = w.name /\ out[i].modified = w.modified
        /\ ~w.checked => out[i].remove_module
        /\ out[i].path = w.path /\ out[i].profile = w.profile
      BY <2>1, ConcludedFacts
  <2>3. \A g, e : InSlot(w, g, e) => LoadedSlot(out[i], g, e)
      BY <2>1, ConcludedFacts
  <2> QED BY <2>2, <2>3 DEF w
<1>13. UniqueSlots(out)
    BY <1>9, <1>10, <1>12 DEF UniqueSlots
<1>14. AllLoaded(root, out)
  <2> SUFFICES ASSUME NEW k \in Places(root, "modules"),
                      NEW l \in Places(root.kids[k], "module")
               PROVE  \E i \in DOMAIN out :
                          LoadedSlot(out[i], root.kids[k], ElementAt(root, k, l))
      BY DEF AllLoaded
  <2>1. ReadBy(N, 0, k, l)
    <3>1. k \in 1..Len(root.kids) /\ Len(root.kids) \in Nat
        BY ListFacts DEF Places, IsDocument, IsTree
    <3> QED BY <3>1 DEF ReadBy
  <2>2. PICK i \in DOMAIN end.modules :
            InSlot(end.modules[i], root.kids[k], ElementAt(root, k, l))
      BY <1>9, <2>1 DEF ReadIn
  <2> QED BY <1>10, <1>12, <2>2
<1>15. NoOther(root, out)
  <2> SUFFICES ASSUME NEW i \in DOMAIN out, ~out[i].remove_module
               PROVE  \E e \in ModuleElements(root) : out[i].name = Name(e)
      BY DEF NoOther
  <2>1. end.modules[i].checked
      BY <1>12
  <2>2. PICK k \in Places(root, "modules") : \E l \in Places(root.kids[k], "module") :
            end.modules[i].name = Name(ElementAt(root, k, l))
      BY <1>9, <1>10, <2>1 DEF CheckedRead
  <2>3. PICK l \in Places(root.kids[k], "module") :
            end.modules[i].name = Name(ElementAt(root, k, l))
      BY <2>2
  <2>4. ElementAt(root, k, l) \in ModuleElements(root)
      BY Validated
  <2> QED BY <1>12, <2>3, <2>4
<1>16. ASSUME mode = "quiet" PROVE \A i \in DOMAIN out : ~out[i].modified
    BY <1>9, <1>10, <1>12, <1>16 DEF Undisturbed
<1>17. ProfileNames(end.profiles)
  <2>1. ASSUME NEW j \in DOMAIN end.profiles PROVE end.profiles[j].name # NULL
    <3>1. PICK k \in Places(root, "modules") : end.profiles[j].name = Name(root.kids[k])
        BY <1>8 DEF ProfilesRead
    <3>2. reload_check_modules_element(root.kids[k])
        BY Validated
    <3> QED BY <3>1, <3>2 DEF reload_check_modules_element, Mandatory, Name
  <2> QED BY <1>8, <2>1 DEF ProfileNames, ProfilesRead
<1>18. Profiled(out, end.profiles)
  <2> SUFFICES ASSUME NEW i \in DOMAIN out, out[i].profile # NULL
               PROVE  /\ out[i].name # NULL /\ out[i].path # NULL
                      /\ \E j \in DOMAIN end.profiles : end.profiles[j].name = out[i].profile
      BY DEF Profiled
  <2> DEFINE w == end.modules[i]
  <2>1. /\ WorkSlot(w) /\ w.profile # NULL /\ out[i].name = w.name /\ out[i].path = w.path
        /\ out[i].profile = w.profile /\ i \in DOMAIN end.modules
      BY <1>9, <1>10, <1>12
  <2>2. w.checked
      BY <2>1 DEF WorkSlot
  <2>3. PICK k \in Places(root, "modules") : \E l \in Places(root.kids[k], "module") :
            ReadBy(N, 0, k, l) /\ w.name = Name(ElementAt(root, k, l))
      BY <1>9, <2>1, <2>2 DEF CheckedRead
  <2>4. PICK l \in Places(root.kids[k], "module") :
            ReadBy(N, 0, k, l) /\ w.name = Name(ElementAt(root, k, l))
      BY <2>3
  <2> DEFINE e == ElementAt(root, k, l)
  <2>5. PICK j \in DOMAIN end.modules : InSlot(end.modules[j], root.kids[k], e)
      BY <1>9, <2>4 DEF ReadIn
  <2>6. j = i
      BY <1>9, <2>1, <2>4, <2>5 DEF InSlot, UniqueSlots
  <2>7. w.profile = Name(root.kids[k]) /\ w.path = ValueOf(e, "path", w.path)
      BY <2>5, <2>6 DEF InSlot, Holds
  <2>8. ValueOf(e, "name", NULL) # NULL /\ ValueOf(e, "path", NULL) # NULL
    <3>1. reload_check_module_element(e)
        BY Validated
    <3> QED BY <3>1 DEF reload_check_module_element, Mandatory
  <2>9. w.name # NULL /\ w.path # NULL
      BY <2>4, <2>7, <2>8 DEF Name, ValueOf
  <2>10. k <= Len(root.kids)
      BY ListFacts DEF Places, IsDocument, IsTree
  <2>11. \E q \in DOMAIN end.profiles : end.profiles[q].name = w.profile
      BY <1>8, <2>7, <2>10 DEF ProfilesRead
  <2> QED BY <2>1, <2>9, <2>11
<1>19. ASSUME mode = "start" PROVE AllStarted(root, out)
  <2>1. init = TRUE /\ AllNew(root, end.modules)
      BY <1>9, <1>19, Zenon
  <2> QED BY <1>10, <2>1 DEF AllStarted, AllNew
<1> QED BY <1>1, <1>8, <1>11, <1>12, <1>13, <1>14, <1>15, <1>16, <1>17, <1>18, <1>19,
           <1>21
        DEF TableInv

-----------------------------------------------------------------------------
(* Lists of elements, and what is written from them. *)

LEMMA AnyList ==
    ASSUME NEW S, NEW s \in Seq(S)
    PROVE  s \in Seq(Nodes(s)) /\ Nodes(s) \subseteq S
<1>1. Len(s) \in Nat /\ s = [i \in 1..Len(s) |-> s[i]] /\ \A i \in 1..Len(s) : s[i] \in S
    OBVIOUS
<1>2. s \in Seq(Nodes(s)) /\ DOMAIN s = 1..Len(s)
    BY <1>1, ListMade
<1> QED BY <1>1, <1>2 DEF Nodes

\* The loop of Kept; x is the sequence and the set.
KeptBase(x) == <<>>

KeptStep(x, acc, i) == IF x[1][i] \in x[2] THEN Append(acc, x[1][i]) ELSE acc

\* Its invariant.
KeptInv(x, i, acc) ==
    /\ acc \in Seq(Nodes(acc))
    /\ Nodes(acc) = {x[1][j] : j \in 1..i} \cap x[2]
    /\ IsInjective(x[1]) => IsInjective(acc)

KeptLoop == INSTANCE Recursion WITH Base <- KeptBase, Step <- KeptStep, P <- KeptInv

(***************************************************************************)
(* An element behind a list.                                               *)
(***************************************************************************)
LEMMA ListAppended ==
    ASSUME NEW s, s \in Seq(Nodes(s)), NEW v, NEW out, out = Append(s, v)
    PROVE  /\ out \in Seq(Nodes(out)) /\ Nodes(out) = Nodes(s) \cup {v}
           /\ IsInjective(s) /\ v \notin Nodes(s) => IsInjective(out)
<1>1. Len(s) \in Nat /\ DOMAIN s = 1..Len(s) /\ \A i \in 1..Len(s) : s[i] \in Nodes(s)
    BY ListFacts
<1>2. /\ out \in Seq(Nodes(s) \cup {v}) /\ DOMAIN out = 1..(Len(s) + 1)
      /\ out[Len(s) + 1] = v /\ \A i \in 1..Len(s) : out[i] = s[i]
    BY <1>1
<1>3. out \in Seq(Nodes(out)) /\ Nodes(out) \subseteq Nodes(s) \cup {v}
    BY <1>2, AnyList
<1>4. v \in Nodes(out)
  <2>1. Len(s) + 1 \in DOMAIN out
      BY <1>1, <1>2
  <2> QED BY <1>2, <2>1 DEF Nodes
<1>5. Nodes(s) \subseteq Nodes(out)
  <2>1. ASSUME NEW i \in DOMAIN s PROVE s[i] = out[i] /\ i \in DOMAIN out
      BY <1>1, <1>2
  <2> QED BY <2>1 DEF Nodes
<1>6. ASSUME IsInjective(s), v \notin Nodes(s) PROVE IsInjective(out)
  <2> SUFFICES ASSUME NEW i \in DOMAIN out, NEW j \in DOMAIN out, out[i] = out[j] PROVE i = j
      BY DEF IsInjective
  <2>1. i \in 1..Len(s) /\ j \in 1..Len(s) => i = j
      BY <1>1, <1>2, <1>6 DEF IsInjective
  <2>2. i \in 1..Len(s) => out[i] # v
      BY <1>1, <1>2, <1>6
  <2>3. j \in 1..Len(s) => out[j] # v
      BY <1>1, <1>2, <1>6
  <2> QED BY <1>1, <1>2, <2>1, <2>2, <2>3
<1> QED BY <1>3, <1>4, <1>5, <1>6

(***************************************************************************)
(* What is kept of a list are those of its elements that are in the set,   *)
(* none of them twice.                                                     *)
(***************************************************************************)
LEMMA KeptList ==
    ASSUME NEW seq, seq \in Seq(Nodes(seq)), NEW set
    PROVE  /\ Kept(seq, set) \in Seq(Nodes(Kept(seq, set)))
           /\ Nodes(Kept(seq, set)) = Nodes(seq) \cap set
           /\ IsInjective(seq) => IsInjective(Kept(seq, set))
<1> DEFINE x == <<seq, set>>
           n == Len(seq)
<1>1. /\ n \in Nat /\ x[1] = seq /\ x[2] = set /\ DOMAIN seq = 1..n
      /\ \A i \in 1..n : seq[i] \in Nodes(seq)
    BY ListFacts
<1> HIDE DEF x, n
<1>2. \E f : KeptLoop!IsLoop(f, x, n)
    BY <1>1, KeptLoop!LoopExists
<1>3. PICK f : KeptLoop!IsLoop(f, x, n) /\ Kept(seq, set) = f[n]
  <2>1. \E f : f = [i \in 0..Len(seq) |->
                       IF i = 0 THEN <<>>
                       ELSE IF seq[i] \in set THEN Append(f[i - 1], seq[i]) ELSE f[i - 1]]
      BY <1>1, <1>2 DEF KeptLoop!IsLoop, KeptStep, KeptBase, n
  <2>2. PICK f : /\ f = [i \in 0..Len(seq) |->
                       IF i = 0 THEN <<>>
                       ELSE IF seq[i] \in set THEN Append(f[i - 1], seq[i]) ELSE f[i - 1]]
                 /\ Kept(seq, set) = f[Len(seq)]
      BY <2>1 DEF Kept
  <2> QED BY <1>1, <2>2 DEF KeptLoop!IsLoop, KeptStep, KeptBase, n
<1>4. KeptInv(x, 0, KeptBase(x))
  <2>1. <<>> \in Seq(Nodes(<<>>)) /\ Nodes(<<>>) = {} /\ IsInjective(<<>>)
      BY DEF Nodes, IsInjective
  <2> QED BY <2>1 DEF KeptInv, KeptBase
<1>5. ASSUME NEW acc, NEW i \in 1..n, KeptInv(x, i - 1, acc)
      PROVE  KeptInv(x, i, KeptStep(x, acc, i))
  <2>1. /\ acc \in Seq(Nodes(acc)) /\ Nodes(acc) = {seq[j] : j \in 1..(i - 1)} \cap set
        /\ IsInjective(seq) => IsInjective(acc)
      BY <1>1, <1>5 DEF KeptInv
  <2>2. {seq[j] : j \in 1..i} = {seq[j] : j \in 1..(i - 1)} \cup {seq[i]}
    <3>1. 1..i = (1..(i - 1)) \cup {i}
        BY <1>1
    <3> QED BY <3>1
  <2>3. CASE seq[i] \in set
    <3> DEFINE out == Append(acc, seq[i])
    <3>1. KeptStep(x, acc, i) = out
        BY <1>1, <2>3 DEF KeptStep
    <3>2. out = Append(acc, seq[i])
        OBVIOUS
    <3> HIDE DEF out
    <3>3. /\ out \in Seq(Nodes(out)) /\ Nodes(out) = Nodes(acc) \cup {seq[i]}
          /\ IsInjective(acc) /\ seq[i] \notin Nodes(acc) => IsInjective(out)
        BY <2>1, <3>2, ListAppended
    <3>4. IsInjective(seq) => seq[i] \notin Nodes(acc)
        BY <1>1, <2>1 DEF IsInjective
    <3> QED BY <1>1, <2>1, <2>2, <2>3, <3>1, <3>3, <3>4 DEF KeptInv
  <2>4. CASE seq[i] \notin set
      BY <1>1, <2>1, <2>2, <2>4 DEF KeptInv, KeptStep
  <2> QED BY <2>3, <2>4
<1>6. \A i \in 0..n : KeptInv(x, i, f[i])
    BY <1>1, <1>3, <1>4, <1>5, KeptLoop!LoopInvariant
<1>7. KeptInv(x, n, f[n])
    BY <1>1, <1>6
<1>8. {seq[j] : j \in 1..n} = Nodes(seq)
    BY <1>1 DEF Nodes
<1> QED BY <1>1, <1>3, <1>7, <1>8 DEF KeptInv

(***************************************************************************)
(* White space between the children leaves a list of them (xmlDocFormat-   *)
(* Dump).                                                                  *)
(***************************************************************************)
LEMMA IndentedList ==
    ASSUME NEW kids, kids \in Seq(Nodes(kids))
    PROVE  /\ Indented(kids) \in Seq(Nodes(Indented(kids)))
           /\ Nodes(Indented(kids)) \subseteq Nodes(kids) \cup {Blank}
<1> DEFINE n == 2 * Len(kids) + 1
           out == [i \in 1..n |-> IF i % 2 = 0 THEN kids[i \div 2] ELSE Blank]
<1>1. /\ Len(kids) \in Nat /\ DOMAIN kids = 1..Len(kids)
      /\ \A i \in 1..Len(kids) : kids[i] \in Nodes(kids)
    BY ListFacts
<1>2. CASE kids = <<>>
    BY <1>2 DEF Indented, Nodes
<1>3. CASE kids # <<>>
  <2>1. n \in Nat
      BY <1>1
  <2>2. ASSUME NEW i \in 1..n PROVE out[i] \in Nodes(kids) \cup {Blank}
    <3>1. CASE i % 2 = 0
      <4>1. i \div 2 \in 1..Len(kids)
          BY <1>1, <3>1
      <4> QED BY <1>1, <3>1, <4>1
    <3>2. CASE i % 2 # 0
        BY <3>2
    <3> QED BY <3>1, <3>2
  <2>3. out = [i \in 1..n |-> out[i]]
      OBVIOUS
  <2>4. Indented(kids) = out
      BY <1>3 DEF Indented
  <2> HIDE DEF out, n
  <2>5. out \in Seq(Nodes(kids) \cup {Blank})
      BY <2>1, <2>2, <2>3
  <2> QED BY <2>4, <2>5, AnyList
<1> QED BY <1>2, <1>3

\* The children of e with this tag are those of the list, at even places.
EvenPlaces(kids, e, tag) ==
    /\ \A i \in DOMAIN kids :
          kids[i].tag = tag => 2 * i \in Places(e, tag) /\ e.kids[2 * i] = kids[i]
    /\ \A j \in Places(e, tag) :
          \E i \in DOMAIN kids : j = 2 * i /\ kids[i].tag = tag /\ e.kids[j] = kids[i]

(***************************************************************************)
(* Where the elements are when there is white space between them.          *)
(***************************************************************************)
LEMMA IndentedPlaces ==
    ASSUME NEW kids, kids \in Seq(Nodes(kids)), NEW e, e.kids = Indented(kids),
           NEW tag, tag # "text"
    PROVE  EvenPlaces(kids, e, tag)
<1>1. Len(kids) \in Nat /\ DOMAIN kids = 1..Len(kids)
    BY ListFacts
<1>2. CASE kids = <<>>
  <2>1. e.kids = <<>>
      BY <1>2 DEF Indented
  <2>2. DOMAIN kids = {} /\ DOMAIN e.kids = {}
      BY <1>2, <2>1
  <2>3. Places(e, tag) = {}
      BY <2>2 DEF Places
  <2> QED BY <2>2, <2>3 DEF EvenPlaces
<1>3. CASE kids # <<>>
  <2> DEFINE out == e.kids
  <2>1. out = [i \in 1..(2 * Len(kids) + 1) |-> IF i % 2 = 0 THEN kids[i \div 2] ELSE Blank]
      BY <1>3 DEF Indented
  <2>2. ASSUME NEW i \in DOMAIN kids PROVE 2 * i \in DOMAIN out /\ out[2 * i] = kids[i]
    <3>1. 2 * i \in 1..(2 * Len(kids) + 1) /\ (2 * i) % 2 = 0 /\ (2 * i) \div 2 = i
        BY <1>1
    <3> QED BY <2>1, <3>1
  <2>3. ASSUME NEW j \in DOMAIN out, out[j].tag # "text"
        PROVE  \E i \in DOMAIN kids : j = 2 * i /\ out[j] = kids[i]
    <3>1. j \in 1..(2 * Len(kids) + 1)
        BY <2>1
    <3>2. Blank.tag = "text"
        BY DEF Blank, Leaf
    <3>3. j % 2 = 0
        BY <2>1, <2>3, <3>1, <3>2
    <3>4. j \div 2 \in 1..Len(kids) /\ j = 2 * (j \div 2)
        BY <1>1, <3>1, <3>3
    <3>5. out[j] = kids[j \div 2]
        BY <2>1, <3>1, <3>3
    <3> QED BY <1>1, <3>4, <3>5
  <2> HIDE DEF out
  <2>4. Places(e, tag) = {i \in DOMAIN out : out[i].tag = tag}
      BY DEF Places, out
  <2>5. ASSUME NEW j \in Places(e, tag)
        PROVE  \E i \in DOMAIN kids : j = 2 * i /\ kids[i].tag = tag /\ out[j] = kids[i]
    <3>1. j \in DOMAIN out /\ out[j].tag = tag
        BY <2>4
    <3>2. PICK i \in DOMAIN kids : j = 2 * i /\ out[j] = kids[i]
        BY <2>3, <3>1
    <3> QED BY <3>1, <3>2
  <2>6. ASSUME NEW i \in DOMAIN kids, kids[i].tag = tag
        PROVE  2 * i \in Places(e, tag) /\ out[2 * i] = kids[i]
    <3>1. 2 * i \in DOMAIN out /\ out[2 * i] = kids[i]
        BY <2>2
    <3> QED BY <2>4, <2>6, <3>1, Zenon
  <2> QED BY <2>5, <2>6 DEF EvenPlaces, out
<1> QED BY <1>2, <1>3

\* No two elements have the same tag.
DistinctTags(kids) == \A i, j \in DOMAIN kids : kids[i].tag = kids[j].tag => i = j

\* There is at most one with this tag.
OnceIn(kids, tag) == \A i, j \in DOMAIN kids : kids[i].tag = tag /\ kids[j].tag = tag => i = j

(***************************************************************************)
(* What is written is what is read.                                        *)
(***************************************************************************)
LEMMA Written ==
    ASSUME NEW kids, kids \in Seq(Nodes(kids)), NEW e, e.kids = Indented(kids),
           NEW tag, tag # "text", OnceIn(kids, tag)
    PROVE  /\ Single(e, tag)
           /\ \A t \in Nodes(kids) : t.tag = tag =>
                 /\ Has(e, tag) /\ Children(e, tag) = {t}
                 /\ \A old : ValueOf(e, tag, old) = t.val
           /\ (\A t \in Nodes(kids) : t.tag # tag) =>
                 /\ ~Has(e, tag) /\ Children(e, tag) = {}
                 /\ \A old : ValueOf(e, tag, old) = old
<1>1. EvenPlaces(kids, e, tag)
    BY IndentedPlaces
<1>2. Single(e, tag)
    BY <1>1 DEF EvenPlaces, Single, OnceIn
<1>3. ASSUME NEW t \in Nodes(kids), t.tag = tag
      PROVE  /\ Has(e, tag) /\ Children(e, tag) = {t}
             /\ \A old : ValueOf(e, tag, old) = t.val
  <2>1. PICK i \in DOMAIN kids : kids[i] = t
      BY DEF Nodes
  <2>2. 2 * i \in Places(e, tag) /\ e.kids[2 * i] = t
      BY <1>1, <1>3, <2>1 DEF EvenPlaces
  <2>3. Has(e, tag)
      BY <2>2 DEF Has
  <2>4. Children(e, tag) = {t}
      BY <1>2, <2>2 DEF Children, Single
  <2>5. Child(e, tag) = t
    <3>1. e.kids \in Seq(Nodes(e.kids))
        BY IndentedList
    <3> QED BY <2>3, <2>4, <3>1, ChildFacts
  <2> QED BY <2>3, <2>4, <2>5 DEF ValueOf
<1>4. ASSUME \A t \in Nodes(kids) : t.tag # tag
      PROVE  /\ ~Has(e, tag) /\ Children(e, tag) = {}
             /\ \A old : ValueOf(e, tag, old) = old
  <2>1. Places(e, tag) = {}
      BY <1>1, <1>4 DEF EvenPlaces, Nodes
  <2> QED BY <2>1 DEF Has, Children, ValueOf
<1> QED BY <1>2, <1>3, <1>4

(***************************************************************************)
(* Two lists with different tags behind each other.                        *)
(***************************************************************************)
LEMMA TagsConcatenated ==
    ASSUME NEW s, s \in Seq(Nodes(s)), NEW t, t \in Seq(Nodes(t)),
           DistinctTags(s), DistinctTags(t),
           \A u \in Nodes(s), v \in Nodes(t) : u.tag # v.tag,
           NEW out, out = s \o t
    PROVE  /\ out \in Seq(Nodes(out)) /\ Nodes(out) = Nodes(s) \cup Nodes(t)
           /\ DistinctTags(out)
<1>1. /\ Len(s) \in Nat /\ DOMAIN s = 1..Len(s) /\ \A i \in 1..Len(s) : s[i] \in Nodes(s)
      /\ Len(t) \in Nat /\ DOMAIN t = 1..Len(t) /\ \A i \in 1..Len(t) : t[i] \in Nodes(t)
    BY ListFacts
<1>2. out \in Seq(Nodes(out)) /\ Nodes(out) = Nodes(s) \cup Nodes(t)
    BY Concatenation
<1>3. /\ DOMAIN out = 1..(Len(s) + Len(t)) /\ \A i \in 1..Len(s) : out[i] = s[i]
      /\ \A i \in 1..(Len(s) + Len(t)) : ~(i <= Len(s)) => out[i] = t[i - Len(s)]
  <2> DEFINE S == Nodes(s) \cup Nodes(t)
  <2>1. s \in Seq(S) /\ t \in Seq(S)
      OBVIOUS
  <2> HIDE DEF S
  <2> QED BY <1>1, <2>1
<1>4. ASSUME NEW i \in DOMAIN out, ~(i <= Len(s))
      PROVE  i - Len(s) \in DOMAIN t /\ out[i] = t[i - Len(s)] /\ out[i] \in Nodes(t)
    BY <1>1, <1>3, <1>4
<1>5. ASSUME NEW i \in DOMAIN out, i <= Len(s)
      PROVE  i \in DOMAIN s /\ out[i] = s[i] /\ out[i] \in Nodes(s)
    BY <1>1, <1>3, <1>5
<1>6. ASSUME NEW i \in DOMAIN out, NEW j \in DOMAIN out, out[i].tag = out[j].tag PROVE i = j
  <2>1. i \in Nat /\ j \in Nat
      BY <1>1, <1>3
  <2>2. CASE i <= Len(s) /\ j <= Len(s)
      BY <1>5, <1>6, <2>2 DEF DistinctTags
  <2>3. CASE ~(i <= Len(s)) /\ ~(j <= Len(s))
    <3>1. i - Len(s) = j - Len(s)
        BY <1>4, <1>6, <2>3 DEF DistinctTags
    <3> QED BY <1>1, <2>1, <3>1
  <2>4. CASE i <= Len(s) /\ ~(j <= Len(s))
      BY <1>4, <1>5, <1>6, <2>4
  <2>5. CASE ~(i <= Len(s)) /\ j <= Len(s)
      BY <1>4, <1>5, <1>6, <2>5
  <2> QED BY <2>2, <2>3, <2>4, <2>5
<1> QED BY <1>2, <1>6 DEF DistinctTags

-----------------------------------------------------------------------------
(* What the backup has of a module. *)

LEMMA LeafTree ==
    ASSUME NEW tag, NEW val
    PROVE  /\ Leaf(tag, val).kids = <<>> /\ Leaf(tag, val).tag = tag
           /\ Leaf(tag, val).val = val /\ IsTree(Leaf(tag, val))
           /\ tag # "module" => IsModule(Leaf(tag, val)) /\ IsGroup(Leaf(tag, val))
<1> DEFINE e == Leaf(tag, val)
<1>1. e.kids = <<>> /\ e.tag = tag /\ e.val = val
    BY DEF Leaf
<1>2. <<>> \in Seq(Nodes(<<>>)) /\ Nodes(<<>>) = {}
    BY DEF Nodes
<1> HIDE DEF e
<1>3. IsTree(e)
    BY <1>1, <1>2 DEF IsTree
<1>4. tag # "module" => IsModule(e) /\ IsGroup(e)
    BY <1>1, <1>2, <1>3 DEF IsModule, IsGroup
<1> QED BY <1>1, <1>3, <1>4 DEF e

\* An element that has a child has children.
LEMMA HasKids ==
    ASSUME NEW e, NEW tag, Has(e, tag) PROVE e.kids # <<>>
<1>1. e.kids = <<>> => DOMAIN e.kids = {}
    OBVIOUS
<1> QED BY <1>1 DEF Has, Places

(***************************************************************************)
(* Where no tag is there twice, none is.                                   *)
(***************************************************************************)
LEMMA OncePresent ==
    ASSUME NEW kids, DistinctTags(kids), NEW tag PROVE OnceIn(kids, tag)
BY DEF DistinctTags, OnceIn

(***************************************************************************)
(* The values that are given are written, once each.                       *)
(***************************************************************************)
LEMMA GivenList ==
    ASSUME NEW tags, tags \in Seq(Nodes(tags)), IsInjective(tags), NEW values,
           Nodes(tags) \subseteq DOMAIN values, NEW out, out = GivenLeaves(tags, values)
    PROVE  /\ out \in Seq(Nodes(out)) /\ DistinctTags(out)
           /\ \A t \in Nodes(out) : /\ IsTree(t) /\ t.tag \in Nodes(tags)
                                    /\ t.val = values[t.tag] /\ t.val # NULL /\ t.kids = <<>>
           /\ \A a \in Nodes(tags) :
                 values[a] # NULL => \E t \in Nodes(out) : t.tag = a /\ t.val = values[a]
<1> DEFINE given == Kept(tags, {t \in DOMAIN values : values[t] # NULL})
<1>1. /\ given \in Seq(Nodes(given)) /\ IsInjective(given)
      /\ Nodes(given) = Nodes(tags) \cap {t \in DOMAIN values : values[t] # NULL}
    BY KeptList
<1>2. out = [i \in DOMAIN given |-> Leaf(given[i], values[given[i]])]
    BY DEF GivenLeaves
<1> HIDE DEF given
<1>3. out \in Seq(Nodes(out))
    BY <1>1, <1>2, MappedList
<1>4. /\ DOMAIN out = DOMAIN given
      /\ \A i \in DOMAIN out : /\ IsTree(out[i]) /\ out[i].tag = given[i]
                               /\ out[i].val = values[given[i]] /\ out[i].kids = <<>>
    BY <1>2, LeafTree
<1>5. \A i \in DOMAIN given : given[i] \in Nodes(tags) /\ values[given[i]] # NULL
    BY <1>1 DEF Nodes
<1>6. \A t \in Nodes(out) : /\ IsTree(t) /\ t.tag \in Nodes(tags)
                            /\ t.val = values[t.tag] /\ t.val # NULL /\ t.kids = <<>>
    BY <1>4, <1>5 DEF Nodes
<1>7. ASSUME NEW a \in Nodes(tags), values[a] # NULL
      PROVE  \E t \in Nodes(out) : t.tag = a /\ t.val = values[a]
  <2>1. a \in Nodes(given)
      BY <1>1, <1>7
  <2>2. PICK i \in DOMAIN given : given[i] = a
      BY <2>1 DEF Nodes
  <2>3. out[i] \in Nodes(out) /\ out[i].tag = a /\ out[i].val = values[a]
      BY <1>4, <2>2 DEF Nodes
  <2> QED BY <2>3
<1>8. DistinctTags(out)
    BY <1>1, <1>4 DEF DistinctTags, IsInjective
<1> QED BY <1>3, <1>6, <1>7, <1>8

\* The list has an element with the value v, unless that is NULL.
GivenIn(kids, tag, v) ==
    /\ OnceIn(kids, tag)
    /\ \A t \in Nodes(kids) : t.tag = tag => t.val = v /\ v # NULL
    /\ v # NULL => \E t \in Nodes(kids) : t.tag = tag

\* The element has the value v, or nothing if that is NULL.
ReadFrom(e, tag, v) ==
    /\ Single(e, tag) /\ ValueOf(e, tag, NULL) = v /\ (Has(e, tag) <=> v # NULL)
    /\ \A k \in Children(e, tag) : k.val = v /\ v # NULL

(***************************************************************************)
(* A value that may be missing is read as it was written.                  *)
(***************************************************************************)
LEMMA GivenRead ==
    ASSUME NEW kids, kids \in Seq(Nodes(kids)), NEW e, e.kids = Indented(kids),
           NEW tag, tag # "text", NEW v, GivenIn(kids, tag, v)
    PROVE  ReadFrom(e, tag, v)
<1> USE DEF GivenIn
<1>1. CASE \E t \in Nodes(kids) : t.tag = tag
  <2>1. PICK t \in Nodes(kids) : t.tag = tag
      BY <1>1
  <2>2. /\ Single(e, tag) /\ Has(e, tag) /\ Children(e, tag) = {t}
        /\ ValueOf(e, tag, NULL) = t.val
      BY <2>1, Written
  <2> QED BY <2>1, <2>2 DEF ReadFrom
<1>2. CASE \A t \in Nodes(kids) : t.tag # tag
  <2>1. /\ Single(e, tag) /\ ~Has(e, tag) /\ Children(e, tag) = {}
        /\ ValueOf(e, tag, NULL) = NULL
      BY <1>2, Written
  <2> QED BY <1>2, <2>1 DEF ReadFrom
<1> QED BY <1>1, <1>2

(***************************************************************************)
(* The element of an interface in the backup.                              *)
(***************************************************************************)
LEMMA SavedInterfaceFacts ==
    ASSUME NEW ifc, IfcType(ifc), NEW e, e = SavedInterface(ifc)
    PROVE  /\ IsTree(e) /\ e.tag = "interface" /\ reload_check_interface_element(e)
           /\ Attributes(e) = ifc /\ (ifc # NoIfc => e.kids # <<>>)
<1> DEFINE tags == <<"note", "params", "direction", "type">>
           kids == GivenLeaves(tags, ifc)
<1>1. e.kids = Indented(kids) /\ e.tag = "interface"
    BY DEF SavedInterface, Element
<1>2. /\ tags \in Seq(Nodes(tags)) /\ Nodes(tags) = IfcAttributes /\ IsInjective(tags)
  <2>1. tags \in Seq(Nodes(tags))
      BY DEF Nodes
  <2>2. Nodes(tags) = IfcAttributes
    <3>1. DOMAIN tags = 1..4
        OBVIOUS
    <3>2. 1..4 = {1, 2, 3, 4}
        OBVIOUS
    <3> QED BY <3>1, <3>2 DEF Nodes, IfcAttributes
  <2>3. IsInjective(tags)
      BY DEF IsInjective
  <2> QED BY <2>1, <2>2, <2>3
<1>3. DOMAIN ifc = IfcAttributes /\ ifc = [a \in IfcAttributes |-> ifc[a]]
    BY DEF IfcType
<1> HIDE DEF tags
<1>4. kids = GivenLeaves(tags, ifc)
    OBVIOUS
<1> HIDE DEF kids
<1>5. /\ kids \in Seq(Nodes(kids)) /\ DistinctTags(kids)
      /\ \A t \in Nodes(kids) : /\ IsTree(t) /\ t.tag \in IfcAttributes
                                /\ t.val = ifc[t.tag] /\ t.val # NULL
      /\ \A a \in IfcAttributes :
            ifc[a] # NULL => \E t \in Nodes(kids) : t.tag = a /\ t.val = ifc[a]
    BY <1>2, <1>3, <1>4, GivenList
<1>6. IsTree(e) /\ Nodes(e.kids) \subseteq Nodes(kids) \cup {Blank}
    BY <1>1, <1>5, IndentedList DEF IsTree
<1>7. ASSUME NEW a \in IfcAttributes PROVE ReadFrom(e, a, ifc[a])
  <2>1. a # "text"
      BY DEF IfcAttributes
  <2>2. GivenIn(kids, a, ifc[a])
      BY <1>5, OncePresent DEF GivenIn
  <2> QED BY <1>1, <1>5, <2>1, <2>2, GivenRead
<1>8. Attributes(e) = ifc
    BY <1>3, <1>7 DEF Attributes, ReadFrom
<1>9. ifc # NoIfc => e.kids # <<>>
  <2> SUFFICES ASSUME ifc # NoIfc PROVE e.kids # <<>>
      OBVIOUS
  <2>1. PICK a \in IfcAttributes : ifc[a] # NULL
      BY <1>3 DEF NoIfc
  <2> QED BY <1>7, <2>1, HasKids DEF ReadFrom
<1>10. reload_check_interface_element(e)
  <2>1. Blank.tag = "text"
      BY LeafTree DEF Blank
  <2>2. \A k \in Range(e.kids) : k.tag \in IfcAttributes \cup {"text", "comment"}
      BY <1>5, <1>6, <2>1 DEF Range, Nodes
  <2>3. Structure(e, IfcAttributes, IfcAttributes)
      BY <1>7, <2>2 DEF Structure, ReadFrom
  <2>4. "note" \in IfcAttributes /\ "type" \in IfcAttributes /\ "direction" \in IfcAttributes
      BY DEF IfcAttributes
  <2>5. Has(e, "note") => Mandatory(e, {"note"})
      BY <1>7, <2>4 DEF Mandatory, ReadFrom
  <2>6. ASSUME NEW a \in {"type", "direction"}, NEW k \in Children(e, a)
        PROVE  k.val = ifc[a] /\ ifc[a] # NULL
      BY <1>7, <2>4 DEF ReadFrom
  <2>7. OneOf(e, "type", IfcTypes) /\ OneOf(e, "direction", IfcDirections)
      BY <2>6 DEF OneOf, IfcType
  <2> QED BY <2>3, <2>5, <2>7 DEF reload_check_interface_element
<1> QED BY <1>1, <1>6, <1>8, <1>9, <1>10

\* The elements of the interfaces of a slot.
SavedInterfaces(s) == [i \in 1..s.ifces_cnt |-> SavedInterface(s.ifces[i])]

(***************************************************************************)
(* The elements of the interfaces of a module in the backup.               *)
(***************************************************************************)
LEMMA SavedInterfacesFacts ==
    ASSUME NEW s, SlotType(s), NEW ifces, ifces = SavedInterfaces(s)
    PROVE  /\ ifces \in Seq(Nodes(ifces)) /\ Len(ifces) = s.ifces_cnt
           /\ DOMAIN ifces = 1..s.ifces_cnt /\ s.ifces_cnt \in Nat
           /\ \A i \in 1..s.ifces_cnt : Attributes(ifces[i]) = s.ifces[i]
           /\ \A t \in Nodes(ifces) : IsTree(t) /\ t.tag = "interface"
           /\ \A t \in Nodes(ifces) : reload_check_interface_element(t)
           /\ (\A i \in 1..s.ifces_cnt : s.ifces[i] # NoIfc) =>
                 \A t \in Nodes(ifces) : t.kids # <<>>
<1> DEFINE n == s.ifces_cnt
<1>1. n \in Nat /\ \A i \in 1..n : IfcType(s.ifces[i])
  <2>1. IfcArray(s.ifces, n)
      BY DEF SlotType
  <2>2. Len(s.ifces) \in Nat
      BY <2>1, ListFacts DEF IfcArray
  <2> QED BY <2>1, <2>2 DEF IfcArray
<1>2. DOMAIN ifces = 1..n /\ ifces = [i \in 1..n |-> ifces[i]]
      /\ \A i \in 1..n : ifces[i] = SavedInterface(s.ifces[i])
    BY DEF SavedInterfaces
<1> HIDE DEF n
<1>3. ifces \in Seq(Nodes(ifces)) /\ Len(ifces) = n
    BY <1>1, <1>2, ListMade
<1>4. ASSUME NEW i \in 1..n
      PROVE  /\ IsTree(ifces[i]) /\ ifces[i].tag = "interface"
             /\ reload_check_interface_element(ifces[i])
             /\ Attributes(ifces[i]) = s.ifces[i]
             /\ s.ifces[i] # NoIfc => ifces[i].kids # <<>>
    BY <1>1, <1>2, SavedInterfaceFacts
<1>5. \A t \in Nodes(ifces) : \E i \in 1..n : t = ifces[i]
    BY <1>2 DEF Nodes
<1>6. /\ \A t \in Nodes(ifces) : IsTree(t) /\ t.tag = "interface"
      /\ \A t \in Nodes(ifces) : reload_check_interface_element(t)
    BY <1>4, <1>5
<1>7. (\A i \in 1..n : s.ifces[i] # NoIfc) => \A t \in Nodes(ifces) : t.kids # <<>>
    BY <1>4, <1>5
<1>8. \A i \in 1..n : Attributes(ifces[i]) = s.ifces[i]
    BY <1>4
<1> QED BY <1>1, <1>2, <1>3, <1>6, <1>7, <1>8 DEF n

(***************************************************************************)
(* Indented interfaces are at the even places, so that the count up to the *)
(* i-th of them is i.                                                      *)
(***************************************************************************)
LEMMA IndentedInterfaces ==
    ASSUME NEW ifces, ifces \in Seq(Nodes(ifces)), \A t \in Nodes(ifces) : t.tag = "interface",
           NEW nodes, nodes = Indented(ifces)
    PROVE  /\ nodes \in Seq(Nodes(nodes))
           /\ InterfacesUpTo(nodes, Len(nodes)) = Len(ifces)
           /\ \A i \in 1..Len(ifces) : /\ InterfacesUpTo(nodes, 2 * i) = i
                                       /\ 2 * i \in 1..Len(nodes) /\ nodes[2 * i] = ifces[i]
<1> DEFINE n == Len(ifces)
           Up(i) == InterfacesUpTo(nodes, i)
<1>1. /\ n \in Nat /\ DOMAIN ifces = 1..n /\ (ifces = <<>> <=> n = 0)
      /\ \A i \in 1..n : ifces[i].tag = "interface"
    BY ListFacts
<1>2. /\ Up(0) = 0 /\ \A i \in Nat : Up(i) \in Nat
      /\ \A i \in Nat \ {0} :
            Up(i) = Up(i - 1) + (IF nodes[i].tag = "interface" THEN 1 ELSE 0)
    BY InterfacesCounted
<1>3. nodes \in Seq(Nodes(nodes))
    BY IndentedList
<1>4. CASE ifces = <<>>
  <2>1. nodes = <<>>
      BY <1>4 DEF Indented
  <2>2. Len(nodes) = 0 /\ n = 0 /\ 1..n = {}
      BY <1>1, <1>4, <2>1
  <2> QED BY <1>2, <1>3, <2>2
<1>5. CASE ifces # <<>>
  <2> DEFINE m == 2 * n + 1
  <2>1. nodes = [i \in 1..m |-> IF i % 2 = 0 THEN ifces[i \div 2] ELSE Blank]
      BY <1>5 DEF Indented
  <2>2. m \in Nat /\ Len(nodes) = m /\ DOMAIN nodes = 1..m
    <3>1. m \in Nat
        BY <1>1
    <3>2. nodes = [i \in 1..m |-> nodes[i]]
        BY <2>1
    <3> HIDE DEF m
    <3> QED BY <3>1, <3>2, ListMade
  <2>3. ASSUME NEW i \in 1..n
        PROVE  /\ 2 * i \in 1..m /\ nodes[2 * i] = ifces[i]
               /\ 2 * i - 1 \in 1..m /\ nodes[2 * i - 1] = Blank
    <3>1. /\ 2 * i \in 1..m /\ (2 * i) % 2 = 0 /\ (2 * i) \div 2 = i
          /\ 2 * i - 1 \in 1..m /\ (2 * i - 1) % 2 # 0
        BY <1>1
    <3> QED BY <2>1, <3>1
  <2>4. nodes[m] = Blank
    <3>1. m \in 1..m /\ m % 2 # 0
        BY <1>1
    <3> QED BY <2>1, <3>1
  <2>5. Blank.tag # "interface"
      BY LeafTree DEF Blank
  <2> HIDE DEF Up
  <2> DEFINE S == {i \in Nat : i <= n => Up(2 * i) = i}
  <2>6. 0 \in S
      BY <1>2
  <2>7. ASSUME NEW i \in S PROVE i + 1 \in S
    <3> SUFFICES ASSUME i + 1 <= n PROVE Up(2 * (i + 1)) = i + 1
        OBVIOUS
    <3>1. i \in Nat /\ i + 1 \in 1..n /\ Up(2 * i) = i
        BY <1>1
    <3>2. /\ nodes[2 * (i + 1)] = ifces[i + 1] /\ nodes[2 * (i + 1) - 1] = Blank
          /\ ifces[i + 1].tag = "interface"
        BY <1>1, <2>3, <3>1
    <3>3. /\ 2 * (i + 1) \in Nat \ {0} /\ 2 * (i + 1) - 1 \in Nat \ {0}
          /\ 2 * (i + 1) - 1 - 1 = 2 * i
        BY <3>1
    <3>4. Up(2 * (i + 1) - 1) = Up(2 * i)
      <4>1. Up(2 * (i + 1) - 1) = Up(2 * (i + 1) - 1 - 1) + 0
          BY <1>2, <2>5, <3>2, <3>3
      <4> QED BY <3>1, <3>3, <4>1
    <3>5. Up(2 * (i + 1)) = Up(2 * (i + 1) - 1) + 1
        BY <1>2, <3>2, <3>3
    <3> QED BY <3>1, <3>4, <3>5
  <2>8. S = Nat
    <3>1. S \in SUBSET Nat
        OBVIOUS
    <3> HIDE DEF S
    <3> QED BY <2>6, <2>7, <3>1, AnyLoop!SetInduction
  <2>9. \A i \in Nat : i <= n => Up(2 * i) = i
      BY <2>8
  <2>10. Up(m) = n
    <3>1. m \in Nat \ {0} /\ m - 1 = 2 * n /\ Up(2 * n) = n
        BY <1>1, <2>9
    <3> HIDE DEF m
    <3>2. Up(m) = Up(m - 1) + 0
        BY <1>2, <2>4, <2>5, <3>1
    <3> QED BY <1>1, <3>1, <3>2
  <2>11. \A i \in 1..n : Up(2 * i) = i
      BY <1>1, <2>9
  <2> QED BY <1>3, <2>2, <2>3, <2>10, <2>11 DEF Up
<1> QED BY <1>4, <1>5

(***************************************************************************)
(* A slot that is made from the elements has the interfaces they are of.   *)
(***************************************************************************)
LEMMA InterfacesRestored ==
    ASSUME NEW s, SlotType(s), NEW t, ExactInterfaces(Indented(SavedInterfaces(s)), t)
    PROVE  t.ifces_cnt = s.ifces_cnt /\ \A i \in 1..s.ifces_cnt : t.ifces[i] = s.ifces[i]
<1> DEFINE ifces == SavedInterfaces(s)
           nodes == Indented(ifces)
           n == s.ifces_cnt
<1>1. /\ ifces \in Seq(Nodes(ifces)) /\ Len(ifces) = n /\ n \in Nat /\ DOMAIN ifces = 1..n
      /\ \A i \in 1..n : Attributes(ifces[i]) = s.ifces[i]
      /\ \A u \in Nodes(ifces) : u.tag = "interface"
    BY SavedInterfacesFacts
<1>2. Inserted(nodes, Len(nodes), t.ifces, t.ifces_cnt)
    BY DEF ExactInterfaces
<1> HIDE DEF ifces
<1>3. nodes = Indented(ifces)
    OBVIOUS
<1> HIDE DEF nodes, n
<1>4. /\ InterfacesUpTo(nodes, Len(nodes)) = n
      /\ \A i \in 1..n : /\ InterfacesUpTo(nodes, 2 * i) = i
                         /\ 2 * i \in 1..Len(nodes) /\ nodes[2 * i] = ifces[i]
    BY <1>1, <1>3, IndentedInterfaces
<1>5. ASSUME NEW i \in 1..n PROVE t.ifces[i] = s.ifces[i]
  <2>1. nodes[2 * i].tag = "interface"
      BY <1>1, <1>4 DEF Nodes
  <2> QED BY <1>1, <1>2, <1>4, <2>1 DEF Inserted
<1> QED BY <1>2, <1>4, <1>5 DEF Inserted, n

\* The interfaces of the slot can be written.
Writable(s) == \A i \in 1..s.ifces_cnt : s.ifces[i] # NoIfc

(***************************************************************************)
(* The element of the interfaces.                                          *)
(***************************************************************************)
LEMMA SavedTrapFacts ==
    ASSUME NEW s, SlotType(s), NEW trap,
           trap = Element("trapinterfaces", Indented(SavedInterfaces(s)))
    PROVE  /\ trap.tag = "trapinterfaces" /\ trap.kids = Indented(SavedInterfaces(s))
           /\ IsTree(trap) /\ \A k \in Nodes(trap.kids) : IsTree(k)
           /\ Writable(s) => check_trapinterfaces(trap)
<1> DEFINE ifces == SavedInterfaces(s)
<1>1. /\ ifces \in Seq(Nodes(ifces))
      /\ \A t \in Nodes(ifces) : IsTree(t) /\ t.tag = "interface"
      /\ \A t \in Nodes(ifces) : reload_check_interface_element(t)
      /\ Writable(s) => \A t \in Nodes(ifces) : t.kids # <<>>
    BY SavedInterfacesFacts DEF Writable
<1>2. trap.tag = "trapinterfaces" /\ trap.kids = Indented(ifces)
    BY DEF Element
<1> HIDE DEF ifces
<1>3. trap.kids \in Seq(Nodes(trap.kids)) /\ Nodes(trap.kids) \subseteq Nodes(ifces) \cup {Blank}
    BY <1>1, <1>2, IndentedList
<1>4. Blank.tag = "text" /\ IsTree(Blank)
    BY LeafTree DEF Blank
<1>6. ASSUME Writable(s) PROVE check_trapinterfaces(trap)
  <2>1. Structure(trap, {"interface"}, {})
      BY <1>1, <1>3, <1>4 DEF Structure, Range, Nodes
  <2>2. \A k \in Children(trap, "interface") : k \in Nodes(trap.kids) /\ k.tag = "interface"
      BY DEF Children, Places, Nodes
  <2>3. \A k \in Children(trap, "interface") : k \in Nodes(ifces)
      BY <1>3, <1>4, <2>2
  <2> QED BY <1>1, <1>6, <2>1, <2>3 DEF check_trapinterfaces
<1> QED BY <1>1, <1>2, <1>3, <1>4, <1>6 DEF IsTree, ifces

\* The children of the element of a module.
SavedChildren(s) ==
    GivenLeaves(<<"name", "path", "params">>, s) \o <<Switch(s.enabled)>>
        \o IF s.ifces_cnt = 0 THEN <<>>
           ELSE <<Element("trapinterfaces", Indented(SavedInterfaces(s)))>>

\* The text of a switch.
SwitchValue(on) == IF on THEN "true" ELSE "false"

(***************************************************************************)
(* They have what the slot has, each once.                                 *)
(***************************************************************************)
LEMMA SavedChildrenFacts ==
    ASSUME NEW s, SlotType(s), NEW kids, kids = SavedChildren(s)
    PROVE  /\ kids \in Seq(Nodes(kids)) /\ DistinctTags(kids)
           /\ \A t \in Nodes(kids) :
                 /\ IsTree(t)
                 /\ t.tag \in {"name", "path", "params", "enabled", "trapinterfaces"}
                 /\ t.tag = "trapinterfaces" =>
                       t = Element("trapinterfaces", Indented(SavedInterfaces(s)))
                 /\ t.tag # "trapinterfaces" => t.kids = <<>>
           /\ s.ifces_cnt # 0 =>
                 Element("trapinterfaces", Indented(SavedInterfaces(s))) \in Nodes(kids)
           /\ s.ifces_cnt = 0 => \A t \in Nodes(kids) : t.tag # "trapinterfaces"
           /\ \A a \in {"name", "path", "params"} : GivenIn(kids, a, s[a])
           /\ GivenIn(kids, "enabled", SwitchValue(s.enabled))
<1> DEFINE tags == <<"name", "path", "params">>
           given == GivenLeaves(tags, s)
           sw == Switch(s.enabled)
           trap == Element("trapinterfaces", Indented(SavedInterfaces(s)))
           last == IF s.ifces_cnt = 0 THEN <<>> ELSE <<trap>>
           one == <<sw>>
           front == given \o one
<1>1. tags \in Seq(Nodes(tags)) /\ Nodes(tags) = {"name", "path", "params"} /\ IsInjective(tags)
  <2>1. DOMAIN tags = {1, 2, 3}
      OBVIOUS
  <2>2. Nodes(tags) = {"name", "path", "params"}
      BY <2>1 DEF Nodes
  <2>3. IsInjective(tags)
      BY DEF IsInjective
  <2> QED BY <2>2, <2>3
<1>2. {"name", "path", "params"} \subseteq DOMAIN s
    BY DEF SlotType, SlotFields
<1>3. kids = front \o last
    BY DEF SavedChildren
<1>4. given = GivenLeaves(tags, s) /\ trap.tag = "trapinterfaces" /\ IsTree(trap)
    BY SavedTrapFacts
<1>5. sw.tag = "enabled" /\ sw.val = SwitchValue(s.enabled) /\ IsTree(sw) /\ sw.kids = <<>>
    BY LeafTree DEF Switch, SwitchValue
<1>6. SwitchValue(s.enabled) # NULL
    BY DocumentAssumption DEF SwitchValue
<1> HIDE DEF tags, given, sw, trap
<1>7. /\ given \in Seq(Nodes(given)) /\ DistinctTags(given)
      /\ \A t \in Nodes(given) : /\ IsTree(t) /\ t.tag \in {"name", "path", "params"}
                                 /\ t.val = s[t.tag] /\ t.val # NULL /\ t.kids = <<>>
      /\ \A a \in {"name", "path", "params"} :
            s[a] # NULL => \E t \in Nodes(given) : t.tag = a /\ t.val = s[a]
    BY <1>1, <1>2, <1>4, GivenList
<1>8. /\ one \in Seq(Nodes(one)) /\ Nodes(one) = {sw} /\ DistinctTags(one)
    BY DEF Nodes, DistinctTags
<1> HIDE DEF one
<1>9. /\ last \in Seq(Nodes(last)) /\ DistinctTags(last)
      /\ Nodes(last) = IF s.ifces_cnt = 0 THEN {} ELSE {trap}
  <2>1. <<>> \in Seq(Nodes(<<>>)) /\ DistinctTags(<<>>) /\ Nodes(<<>>) = {}
      BY DEF Nodes, DistinctTags
  <2>2. <<trap>> \in Seq(Nodes(<<trap>>)) /\ DistinctTags(<<trap>>) /\ Nodes(<<trap>>) = {trap}
      BY DEF Nodes, DistinctTags
  <2>3. CASE s.ifces_cnt = 0
      BY <2>1, <2>3
  <2>4. CASE s.ifces_cnt # 0
      BY <2>2, <2>4
  <2> QED BY <2>3, <2>4
<1>10. /\ front \in Seq(Nodes(front)) /\ Nodes(front) = Nodes(given) \cup {sw}
       /\ DistinctTags(front)
  <2>1. \A u \in Nodes(given), v \in Nodes(one) : u.tag # v.tag
      BY <1>5, <1>7, <1>8
  <2>2. front = given \o one
      OBVIOUS
  <2> HIDE DEF front
  <2>3. /\ front \in Seq(Nodes(front)) /\ Nodes(front) = Nodes(given) \cup Nodes(one)
        /\ DistinctTags(front)
    <3>1. /\ given \in Seq(Nodes(given)) /\ DistinctTags(given)
          /\ one \in Seq(Nodes(one)) /\ DistinctTags(one)
        BY <1>7, <1>8
    <3> QED BY <2>1, <2>2, <3>1, TagsConcatenated
  <2> QED BY <1>8, <2>3
<1> HIDE DEF front, last
<1>11. /\ kids \in Seq(Nodes(kids)) /\ Nodes(kids) = Nodes(front) \cup Nodes(last)
       /\ DistinctTags(kids)
  <2>1. \A u \in Nodes(front), v \in Nodes(last) : u.tag # v.tag
      BY <1>4, <1>5, <1>7, <1>9, <1>10
  <2> QED BY <1>3, <1>9, <1>10, <2>1, TagsConcatenated
<1>12. Nodes(kids) = Nodes(given) \cup {sw} \cup (IF s.ifces_cnt = 0 THEN {} ELSE {trap})
    BY <1>9, <1>10, <1>11
<1>13. \A t \in Nodes(kids) :
           /\ IsTree(t)
           /\ t.tag \in {"name", "path", "params", "enabled", "trapinterfaces"}
           /\ t.tag = "trapinterfaces" => t = trap
           /\ t.tag # "trapinterfaces" => t.kids = <<>>
    BY <1>4, <1>5, <1>7, <1>12
<1>14. ASSUME NEW a \in {"name", "path", "params"} PROVE GivenIn(kids, a, s[a])
  <2>1. OnceIn(kids, a)
      BY <1>11, OncePresent
  <2>2. \A t \in Nodes(kids) : t.tag = a => t.val = s[a] /\ t.val # NULL
      BY <1>4, <1>5, <1>7, <1>12
  <2>3. s[a] # NULL => \E t \in Nodes(kids) : t.tag = a
      BY <1>7, <1>12
  <2> QED BY <2>1, <2>2, <2>3 DEF GivenIn
<1>15. GivenIn(kids, "enabled", SwitchValue(s.enabled))
  <2>1. OnceIn(kids, "enabled")
      BY <1>11, OncePresent
  <2>2. \A t \in Nodes(kids) : t.tag = "enabled" => t = sw
      BY <1>4, <1>5, <1>7, <1>12
  <2>3. sw \in Nodes(kids)
      BY <1>12
  <2> QED BY <1>5, <1>6, <2>1, <2>2, <2>3 DEF GivenIn
<1>16. /\ s.ifces_cnt # 0 => trap \in Nodes(kids)
       /\ s.ifces_cnt = 0 => \A t \in Nodes(kids) : t.tag # "trapinterfaces"
    BY <1>5, <1>7, <1>12
<1> QED BY <1>11, <1>13, <1>14, <1>15, <1>16 DEF trap

(***************************************************************************)
(* The element of a module in the backup.                                  *)
(***************************************************************************)
LEMMA SavedModuleFacts ==
    ASSUME NEW s, SlotType(s), NEW e, e = SavedModule(s)
    PROVE  /\ e.tag = "module" /\ e.val = s.pid /\ e.kids # <<>>
           /\ IsModule(e) /\ ~Has(e, "module-restarts")
           /\ s.ifces_cnt # 0 => Element("trapinterfaces", Indented(SavedInterfaces(s)))
                                     \in Children(e, "trapinterfaces")
           /\ Name(e) = s.name /\ ValueOf(e, "path", NULL) = s.path
           /\ ValueOf(e, "params", NULL) = s.params
           /\ (ValueOf(e, "enabled", NULL) = "true") = s.enabled
           /\ InterfaceNodes(e) = Indented(SavedInterfaces(s))
           /\ s.name # NULL /\ s.path # NULL /\ Writable(s) => ModuleElement(e)
<1> DEFINE kids == SavedChildren(s)
           trap == Element("trapinterfaces", Indented(SavedInterfaces(s)))
<1>1. s.pid \in BOOLEAN /\ s.enabled \in BOOLEAN
    BY DEF SlotType, SlotFlags
<1>2. e.kids = Indented(kids) /\ e.val = s.pid /\ e.tag = "module"
    BY DEF SavedModule, Element, SavedChildren, SavedInterfaces
<1>3. /\ kids \in Seq(Nodes(kids)) /\ DistinctTags(kids)
      /\ \A t \in Nodes(kids) :
            /\ IsTree(t)
            /\ t.tag \in {"name", "path", "params", "enabled", "trapinterfaces"}
            /\ t.tag = "trapinterfaces" => t = trap
            /\ t.tag # "trapinterfaces" => t.kids = <<>>
      /\ s.ifces_cnt # 0 => trap \in Nodes(kids)
      /\ s.ifces_cnt = 0 => \A t \in Nodes(kids) : t.tag # "trapinterfaces"
    BY SavedChildrenFacts
<1>4. /\ \A a \in {"name", "path", "params"} : GivenIn(kids, a, s[a])
      /\ GivenIn(kids, "enabled", SwitchValue(s.enabled))
    BY SavedChildrenFacts
<1>5. /\ trap.tag = "trapinterfaces" /\ trap.kids = Indented(SavedInterfaces(s))
      /\ IsTree(trap) /\ \A k \in Nodes(trap.kids) : IsTree(k)
      /\ Writable(s) => check_trapinterfaces(trap)
    BY SavedTrapFacts
<1> HIDE DEF kids, trap
<1>6. /\ ReadFrom(e, "name", s.name) /\ ReadFrom(e, "path", s.path)
      /\ ReadFrom(e, "params", s.params) /\ ReadFrom(e, "enabled", SwitchValue(s.enabled))
    BY <1>2, <1>3, <1>4, GivenRead
<1>7. SwitchValue(s.enabled) \in {"true", "false"} /\ SwitchValue(s.enabled) # NULL
    BY DocumentAssumption DEF SwitchValue
<1>8. ReadFrom(e, "module-restarts", NULL)
  <2>1. GivenIn(kids, "module-restarts", NULL)
      BY <1>3, OncePresent DEF GivenIn
  <2> QED BY <1>2, <1>3, <2>1, GivenRead
<1>9. Has(e, "enabled") /\ e.kids # <<>>
    BY <1>6, <1>7, HasKids DEF ReadFrom
<1>10. (ValueOf(e, "enabled", NULL) = "true") = s.enabled
  <2>1. ValueOf(e, "enabled", NULL) = SwitchValue(s.enabled)
      BY <1>6 DEF ReadFrom
  <2> QED BY <1>1, <2>1 DEF SwitchValue
<1>11. /\ e.kids \in Seq(Nodes(e.kids)) /\ Nodes(e.kids) \subseteq Nodes(kids) \cup {Blank}
    BY <1>2, <1>3, IndentedList
<1>12. Blank.tag = "text" /\ IsTree(Blank) /\ Blank.kids = <<>>
    BY LeafTree DEF Blank
<1>13. \A t \in Nodes(e.kids) :
           /\ IsTree(t) /\ (t.tag = "trapinterfaces" => t = trap)
           /\ t.tag # "trapinterfaces" => t.kids = <<>>
           /\ t.tag \in {"name", "path", "params", "enabled", "trapinterfaces", "text"}
    BY <1>3, <1>11, <1>12
<1>14. IsModule(e)
  <2>1. Nodes(<<>>) = {}
      BY DEF Nodes
  <2>2. \A t \in Nodes(e.kids) : \A k \in Nodes(t.kids) : IsTree(k)
      BY <1>5, <1>13, <2>1
  <2>3. e.val \in {NULL, TRUE, FALSE}
      BY <1>1, <1>2
  <2> QED BY <1>11, <1>13, <2>2, <2>3 DEF IsModule, IsTree
<1>15. /\ Single(e, "trapinterfaces")
       /\ s.ifces_cnt # 0 => Has(e, "trapinterfaces") /\ Children(e, "trapinterfaces") = {trap}
       /\ s.ifces_cnt = 0 => ~Has(e, "trapinterfaces") /\ Children(e, "trapinterfaces") = {}
  <2>1. OnceIn(kids, "trapinterfaces")
      BY <1>3, OncePresent
  <2> QED BY <1>2, <1>3, <1>5, <2>1, Written
<1>16. InterfaceNodes(e) = Indented(SavedInterfaces(s))
  <2>1. CASE s.ifces_cnt # 0
    <3>1. Child(e, "trapinterfaces") = trap
        BY <1>11, <1>15, <2>1, ChildFacts
    <3> QED BY <1>5, <1>15, <2>1, <3>1 DEF InterfaceNodes
  <2>2. CASE s.ifces_cnt = 0
    <3>1. SavedInterfaces(s) = <<>>
        BY <2>2 DEF SavedInterfaces
    <3> QED BY <1>15, <2>2, <3>1 DEF InterfaceNodes, Indented
  <2> QED BY <2>1, <2>2
<1>18. ASSUME s.name # NULL, s.path # NULL, Writable(s) PROVE ModuleElement(e)
  <2>1. \A k \in Range(e.kids) : k.tag \in ModuleChildren \cup {"text", "comment"}
      BY <1>13 DEF Range, Nodes, ModuleChildren
  <2>2. \A t \in ModuleChildren : Single(e, t)
      BY <1>6, <1>8, <1>15 DEF ReadFrom, ModuleChildren
  <2>3. Mandatory(e, {"name", "path", "enabled"})
      BY <1>6, <1>7, <1>18 DEF Mandatory, ReadFrom
  <2>4. OneOf(e, "enabled", {"true", "false"}) /\ OneOf(e, "module-restarts", Restarts)
      BY <1>6, <1>7, <1>8 DEF OneOf, ReadFrom
  <2>5. reload_check_module_element(e)
      BY <2>1, <2>2, <2>3, <2>4 DEF reload_check_module_element, Structure
  <2>6. \A t \in Children(e, "trapinterfaces") : check_trapinterfaces(t)
      BY <1>5, <1>15, <1>18
  <2> QED BY <1>2, <1>9, <1>14, <2>5, <2>6 DEF ModuleElement
<1>19. ~Has(e, "module-restarts")
    BY <1>8 DEF ReadFrom
<1>20. s.ifces_cnt # 0 => trap \in Children(e, "trapinterfaces")
    BY <1>15
<1> QED BY <1>2, <1>6, <1>9, <1>10, <1>14, <1>16, <1>18, <1>19, <1>20 DEF ReadFrom, Name, trap

\* The modules of a profile.
ModulesOf(modules, p) == Kept(modules, {s \in Range(modules) : s.profile = p.name})

(***************************************************************************)
(* They are the slots with this profile, in their order.                   *)
(***************************************************************************)
LEMMA ModulesOfFacts ==
    ASSUME NEW modules, modules \in Seq(Nodes(modules)), UniqueSlots(modules), NEW p,
           NEW mine, mine = ModulesOf(modules, p)
    PROVE  /\ mine \in Seq(Nodes(mine))
           /\ Nodes(mine) = {s \in Nodes(modules) : s.profile = p.name}
           /\ \A i, j \in DOMAIN mine : mine[i].name = mine[j].name => i = j
<1> DEFINE set == {s \in Range(modules) : s.profile = p.name}
<1>1. IsInjective(modules)
    BY DEF IsInjective, UniqueSlots
<1>2. mine = Kept(modules, set)
    BY DEF ModulesOf
<1>3. Nodes(modules) \cap set = {s \in Nodes(modules) : s.profile = p.name}
    BY DEF Nodes, Range
<1> HIDE DEF set
<1>4. /\ mine \in Seq(Nodes(mine)) /\ Nodes(mine) = Nodes(modules) \cap set
      /\ IsInjective(mine)
    BY <1>1, <1>2, KeptList
<1>5. ASSUME NEW i \in DOMAIN mine, NEW j \in DOMAIN mine, mine[i].name = mine[j].name
      PROVE  i = j
  <2>1. mine[i] \in Nodes(modules) /\ mine[j] \in Nodes(modules)
      BY <1>4 DEF Nodes
  <2>2. PICK k \in DOMAIN modules : modules[k] = mine[i]
      BY <2>1 DEF Nodes
  <2>3. PICK l \in DOMAIN modules : modules[l] = mine[j]
      BY <2>1 DEF Nodes
  <2>4. k = l
      BY <1>5, <2>2, <2>3 DEF UniqueSlots
  <2> QED BY <1>4, <2>2, <2>3, <2>4 DEF IsInjective
<1> QED BY <1>3, <1>4, <1>5

\* Two elements before a list.
Behind(a, b, s, out) ==
    /\ out \in Seq(Nodes(out)) /\ Nodes(out) = {a, b} \cup Nodes(s)
    /\ DOMAIN out = 1..(Len(s) + 2) /\ out[1] = a /\ out[2] = b
    /\ \A i \in 1..Len(s) : out[i + 2] = s[i]

(***************************************************************************)
(* Where the elements of the list are then.                                *)
(***************************************************************************)
LEMMA TwoBefore ==
    ASSUME NEW a, NEW b, NEW s, s \in Seq(Nodes(s)), NEW out, out = <<a, b>> \o s
    PROVE  Behind(a, b, s, out)
<1> DEFINE h == <<a, b>>
           S == {a, b} \cup Nodes(s)
<1>1. /\ h \in Seq(Nodes(h)) /\ Nodes(h) = {a, b} /\ Len(h) = 2 /\ h[1] = a /\ h[2] = b
  <2>1. DOMAIN h = {1, 2}
      OBVIOUS
  <2> QED BY <2>1 DEF Nodes
<1>2. h \in Seq(S) /\ s \in Seq(S) /\ Len(s) \in Nat
    OBVIOUS
<1>3. out = h \o s
    OBVIOUS
<1> HIDE DEF h, S
<1>4. out \in Seq(Nodes(out)) /\ Nodes(out) = Nodes(h) \cup Nodes(s)
  <2>1. Nodes(h \o s) = Nodes(h) \cup Nodes(s) /\ h \o s \in Seq(Nodes(h \o s))
      BY <1>1, Concatenation
  <2> QED BY <1>3, <2>1
<1>5. /\ DOMAIN out = 1..(Len(s) + 2)
      /\ \A i \in 1..(Len(s) + 2) : out[i] = IF i <= 2 THEN h[i] ELSE s[i - 2]
    BY <1>1, <1>2, <1>3
<1>6. out[1] = a /\ out[2] = b
    BY <1>1, <1>2, <1>5
<1>7. ASSUME NEW i \in 1..Len(s) PROVE out[i + 2] = s[i]
  <2>1. i + 2 \in 1..(Len(s) + 2) /\ ~(i + 2 <= 2) /\ (i + 2) - 2 = i
      BY <1>2
  <2> QED BY <1>5, <2>1
<1> QED BY <1>1, <1>4, <1>5, <1>6, <1>7 DEF Behind

\* A table that can be written.
SlotList(modules) ==
    /\ modules \in Seq(Nodes(modules)) /\ UniqueSlots(modules)
    /\ \A i \in DOMAIN modules : SlotType(modules[i])

\* The element of the profile has those modules and no other.
HasModules(g, modules, p) ==
    /\ \A j \in Places(g, "module") : \E s \in Nodes(modules) :
          s.profile = p.name /\ g.kids[j] = SavedModule(s)
    /\ \A s \in Nodes(modules) : s.profile = p.name =>
          \E j \in Places(g, "module") : g.kids[j] = SavedModule(s)
    /\ \A j, l \in Places(g, "module") : Name(g.kids[j]) = Name(g.kids[l]) => j = l

(***************************************************************************)
(* The element of a profile in the backup.                                 *)
(***************************************************************************)
LEMMA SavedProfileFacts ==
    ASSUME NEW modules, SlotList(modules), NEW p, p.enabled \in BOOLEAN,
           NEW g, g = SavedProfile(modules, p)
    PROVE  /\ g.tag = "modules" /\ IsGroup(g) /\ HasModules(g, modules, p)
           /\ Name(g) = p.name /\ g.kids # <<>>
           /\ p.name # NULL => reload_check_modules_element(g)
<1> DEFINE mine == ModulesOf(modules, p)
           mods == [i \in DOMAIN mine |-> SavedModule(mine[i])]
           a == Leaf("name", p.name)
           b == Switch(p.enabled)
           kids == <<a, b>> \o mods
<1>1. /\ mine \in Seq(Nodes(mine))
      /\ Nodes(mine) = {s \in Nodes(modules) : s.profile = p.name}
      /\ \A i, j \in DOMAIN mine : mine[i].name = mine[j].name => i = j
    BY ModulesOfFacts DEF SlotList
<1>2. g.kids = Indented(kids) /\ g.tag = "modules"
    BY DEF SavedProfile, Element, ModulesOf
<1>3. /\ DOMAIN mods = DOMAIN mine /\ mods = [i \in DOMAIN mine |-> mods[i]]
      /\ \A i \in DOMAIN mods : mods[i] = SavedModule(mine[i])
    OBVIOUS
<1>4. kids = <<a, b>> \o mods
    OBVIOUS
<1>5. /\ a.tag = "name" /\ a.val = p.name /\ IsModule(a)
      /\ b.tag = "enabled" /\ b.val \in {"true", "false"} /\ IsModule(b)
      /\ Blank.tag = "text" /\ IsModule(Blank)
    BY LeafTree DEF Switch, Blank
<1> HIDE DEF mine, mods, kids, a, b
<1>6. mods \in Seq(Nodes(mods))
    BY <1>1, <1>3, MappedList
<1>7. /\ kids \in Seq(Nodes(kids)) /\ Nodes(kids) = {a, b} \cup Nodes(mods)
      /\ DOMAIN kids = 1..(Len(mods) + 2) /\ kids[1] = a /\ kids[2] = b
      /\ \A i \in 1..Len(mods) : kids[i + 2] = mods[i]
  <2>1. Behind(a, b, mods, kids)
      BY <1>4, <1>6, TwoBefore
  <2> QED BY <2>1 DEF Behind
<1>8. Len(mods) \in Nat /\ DOMAIN mods = 1..Len(mods)
    BY <1>6, ListFacts
<1>9. ASSUME NEW i \in DOMAIN mods
      PROVE  /\ mods[i] = SavedModule(mine[i]) /\ mine[i] \in Nodes(modules)
             /\ mine[i].profile = p.name /\ SlotType(mine[i])
             /\ mods[i].tag = "module" /\ IsModule(mods[i])
             /\ Name(mods[i]) = mine[i].name
  <2>1. mine[i] \in Nodes(modules) /\ mine[i].profile = p.name
      BY <1>1, <1>3 DEF Nodes
  <2>2. SlotType(mine[i])
      BY <2>1 DEF SlotList, Nodes
  <2> QED BY <1>3, <2>1, <2>2, SavedModuleFacts
<1>10. ASSUME NEW i \in DOMAIN kids
       PROVE  i = 1 \/ i = 2 \/ (i - 2 \in DOMAIN mods /\ kids[i] = mods[i - 2])
    BY <1>7, <1>8
<1>11. \A i \in DOMAIN kids : /\ kids[i].tag = "name" => i = 1
                              /\ kids[i].tag = "enabled" => i = 2
                              /\ kids[i].tag = "module" => i # 1 /\ i # 2
  <2>1. ASSUME NEW i \in DOMAIN kids, i - 2 \in DOMAIN mods, kids[i] = mods[i - 2]
        PROVE  kids[i].tag = "module" /\ i # 1 /\ i # 2
      BY <1>7, <1>8, <1>9, <2>1
  <2> QED BY <1>5, <1>7, <1>10, <2>1
<1>12. OnceIn(kids, "name") /\ OnceIn(kids, "enabled")
    BY <1>11 DEF OnceIn
<1>13. a \in Nodes(kids) /\ b \in Nodes(kids)
    BY <1>7
<1>14. /\ Single(g, "name") /\ Has(g, "name")
       /\ Name(g) = p.name
    BY <1>2, <1>5, <1>7, <1>12, <1>13, Written DEF Name
<1>15. /\ Single(g, "enabled") /\ Children(g, "enabled") = {b}
       /\ ValueOf(g, "enabled", NULL) = b.val
    BY <1>2, <1>5, <1>7, <1>12, <1>13, Written
<1>16. g.kids # <<>>
    BY <1>14, HasKids
<1>17. g.kids \in Seq(Nodes(g.kids)) /\ Nodes(g.kids) \subseteq Nodes(kids) \cup {Blank}
    BY <1>2, <1>7, IndentedList
<1>18. \A t \in Nodes(mods) : t.tag = "module" /\ IsModule(t)
    BY <1>9 DEF Nodes
<1>19. \A t \in Nodes(g.kids) : /\ IsModule(t)
                                /\ t.tag \in {"name", "enabled", "module", "text"}
    BY <1>5, <1>7, <1>17, <1>18
<1>20. IsGroup(g)
    BY <1>17, <1>19 DEF IsGroup, IsTree
<1>21. ASSUME p.name # NULL PROVE reload_check_modules_element(g)
  <2>1. Structure(g, {"name", "enabled", "module"}, {"name", "enabled"})
      BY <1>14, <1>15, <1>19 DEF Structure, Range, Nodes
  <2>2. b.val # NULL
      BY <1>5, DocumentAssumption
  <2>3. Mandatory(g, {"name", "enabled"})
      BY <1>14, <1>15, <1>21, <2>2 DEF Mandatory, Name
  <2>4. OneOf(g, "enabled", {"true", "false"})
      BY <1>5, <1>15 DEF OneOf
  <2> QED BY <2>1, <2>3, <2>4 DEF reload_check_modules_element
<1>22. EvenPlaces(kids, g, "module")
    BY <1>2, <1>7, IndentedPlaces
<1>23. ASSUME NEW j \in Places(g, "module")
       PROVE  \E i \in DOMAIN mods : j = 2 * (i + 2) /\ g.kids[j] = mods[i]
  <2>1. PICK k \in DOMAIN kids : j = 2 * k /\ kids[k].tag = "module" /\ g.kids[j] = kids[k]
      BY <1>22 DEF EvenPlaces
  <2>2. k - 2 \in DOMAIN mods /\ kids[k] = mods[k - 2]
      BY <1>10, <1>11, <2>1
  <2>3. j = 2 * ((k - 2) + 2)
      BY <1>7, <1>8, <2>1
  <2> QED BY <2>1, <2>2, <2>3
<1>24. ASSUME NEW j \in Places(g, "module")
       PROVE  \E s \in Nodes(modules) : s.profile = p.name /\ g.kids[j] = SavedModule(s)
    BY <1>9, <1>23
<1>25. ASSUME NEW s \in Nodes(modules), s.profile = p.name
       PROVE  \E j \in Places(g, "module") : g.kids[j] = SavedModule(s)
  <2>1. s \in Nodes(mine)
      BY <1>1, <1>25
  <2>2. PICK i \in DOMAIN mine : mine[i] = s
      BY <2>1 DEF Nodes
  <2>3. mods[i] = SavedModule(s) /\ mods[i].tag = "module"
      BY <1>3, <1>9, <2>2
  <2>4. i + 2 \in DOMAIN kids /\ kids[i + 2] = mods[i]
      BY <1>3, <1>7, <1>8
  <2>5. 2 * (i + 2) \in Places(g, "module") /\ g.kids[2 * (i + 2)] = mods[i]
      BY <1>22, <2>3, <2>4 DEF EvenPlaces
  <2> QED BY <2>3, <2>5
<1>26. ASSUME NEW j \in Places(g, "module"), NEW l \in Places(g, "module"),
              Name(g.kids[j]) = Name(g.kids[l])
       PROVE  j = l
  <2>1. PICK i \in DOMAIN mods : j = 2 * (i + 2) /\ g.kids[j] = mods[i]
      BY <1>23
  <2>2. PICK k \in DOMAIN mods : l = 2 * (k + 2) /\ g.kids[l] = mods[k]
      BY <1>23
  <2>3. Name(mods[i]) = mine[i].name /\ Name(mods[k]) = mine[k].name
      BY <1>9
  <2>4. Name(mods[i]) = Name(mods[k])
      BY <1>26, <2>1, <2>2
  <2>5. mine[i].name = mine[k].name
      BY <2>3, <2>4
  <2>6. i = k
      BY <1>1, <1>3, <2>5, Zenon
  <2> QED BY <2>1, <2>2, <2>6
<1>27. HasModules(g, modules, p)
    BY <1>24, <1>25, <1>26 DEF HasModules
<1> QED BY <1>2, <1>14, <1>16, <1>20, <1>21, <1>27

\* A table and its profiles, from which a backup is made.
GoodTable(modules, list) ==
    /\ SlotList(modules) /\ ProfileList(list) /\ ProfileNames(list)
    /\ Profiled(modules, list)

\* The element of the i-th profile is the 2i-th node.
HasProfiles(root, modules, list) ==
    /\ \A i \in DOMAIN list : /\ 2 * i \in Places(root, "modules")
                              /\ root.kids[2 * i] = SavedProfile(modules, list[i])
    /\ \A j \in Places(root, "modules") : \E i \in DOMAIN list :
          j = 2 * i /\ root.kids[j] = SavedProfile(modules, list[i])

(***************************************************************************)
(* The backup can be loaded as a document (generate_backup_config_file).   *)
(***************************************************************************)
LEMMA BackupDocument ==
    ASSUME NEW modules, SlotList(modules), NEW list, ProfileList(list),
           NEW root, root = generate_backup_config_file(modules, list)
    PROVE  /\ IsDocument(root) /\ HasProfiles(root, modules, list)
           /\ root.tag = "nemea-supervisor"
           /\ \A g \in Nodes(root.kids) : g.tag \in {"modules", "text"}
<1> DEFINE groups == [i \in DOMAIN list |-> SavedProfile(modules, list[i])]
<1>1. root.kids = Indented(groups) /\ root.tag = "nemea-supervisor"
    BY DEF generate_backup_config_file, Element
<1>2. /\ DOMAIN groups = DOMAIN list /\ groups = [i \in DOMAIN list |-> groups[i]]
      /\ \A i \in DOMAIN groups : groups[i] = SavedProfile(modules, list[i])
    OBVIOUS
<1> HIDE DEF groups
<1>3. groups \in Seq(Nodes(groups))
    BY <1>2, MappedList DEF ProfileList
<1>4. \A i \in DOMAIN groups :
          groups[i].tag = "modules" /\ IsGroup(groups[i])
  <2>1. \A i \in DOMAIN list : list[i].enabled \in BOOLEAN
      BY DEF ProfileList, Nodes
  <2> QED BY <1>2, <2>1, SavedProfileFacts
<1>5. IsGroup(Blank) /\ Blank.tag = "text"
    BY LeafTree DEF Blank
<1>6. root.kids \in Seq(Nodes(root.kids)) /\ Nodes(root.kids) \subseteq Nodes(groups) \cup {Blank}
    BY <1>1, <1>3, IndentedList
<1>7. \A g \in Nodes(groups) : g.tag = "modules" /\ IsGroup(g)
    BY <1>4 DEF Nodes
<1>8. /\ IsDocument(root)
      /\ \A g \in Nodes(root.kids) : g.tag \in {"modules", "text"}
    BY <1>5, <1>6, <1>7 DEF IsDocument, IsTree
<1>9. EvenPlaces(groups, root, "modules")
    BY <1>1, <1>3, IndentedPlaces
<1>10. HasProfiles(root, modules, list)
    BY <1>2, <1>4, <1>9 DEF HasProfiles, EvenPlaces
<1> QED BY <1>1, <1>8, <1>10

(***************************************************************************)
(* The validation accepts it, unless there is nothing in it or an          *)
(* interface without any attribute.                                        *)
(***************************************************************************)
LEMMA BackupValid ==
    ASSUME NEW modules, NEW list, GoodTable(modules, list), Saveable(modules),
           NEW root, root = generate_backup_config_file(modules, list), root # NULL
    PROVE  validate_configuration(root)
<1>1. SlotList(modules) /\ ProfileList(list) /\ ProfileNames(list) /\ Profiled(modules, list)
    BY DEF GoodTable
<1>2. /\ IsDocument(root) /\ HasProfiles(root, modules, list)
      /\ root.tag = "nemea-supervisor"
      /\ \A g \in Nodes(root.kids) : g.tag \in {"modules", "text"}
    BY <1>1, BackupDocument
<1>3. \A i \in DOMAIN list : list[i].enabled \in BOOLEAN /\ list[i].name # NULL
    BY <1>1 DEF ProfileList, Nodes, ProfileNames
<1>4. ASSUME NEW j \in Places(root, "modules")
      PROVE  \E i \in DOMAIN list :
                /\ j = 2 * i /\ Name(root.kids[j]) = list[i].name
                /\ HasModules(root.kids[j], modules, list[i])
                /\ root.kids[j].kids # <<>> /\ reload_check_modules_element(root.kids[j])
  <2>1. PICK i \in DOMAIN list : j = 2 * i /\ root.kids[j] = SavedProfile(modules, list[i])
      BY <1>2 DEF HasProfiles
  <2> QED BY <1>1, <1>3, <2>1, SavedProfileFacts
<1>5. root.kids # <<>>
  <2>1. PICK i \in DOMAIN modules : modules[i].profile # NULL
      BY DEF Saveable, Range
  <2>2. PICK j \in DOMAIN list : list[j].name = modules[i].profile
      BY <1>1, <2>1 DEF Profiled
  <2>3. Has(root, "modules")
      BY <1>2, <2>2 DEF HasProfiles, Has
  <2> QED BY <2>3, HasKids
<1>6. Places(root, "supervisor") = {}
    BY <1>2 DEF Places, Nodes
<1>7. Structure(root, {"supervisor", "modules"}, {"supervisor"})
    BY <1>2, <1>6 DEF Structure, Single, Range, Nodes
<1>8. Children(root, "supervisor") = {}
    BY <1>6 DEF Children
<1>9. \A g \in Children(root, "modules") : g.kids # <<>> /\ reload_check_modules_element(g)
    BY <1>4 DEF Children
<1>10. ASSUME NEW j \in Places(root, "modules"), NEW l \in Places(root.kids[j], "module")
       PROVE  \E i \in DOMAIN list : \E s \in Nodes(modules) :
                 /\ j = 2 * i /\ s.profile = list[i].name /\ Name(root.kids[j].kids[l]) = s.name
                 /\ ModuleElement(root.kids[j].kids[l])
  <2>1. PICK i \in DOMAIN list : j = 2 * i /\ HasModules(root.kids[j], modules, list[i])
      BY <1>4
  <2>2. PICK s \in Nodes(modules) :
            s.profile = list[i].name /\ root.kids[j].kids[l] = SavedModule(s)
      BY <2>1 DEF HasModules
  <2>3. PICK k \in DOMAIN modules : modules[k] = s
      BY DEF Nodes
  <2>4. SlotType(s) /\ s.name # NULL /\ s.path # NULL
      BY <1>1, <1>3, <2>2, <2>3 DEF SlotList, Profiled
  <2>5. Writable(s)
      BY <1>3, <2>2, <2>3 DEF Saveable, Range, Writable
  <2>6. Name(root.kids[j].kids[l]) = s.name /\ ModuleElement(root.kids[j].kids[l])
      BY <2>2, <2>4, <2>5, SavedModuleFacts
  <2> QED BY <2>1, <2>2, <2>6
<1>11. ASSUME NEW m \in ModuleElements(root) PROVE ModuleElement(m)
  <2>1. PICK j \in Places(root, "modules") : \E l \in Places(root.kids[j], "module") :
            m = root.kids[j].kids[l]
      BY DEF ModuleElements, Children
  <2> QED BY <1>10, <2>1
<1>12. \A m \in ModuleElements(root) :
           /\ m.kids # <<>> /\ reload_check_module_element(m)
           /\ \A t \in Children(m, "trapinterfaces") : check_trapinterfaces(t)
    BY <1>11 DEF ModuleElement
<1>13. UniqueProfiles(root)
  <2> SUFFICES ASSUME NEW i \in Places(root, "modules"), NEW k \in Places(root, "modules"),
                      Name(root.kids[i]) = Name(root.kids[k])
               PROVE  i = k
      BY DEF UniqueProfiles
  <2>1. PICK a \in DOMAIN list : i = 2 * a /\ Name(root.kids[i]) = list[a].name
      BY <1>4
  <2>2. PICK b \in DOMAIN list : k = 2 * b /\ Name(root.kids[k]) = list[b].name
      BY <1>4
  <2>3. a = b
      BY <1>1, <2>1, <2>2 DEF ProfileNames
  <2> QED BY <2>1, <2>2, <2>3
<1>14. UniqueModules(root)
  <2> SUFFICES ASSUME NEW i \in Places(root, "modules"), NEW k \in Places(root, "modules"),
                      NEW j \in Places(root.kids[i], "module"),
                      NEW l \in Places(root.kids[k], "module"),
                      Name(root.kids[i].kids[j]) = Name(root.kids[k].kids[l])
               PROVE  i = k /\ j = l
      BY DEF UniqueModules
  <2>1. PICK a \in DOMAIN list : \E s \in Nodes(modules) :
            i = 2 * a /\ s.profile = list[a].name /\ Name(root.kids[i].kids[j]) = s.name
      BY <1>10
  <2>2. PICK s \in Nodes(modules) :
            i = 2 * a /\ s.profile = list[a].name /\ Name(root.kids[i].kids[j]) = s.name
      BY <2>1
  <2>3. PICK b \in DOMAIN list : \E t \in Nodes(modules) :
            k = 2 * b /\ t.profile = list[b].name /\ Name(root.kids[k].kids[l]) = t.name
      BY <1>10
  <2>4. PICK t \in Nodes(modules) :
            k = 2 * b /\ t.profile = list[b].name /\ Name(root.kids[k].kids[l]) = t.name
      BY <2>3
  <2>5. s = t
    <3>1. s.name = t.name
        BY <2>2, <2>4
    <3> QED BY <1>1, <3>1 DEF SlotList, UniqueSlots, Nodes
  <2>6. a = b
      BY <1>1, <2>2, <2>4, <2>5 DEF ProfileNames
  <2>7. i = k
      BY <2>2, <2>4, <2>6
  <2>8. j = l
    <3>1. PICK c \in DOMAIN list : HasModules(root.kids[i], modules, list[c])
        BY <1>4
    <3> QED BY <2>7, <3>1 DEF HasModules
  <2> QED BY <2>7, <2>8
<1> QED BY <1>2, <1>5, <1>7, <1>8, <1>9, <1>12, <1>13, <1>14 DEF validate_configuration

-----------------------------------------------------------------------------
(* The invariant of the supervisor. *)

\* The supervisor's own variables.
TypeInv ==
    /\ up \in BOOLEAN /\ init_load \in BOOLEAN /\ restarts_config \in Nat
    /\ ProfileList(profiles)

\* The text of a file that can be parsed is a list of nodes.
GenerInv == Parsed => gener \in Seq(Nodes(gener))

\* The profiles have names, and every module of a profile has its profile there.
NamesInv == ProfileNames(profiles) /\ Profiled(running_modules, profiles)

\* A backup is there only between two supervisors, and it is the one of the
\* table that the last one has left.
BackupInv ==
    /\ up => backup = NULL
    /\ ~up => /\ running_modules = <<>> /\ gstate = "idle"
              /\ restarts_config = DefaultRestarts
    /\ backup # NULL => \E list : /\ GoodTable(before, list)
                                  /\ backup = generate_backup_config_file(before, list)

\* The document that was loaded last passed the validation, and the table has
\* every module of it, below its profile and with the values it gives, and no
\* other that stays.
LoadedInv ==
    loaded # NULL =>
        /\ IsDocument(loaded) /\ validate_configuration(loaded)
        /\ AllLoaded(loaded, running_modules) /\ NoOther(loaded, running_modules)
        /\ LimitLoaded(loaded, restarts_config)

\* The inductive invariant.
DocInv == TypeInv /\ TableInv /\ GenerInv /\ NamesInv /\ BackupInv /\ LoadedInv

(***************************************************************************)
(* reload_configuration with a document.                                   *)
(***************************************************************************)
LEMMA LoadStep ==
    ASSUME DocInv, NEW root, root # NULL => IsDocument(root), NEW init \in BOOLEAN,
           LoadDocument(root, init)
    PROVE  /\ TableInv' /\ restarts_config' \in Nat /\ ProfileList(profiles')
           /\ LoadedInv' /\ NamesInv'
<1>1. CASE validate_configuration(root)
  <2>1. ApplyDocument(root, init) /\ IsDocument(root)
      BY <1>1 DEF LoadDocument, validate_configuration
  <2>2. "any" # "start" /\ "any" # "quiet"
      OBVIOUS
  <2>3. /\ TableInv' /\ restarts_config' \in Nat /\ ProfileList(profiles')
        /\ loaded' = root /\ AllLoaded(root, running_modules')
        /\ NoOther(root, running_modules') /\ LimitLoaded(root, restarts_config')
        /\ ProfileNames(profiles') /\ Profiled(running_modules', profiles')
      BY <1>1, <2>1, <2>2, DocumentLoaded DEF DocInv, TypeInv
  <2> QED BY <1>1, <2>1, <2>3 DEF LoadedInv, NamesInv
<1>2. CASE ~validate_configuration(root)
  <2>1. /\ running_modules' = running_modules /\ profiles' = profiles
        /\ restarts_config' = restarts_config /\ loaded' = loaded
      BY <1>2 DEF LoadDocument
  <2> QED BY <2>1 DEF DocInv, TypeInv, TableInv, LoadedInv, NamesInv
<1> QED BY <1>1, <1>2

(***************************************************************************)
(* The generated file is a document.                                       *)
(***************************************************************************)
LEMMA GeneratedDocument ==
    ASSUME GenInv, GenerInv, Parsed
    PROVE  IsDocument(Generated)
<1>1. Generated.kids = gener
    BY DEF Generated, Element
<1>2. gener \in Seq(Nodes(gener))
    BY DEF GenerInv
<1>3. Nodes(gener) = UNION {LineNodes(template[i]) : i \in DOMAIN template}
    BY DEF GenInv, GeneratedWhole, Parsed
<1>4. ASSUME NEW g \in Nodes(gener) PROVE IsGroup(g)
  <2>1. PICK i \in DOMAIN template : g \in LineNodes(template[i])
      BY <1>3, <1>4
  <2>2. template \in Templates
      BY <2>1 DEF GenInv, TemplateInv
  <2> QED BY <2>1, <2>2, DocumentAssumption
<1> QED BY <1>1, <1>2, <1>4 DEF IsDocument, IsTree

(***************************************************************************)
(* What the service thread does to a slot leaves it what the document made *)
(* of it.                                                                  *)
(***************************************************************************)
LEMMA ServeStep ==
    ASSUME DocInv, NEW i \in DOMAIN running_modules, NEW t, Serve(i, t), SlotType(t),
           t.name = running_modules[i].name, t.profile = running_modules[i].profile,
           t.path = running_modules[i].path, t.params = running_modules[i].params,
           t.max_restarts = running_modules[i].max_restarts,
           t.ifces = running_modules[i].ifces, t.ifces_cnt = running_modules[i].ifces_cnt,
           t.remove_module = running_modules[i].remove_module,
           t.enabled \/ t.init_module
               <=> running_modules[i].enabled \/ running_modules[i].init_module
    PROVE  DocInv'
<1> DEFINE out == [running_modules EXCEPT ![i] = t]
           s == running_modules[i]
<1>1. /\ running_modules' = out /\ up' = up /\ init_load' = init_load
      /\ profiles' = profiles /\ restarts_config' = restarts_config /\ backup' = backup
      /\ loaded' = loaded /\ gener' = gener /\ gstate' = gstate /\ before' = before /\ up
    BY DEF Serve, genvars
<1>2. /\ DOMAIN out = DOMAIN running_modules /\ out[i] = t
      /\ \A j \in DOMAIN running_modules : j # i => out[j] = running_modules[j]
      /\ out = [j \in DOMAIN running_modules |-> out[j]]
    OBVIOUS
<1>3. TypeInv' /\ GenerInv' /\ BackupInv'
    BY <1>1 DEF DocInv, TypeInv, GenerInv, Parsed, BackupInv
<1> HIDE DEF out
<1>4. out \in Seq(Nodes(out))
    BY <1>2, MappedList DEF DocInv, TableInv
<1>5. \A j \in DOMAIN out : SlotType(out[j]) /\ out[j].name = running_modules[j].name
    BY <1>2 DEF DocInv, TableInv
<1>6. UniqueSlots(out)
    BY <1>2, <1>5 DEF DocInv, TableInv, UniqueSlots
<1>7. TableInv'
    BY <1>1, <1>4, <1>5, <1>6 DEF TableInv
<1>8. ASSUME NEW g, NEW e, LoadedSlot(s, g, e) PROVE LoadedSlot(t, g, e)
  <2>1. SameInterfaces(InterfaceNodes(e), s) <=> SameInterfaces(InterfaceNodes(e), t)
      BY SameArray
  <2>2. (t.enabled \/ t.init_module) = (ValueOf(e, "enabled", NULL) = "true")
      BY <1>8 DEF LoadedSlot, SlotHas
  <2> QED BY <1>8, <2>1, <2>2 DEF LoadedSlot, SlotHas
<1>9. AllLoaded(loaded, running_modules) => AllLoaded(loaded, out)
  <2> SUFFICES ASSUME AllLoaded(loaded, running_modules),
                      NEW k \in Places(loaded, "modules"),
                      NEW l \in Places(loaded.kids[k], "module")
               PROVE  \E j \in DOMAIN out :
                         LoadedSlot(out[j], loaded.kids[k], ElementAt(loaded, k, l))
      BY DEF AllLoaded
  <2>1. PICK j \in DOMAIN running_modules :
            LoadedSlot(running_modules[j], loaded.kids[k], ElementAt(loaded, k, l))
      BY DEF AllLoaded
  <2>2. CASE j = i
      BY <1>2, <1>8, <2>1, <2>2
  <2>3. CASE j # i
      BY <1>2, <2>1, <2>3
  <2> QED BY <2>2, <2>3
<1>10. NoOther(loaded, running_modules) => NoOther(loaded, out)
  <2>1. \A j \in DOMAIN out : out[j].remove_module = running_modules[j].remove_module
      BY <1>2
  <2> QED BY <1>2, <1>5, <2>1 DEF NoOther
<1>11. LoadedInv'
    BY <1>1, <1>9, <1>10 DEF DocInv, LoadedInv
<1>12. NamesInv'
  <2>1. \A j \in DOMAIN out : /\ out[j].path = running_modules[j].path
                              /\ out[j].profile = running_modules[j].profile
      BY <1>2
  <2>2. Profiled(out, profiles)
      BY <1>2, <1>5, <2>1 DEF DocInv, NamesInv, Profiled
  <2> QED BY <1>1, <2>2 DEF DocInv, NamesInv
<1> QED BY <1>3, <1>7, <1>11, <1>12 DEF DocInv

(***************************************************************************)
(* The service thread starts a module.                                     *)
(***************************************************************************)
LEMMA StartModuleStep ==
    ASSUME DocInv, NEW i \in DOMAIN running_modules, StartModule(i) PROVE DocInv'
<1> DEFINE s == running_modules[i]
           t == [s EXCEPT !.pid = TRUE, !.running = TRUE]
<1>1. Serve(i, t)
    BY DEF StartModule
<1>2. SlotType(s) /\ DOMAIN s = SlotFields
    BY DEF DocInv, TableInv, SlotType
<1>3. /\ DOMAIN t = SlotFields /\ t.pid = TRUE /\ t.running = TRUE
      /\ t.name = s.name /\ t.profile = s.profile /\ t.path = s.path /\ t.params = s.params
      /\ t.max_restarts = s.max_restarts /\ t.ifces = s.ifces /\ t.ifces_cnt = s.ifces_cnt
      /\ t.remove_module = s.remove_module /\ t.enabled = s.enabled
      /\ t.init_module = s.init_module /\ t.checked = s.checked /\ t.modified = s.modified
    BY <1>2 DEF SlotFields
<1> HIDE DEF t
<1>4. t.pid \in BOOLEAN /\ t.running \in BOOLEAN
    BY <1>3, Zenon
<1>5. \A f \in SlotFlags : t[f] \in BOOLEAN
    BY <1>2, <1>3, <1>4 DEF SlotType, SlotFlags
<1>6. SlotType(t)
    BY <1>2, <1>3, <1>5 DEF SlotType
<1> QED BY <1>1, <1>3, <1>6, ServeStep

(***************************************************************************)
(* The service thread sees a module that it has stopped.                   *)
(***************************************************************************)
LEMMA StopModuleStep ==
    ASSUME DocInv, NEW i \in DOMAIN running_modules, StopModule(i) PROVE DocInv'
<1> DEFINE s == running_modules[i]
           t == [s EXCEPT !.pid = FALSE]
<1>1. Serve(i, t)
    BY DEF StopModule
<1>2. SlotType(s) /\ DOMAIN s = SlotFields
    BY DEF DocInv, TableInv, SlotType
<1>3. /\ DOMAIN t = SlotFields /\ t.pid = FALSE /\ t.running = s.running
      /\ t.name = s.name /\ t.profile = s.profile /\ t.path = s.path /\ t.params = s.params
      /\ t.max_restarts = s.max_restarts /\ t.ifces = s.ifces /\ t.ifces_cnt = s.ifces_cnt
      /\ t.remove_module = s.remove_module /\ t.enabled = s.enabled
      /\ t.init_module = s.init_module /\ t.checked = s.checked /\ t.modified = s.modified
    BY <1>2 DEF SlotFields
<1> HIDE DEF t
<1>4. t.pid \in BOOLEAN
    BY <1>3, Zenon
<1>5. \A f \in SlotFlags : t[f] \in BOOLEAN
    BY <1>2, <1>3, <1>4 DEF SlotType, SlotFlags
<1>6. SlotType(t)
    BY <1>2, <1>3, <1>5 DEF SlotType
<1> QED BY <1>1, <1>3, <1>6, ServeStep

(***************************************************************************)
(* A module that was modified is switched on again.                        *)
(***************************************************************************)
LEMMA RestartModuleStep ==
    ASSUME DocInv, NEW i \in DOMAIN running_modules, RestartModule(i) PROVE DocInv'
<1> DEFINE s == running_modules[i]
           t == [s EXCEPT !.enabled = TRUE, !.init_module = FALSE]
<1>1. Serve(i, t) /\ s.init_module
    BY DEF RestartModule
<1>2. SlotType(s) /\ DOMAIN s = SlotFields
    BY DEF DocInv, TableInv, SlotType
<1>3. /\ DOMAIN t = SlotFields /\ t.pid = s.pid /\ t.running = s.running
      /\ t.name = s.name /\ t.profile = s.profile /\ t.path = s.path /\ t.params = s.params
      /\ t.max_restarts = s.max_restarts /\ t.ifces = s.ifces /\ t.ifces_cnt = s.ifces_cnt
      /\ t.remove_module = s.remove_module /\ t.enabled = TRUE
      /\ t.init_module = FALSE /\ t.checked = s.checked /\ t.modified = s.modified
    BY <1>2 DEF SlotFields
<1> HIDE DEF t
<1>4. t.enabled \in BOOLEAN /\ t.init_module \in BOOLEAN /\ t.enabled
    BY <1>3, Zenon
<1>5. \A f \in SlotFlags : t[f] \in BOOLEAN
    BY <1>2, <1>3, <1>4 DEF SlotType, SlotFlags
<1>6. SlotType(t)
    BY <1>2, <1>3, <1>5 DEF SlotType
<1> QED BY <1>1, <1>3, <1>4, <1>6, ServeStep

(***************************************************************************)
(* The entries behind the one that is removed move up.                     *)
(***************************************************************************)
LEMMA Removed ==
    ASSUME NEW s, s \in Seq(Nodes(s)), NEW i \in DOMAIN s, NEW out, out = RemoveAt(s, i)
    PROVE  /\ out \in Seq(Nodes(out)) /\ DOMAIN out = 1..(Len(s) - 1)
           /\ \A j \in 1..(Len(s) - 1) : out[j] = s[IF j < i THEN j ELSE j + 1]
<1>1. Len(s) \in Nat /\ i \in 1..Len(s) /\ DOMAIN s = 1..Len(s)
    BY ListFacts
<1> DEFINE a == SubSeq(s, 1, i - 1)
           b == SubSeq(s, i + 1, Len(s))
<1>2. /\ a \in Seq(Nodes(s)) /\ Len(a) = i - 1
      /\ \A j \in 1..(i - 1) : a[j] = s[j]
    BY <1>1
<1>3. /\ b \in Seq(Nodes(s)) /\ Len(b) = Len(s) - i
      /\ \A j \in 1..(Len(s) - i) : b[j] = s[i + j]
    BY <1>1
<1>4. out = a \o b
    BY DEF RemoveAt
<1> HIDE DEF a, b
<1>5. out \in Seq(Nodes(s)) /\ Len(out) = Len(s) - 1 /\ DOMAIN out = 1..(Len(s) - 1)
  <2>1. out \in Seq(Nodes(s)) /\ Len(out) = Len(a) + Len(b)
      BY <1>2, <1>3, <1>4
  <2>2. Len(out) = Len(s) - 1
      BY <1>1, <1>2, <1>3, <2>1
  <2> QED BY <2>1, <2>2
<1>6. \A j \in 1..(Len(a) + Len(b)) :
          out[j] = IF j <= Len(a) THEN a[j] ELSE b[j - Len(a)]
  <2> DEFINE S == Nodes(s)
  <2>1. a \in Seq(S) /\ b \in Seq(S)
      BY <1>2, <1>3
  <2> HIDE DEF S
  <2> QED BY <1>4, <2>1
<1>7. ASSUME NEW j \in 1..(Len(s) - 1) PROVE out[j] = s[IF j < i THEN j ELSE j + 1]
  <2>1. CASE j < i
    <3>1. j \in 1..(i - 1) /\ j <= Len(a)
        BY <1>1, <1>2, <2>1
    <3>2. out[j] = a[j]
        BY <1>1, <1>2, <1>3, <1>6, <3>1
    <3> QED BY <1>2, <2>1, <3>1, <3>2
  <2>2. CASE ~(j < i)
    <3>1. j - (i - 1) \in 1..(Len(s) - i) /\ ~(j <= Len(a)) /\ j \in 1..(Len(a) + Len(b))
        BY <1>1, <1>2, <1>3, <2>2
    <3>2. out[j] = b[j - (i - 1)]
        BY <1>2, <1>6, <3>1
    <3>3. b[j - (i - 1)] = s[i + (j - (i - 1))] /\ i + (j - (i - 1)) = j + 1
        BY <1>1, <1>3, <3>1
    <3> QED BY <2>2, <3>2, <3>3
  <2> QED BY <2>1, <2>2
<1>8. out \in Seq(Nodes(out))
    BY <1>5, AnyList
<1> QED BY <1>5, <1>7, <1>8

(***************************************************************************)
(* A module that is not in the document is removed.                        *)
(***************************************************************************)
LEMMA RemoveModuleStep ==
    ASSUME DocInv, NEW i \in DOMAIN running_modules, RemoveModule(i) PROVE DocInv'
<1> DEFINE s == running_modules
           out == RemoveAt(s, i)
           n == Len(s) - 1
           Old(j) == IF j < i THEN j ELSE j + 1
<1>1. /\ running_modules' = out /\ up' = up /\ init_load' = init_load
      /\ profiles' = profiles /\ restarts_config' = restarts_config /\ backup' = backup
      /\ loaded' = loaded /\ gener' = gener /\ gstate' = gstate /\ s[i].remove_module
      /\ before' = before /\ up
    BY DEF RemoveModule, genvars
<1>2. TypeInv' /\ GenerInv' /\ BackupInv'
    BY <1>1 DEF DocInv, TypeInv, GenerInv, Parsed, BackupInv
<1>3. /\ s \in Seq(Nodes(s)) /\ UniqueSlots(s) /\ \A j \in DOMAIN s : SlotType(s[j])
    BY DEF DocInv, TableInv
<1>4. Len(s) \in Nat /\ i \in 1..Len(s) /\ DOMAIN s = 1..Len(s)
    BY <1>3, ListFacts
<1> HIDE DEF out
<1>5. out \in Seq(Nodes(out)) /\ DOMAIN out = 1..n
    BY <1>3, Removed DEF out
<1>6. \A j \in 1..n : out[j] = s[Old(j)]
    BY <1>3, Removed DEF out
<1>7. \A j \in 1..n : Old(j) \in 1..Len(s)
    BY <1>4
<1>8. \A j, k \in 1..n : Old(j) = Old(k) => j = k
    BY <1>4
<1>9. ASSUME NEW j \in 1..Len(s), j # i PROVE \E k \in 1..n : Old(k) = j
  <2>1. CASE j < i
    <3>1. j \in 1..n /\ Old(j) = j
        BY <1>4, <2>1
    <3> QED BY <3>1
  <2>2. CASE ~(j < i)
    <3>1. j - 1 \in 1..n /\ Old(j - 1) = j
        BY <1>4, <1>9, <2>2
    <3> QED BY <3>1
  <2> QED BY <2>1, <2>2
<1> HIDE DEF n, Old
<1>10. TableInv'
  <2>1. \A j \in DOMAIN out : SlotType(out[j])
      BY <1>3, <1>4, <1>5, <1>6, <1>7
  <2>2. UniqueSlots(out)
      BY <1>3, <1>4, <1>5, <1>6, <1>7, <1>8 DEF UniqueSlots
  <2> QED BY <1>1, <1>5, <2>1, <2>2 DEF TableInv
<1>11. AllLoaded(loaded, s) => AllLoaded(loaded, out)
  <2> SUFFICES ASSUME AllLoaded(loaded, s), NEW k \in Places(loaded, "modules"),
                      NEW l \in Places(loaded.kids[k], "module")
               PROVE  \E j \in DOMAIN out :
                         LoadedSlot(out[j], loaded.kids[k], ElementAt(loaded, k, l))
      BY DEF AllLoaded
  <2>1. PICK j \in DOMAIN s : LoadedSlot(s[j], loaded.kids[k], ElementAt(loaded, k, l))
      BY DEF AllLoaded
  <2>2. j # i
      BY <1>1, <2>1 DEF LoadedSlot, SlotHas
  <2>3. PICK m \in 1..n : Old(m) = j
      BY <1>4, <1>9, <2>2
  <2> QED BY <1>5, <1>6, <2>1, <2>3
<1>12. NoOther(loaded, s) => NoOther(loaded, out)
    BY <1>4, <1>5, <1>6, <1>7 DEF NoOther
<1>13. LoadedInv'
    BY <1>1, <1>11, <1>12 DEF DocInv, LoadedInv
<1>14. NamesInv'
  <2>1. Profiled(out, profiles)
      BY <1>4, <1>5, <1>6, <1>7 DEF DocInv, NamesInv, Profiled
  <2> QED BY <1>1, <2>1 DEF DocInv, NamesInv
<1> QED BY <1>2, <1>10, <1>13, <1>14 DEF DocInv

-----------------------------------------------------------------------------
(* The other steps. *)

LEMMA BeginReloadStep ==
    ASSUME DocInv, BeginReload PROVE DocInv'
<1>1. /\ up' = TRUE /\ init_load' = ~up /\ running_modules' = running_modules
      /\ profiles' = profiles /\ restarts_config' = restarts_config /\ backup' = backup
      /\ loaded' = loaded /\ gstate' = "reading" /\ (up \/ backup = NULL)
    BY DEF BeginReload, BeginGenerating
<1>2. TypeInv'
  <2>1. up' \in BOOLEAN /\ init_load' \in BOOLEAN
      BY <1>1, Zenon
  <2> QED BY <1>1, <2>1 DEF DocInv, TypeInv
<1>3. BackupInv'
    BY <1>1 DEF DocInv, BackupInv
<1> QED BY <1>1, <1>2, <1>3 DEF DocInv, TableInv, GenerInv, Parsed, NamesInv, LoadedInv

(***************************************************************************)
(* A step of the generation.                                               *)
(***************************************************************************)
LEMMA GeneratingStep ==
    ASSUME DocInv, GenInv, Generating PROVE DocInv'
<1>1. /\ up' = up /\ init_load' = init_load /\ running_modules' = running_modules
      /\ profiles' = profiles /\ restarts_config' = restarts_config /\ backup' = backup
      /\ loaded' = loaded /\ before' = before /\ generate_config_file
    BY DEF Generating, docvars
<1>2. GenerInv'
  <2>1. CASE FinishGenerating
    <3>1. gener' = IF buffer.alloc THEN text ELSE Unparsable
        BY <2>1 DEF FinishGenerating
    <3> QED BY <3>1 DEF GenInv, TemplateInv, GenerInv, Parsed
  <2>2. CASE ~FinishGenerating
    <3>1. gstate' # "generated"
        BY <1>1, <2>2 DEF generate_config_file, AppendLine, IncludeFile, IncludeNothing,
              OpenDirectory, ReadEntry, CloseDirectory, Reading, Fails, Leaves
    <3> QED BY <3>1 DEF GenerInv, Parsed
  <2> QED BY <2>1, <2>2
<1>3. gstate # "idle"
    BY <1>1 DEF generate_config_file, AppendLine, IncludeFile, IncludeNothing,
          OpenDirectory, ReadEntry, CloseDirectory, FinishGenerating, Reading, Fails, Leaves
<1>4. BackupInv'
    BY <1>1, <1>3 DEF DocInv, BackupInv
<1> QED BY <1>1, <1>2, <1>4 DEF DocInv, TypeInv, TableInv, NamesInv, LoadedInv

(***************************************************************************)
(* The generated file is loaded.                                           *)
(***************************************************************************)
LEMMA EndReloadStep ==
    ASSUME DocInv, GenInv, EndReload PROVE DocInv'
<1>1. /\ init_load' = FALSE /\ up' = up /\ backup' = backup /\ gstate' = "idle"
      /\ gstate # "idle" /\ before' = before
    BY DEF EndReload, EndGenerating
<1>2. /\ TableInv' /\ restarts_config' \in Nat /\ ProfileList(profiles')
      /\ LoadedInv' /\ NamesInv'
  <2>1. CASE Parsed
    <3>1. LoadDocument(Generated, init_load)
        BY <2>1 DEF EndReload
    <3>2. IsDocument(Generated)
        BY <2>1, GeneratedDocument DEF DocInv
    <3> QED BY <3>1, <3>2, LoadStep DEF DocInv, TypeInv
  <2>2. CASE ~Parsed
    <3>1. /\ running_modules' = running_modules /\ profiles' = profiles
          /\ restarts_config' = restarts_config /\ loaded' = loaded
        BY <2>2 DEF EndReload
    <3> QED BY <3>1 DEF DocInv, TypeInv, TableInv, LoadedInv, NamesInv
  <2> QED BY <2>1, <2>2
<1>3. init_load' \in BOOLEAN
    BY <1>1, Zenon
<1>4. BackupInv'
    BY <1>1 DEF DocInv, BackupInv
<1> QED BY <1>1, <1>2, <1>3, <1>4 DEF DocInv, TypeInv, GenerInv, Parsed

(***************************************************************************)
(* The document of a callback is loaded.                                   *)
(***************************************************************************)
LEMMA ReloadNodeStep ==
    ASSUME DocInv, NEW root \in Callbacks, ReloadNode(root) PROVE DocInv'
<1>1. /\ LoadDocument(root, FALSE) /\ up' = up /\ init_load' = init_load /\ backup' = backup
      /\ gstate' = gstate /\ gener' = gener /\ before' = before /\ up
    BY DEF ReloadNode, genvars
<1>2. /\ TableInv' /\ restarts_config' \in Nat /\ ProfileList(profiles')
      /\ LoadedInv' /\ NamesInv'
    BY <1>1, LoadStep, DocumentAssumption
<1> QED BY <1>1, <1>2 DEF DocInv, TypeInv, GenerInv, Parsed, BackupInv

(***************************************************************************)
(* A supervisor starts from the backup.                                    *)
(***************************************************************************)
LEMMA StartFromBackupStep ==
    ASSUME DocInv, StartFromBackup PROVE DocInv'
<1>1. /\ LoadDocument(backup, TRUE) /\ up' = TRUE /\ init_load' = init_load
      /\ backup' = NULL /\ gstate' = gstate /\ gener' = gener
    BY DEF StartFromBackup, genvars
<1>2. /\ TableInv' /\ restarts_config' \in Nat /\ ProfileList(profiles')
      /\ LoadedInv' /\ NamesInv'
  <2>1. backup # NULL => IsDocument(backup)
      BY BackupDocument DEF DocInv, BackupInv, GoodTable
  <2> QED BY <1>1, <2>1, LoadStep
<1>3. up' \in BOOLEAN
    BY <1>1, Zenon
<1> QED BY <1>1, <1>2, <1>3 DEF DocInv, TypeInv, GenerInv, Parsed, BackupInv

(***************************************************************************)
(* The table of a new supervisor.                                          *)
(***************************************************************************)
LEMMA EmptyTable ==
    /\ <<>> \in Seq(Nodes(<<>>)) /\ DOMAIN <<>> = {} /\ UniqueSlots(<<>>)
    /\ ProfileList(<<>>) /\ ProfileNames(<<>>) /\ Profiled(<<>>, <<>>)
BY DEF Nodes, UniqueSlots, ProfileList, ProfileNames, Profiled

(***************************************************************************)
(* The supervisor ends.                                                    *)
(***************************************************************************)
LEMMA StopStep ==
    ASSUME DocInv, Stop PROVE DocInv'
<1>1. /\ up' = FALSE /\ init_load' = init_load /\ running_modules' = <<>>
      /\ profiles' = <<>> /\ restarts_config' = DefaultRestarts /\ loaded' = NULL
      /\ gstate' = gstate /\ gener' = gener
      /\ \/ backup' = generate_backup_config_file(running_modules, profiles)
         \/ backup' = backup
      /\ before' = running_modules /\ up /\ gstate = "idle"
    BY DEF Stop, genvars
<1>2. TableInv' /\ LoadedInv' /\ GenerInv' /\ NamesInv'
    BY <1>1, EmptyTable DEF TableInv, LoadedInv, DocInv, GenerInv, Parsed, NamesInv
<1>3. up' \in BOOLEAN
    BY <1>1, Zenon
<1>4. TypeInv'
    BY <1>1, <1>3, EmptyTable, DocumentAssumption DEF DocInv, TypeInv
<1>5. BackupInv'
  <2>1. GoodTable(running_modules, profiles)
      BY DEF DocInv, TypeInv, TableInv, NamesInv, GoodTable, SlotList
  <2>2. backup = NULL
      BY <1>1 DEF DocInv, BackupInv
  <2>3. ASSUME backup' # NULL
        PROVE  \E list : /\ GoodTable(before', list)
                         /\ backup' = generate_backup_config_file(before', list)
      BY <1>1, <2>1, <2>2, <2>3
  <2> QED BY <1>1, <2>3 DEF BackupInv
<1> QED BY <1>2, <1>4, <1>5 DEF DocInv

(***************************************************************************)
(* The invariant holds before the first start.                             *)
(***************************************************************************)
LEMMA DocInitInv == DocInit => DocInv
<1> SUFFICES ASSUME DocInit PROVE DocInv
    OBVIOUS
<1>1. /\ up = FALSE /\ init_load = FALSE /\ running_modules = <<>> /\ profiles = <<>>
      /\ restarts_config = DefaultRestarts /\ backup = NULL /\ loaded = NULL
      /\ gstate = "idle"
    BY DEF DocInit, NewTable, GenInit
<1>2. up \in BOOLEAN /\ init_load \in BOOLEAN
    BY <1>1, Zenon
<1> QED BY <1>1, <1>2, EmptyTable, DocumentAssumption
        DEF DocInv, TypeInv, TableInv, GenerInv, Parsed, NamesInv, BackupInv, LoadedInv

(***************************************************************************)
(* Every step keeps it.                                                    *)
(***************************************************************************)
LEMMA DocStep ==
    ASSUME DocInv, GenInv, DocNext \/ UNCHANGED allvars PROVE DocInv'
<1>1. CASE UNCHANGED allvars
    BY <1>1 DEF allvars, docvars, genvars, DocInv, TypeInv, TableInv, GenerInv, Parsed,
                NamesInv, BackupInv, LoadedInv
<1>2. CASE \E i \in DOMAIN running_modules :
              StartModule(i) \/ StopModule(i) \/ RestartModule(i) \/ RemoveModule(i)
    BY <1>2, StartModuleStep, StopModuleStep, RestartModuleStep, RemoveModuleStep
<1> QED BY <1>1, <1>2, BeginReloadStep, GeneratingStep, EndReloadStep, ReloadNodeStep,
           StopStep, StartFromBackupStep
        DEF DocNext

(***************************************************************************)
(* The invariant of the supervisor's configuration.                        *)
(***************************************************************************)
LEMMA DocInvariance == DocSpec => []DocInv
<1>1. DocSpec => []GenInv
    BY DocumentGenerates, GenInvariance, PTL
<1>2. DocInv /\ GenInv /\ [DocNext]_allvars => DocInv'
    BY DocStep
<1> QED BY <1>1, <1>2, DocInitInv, PTL DEF DocSpec

-----------------------------------------------------------------------------
(* The theorems. *)

(***************************************************************************)
(* After every reload, start, termination and step of the service thread   *)
(* the arrays of interfaces have room for what is in them, and the entries *)
(* behind the last one are zeroed (reload_check_module_allocated_          *)
(* interfaces, free_module_interfaces_on_index).                           *)
(***************************************************************************)
THEOREM DocumentTypes == DocSpec => []DocTypeOK
<1>1. DocInv => DocTypeOK
  <2> SUFFICES ASSUME DocInv PROVE DocTypeOK
      OBVIOUS
  <2>1. ASSUME NEW s, SlotType(s) PROVE SlotOK(s)
    <3>1. Len(s.ifces) \in Nat /\ DOMAIN s.ifces = 1..Len(s.ifces)
        BY <2>1, ListFacts DEF SlotType, IfcArray
    <3>2. \A i \in DOMAIN s.ifces :
              DOMAIN s.ifces[i] = IfcAttributes /\ (i > s.ifces_cnt => s.ifces[i] = NoIfc)
      <4>1. ASSUME NEW ifc, IfcType(ifc) PROVE DOMAIN ifc = IfcAttributes
          BY <4>1 DEF IfcType
      <4>2. IfcArray(s.ifces, s.ifces_cnt)
          BY <2>1 DEF SlotType
      <4> QED BY <3>1, <4>1, <4>2 DEF IfcArray
    <3>3. \A f \in SlotFlags : s[f] \in BOOLEAN
        BY <2>1 DEF SlotType
    <3> QED BY <2>1, <3>2, <3>3 DEF SlotOK, SlotType, IfcArray, SlotFlags
  <2>2. \A s \in Range(running_modules) : SlotOK(s)
      BY <2>1 DEF DocInv, TableInv, Range
  <2>3. \A p \in Range(profiles) : p.enabled \in BOOLEAN
      BY DEF DocInv, TypeInv, ProfileList, Range, Nodes
  <2> QED BY <2>2, <2>3 DEF DocTypeOK, DocInv, TypeInv
<1> QED BY <1>1, DocInvariance, PTL

-----------------------------------------------------------------------------
(* What was loaded last. *)

\* The elements of the modules are where the places say.
LEMMA ElementPlace ==
    ASSUME NEW root, NEW e \in ModuleElements(root)
    PROVE  \E k \in Places(root, "modules") : \E l \in Places(root.kids[k], "module") :
               e = ElementAt(root, k, l)
BY DEF ModuleElements, Children, ElementAt

(***************************************************************************)
(* The table is read as the property reads it.                             *)
(***************************************************************************)
LEMMA LoadedAsGiven ==
    ASSUME DocInv PROVE LoadsGivenValues
<1> SUFFICES ASSUME loaded # NULL PROVE LoadsGivenValues
    BY DEF LoadsGivenValues
<1>1. /\ AllLoaded(loaded, running_modules) /\ NoOther(loaded, running_modules)
      /\ LimitLoaded(loaded, restarts_config) /\ UniqueSlots(running_modules)
    BY DEF DocInv, LoadedInv, TableInv
<1>2. EveryModule(loaded, SlotHas)
  <2> SUFFICES ASSUME NEW g \in Children(loaded, "modules"), NEW e \in Children(g, "module")
               PROVE  \E i \in DOMAIN running_modules :
                          /\ running_modules[i].name = Name(e)
                          /\ running_modules[i].profile = Name(g)
                          /\ SlotHas(running_modules[i], e)
      BY DEF EveryModule
  <2>1. PICK k \in Places(loaded, "modules") : g = loaded.kids[k]
      BY DEF Children
  <2>2. PICK l \in Places(g, "module") : e = g.kids[l]
      BY DEF Children
  <2>3. e = ElementAt(loaded, k, l)
      BY <2>1, <2>2 DEF ElementAt
  <2> QED BY <1>1, <2>1, <2>2, <2>3 DEF AllLoaded, LoadedSlot
<1> QED BY <1>1, <1>2 DEF LoadsGivenValues, NoOther, UniqueSlots, LimitLoaded

(***************************************************************************)
(* The document that is loaded changes nothing.                            *)
(***************************************************************************)
LEMMA LoadedSettled ==
    ASSUME DocInv, loaded # NULL, \A e \in ModuleElements(loaded) : LaidOutModule(e),
           NEW i \in DOMAIN running_modules
    PROVE  SettledIn(loaded, running_modules[i])
<1>1. AllLoaded(loaded, running_modules) /\ UniqueSlots(running_modules)
    BY DEF DocInv, LoadedInv, TableInv
<1>2. ASSUME NEW e \in ModuleElements(loaded), running_modules[i].name = Name(e)
      PROVE  Settled(running_modules[i], e)
  <2>1. PICK k \in Places(loaded, "modules") : \E l \in Places(loaded.kids[k], "module") :
            e = ElementAt(loaded, k, l)
      BY ElementPlace
  <2>2. PICK l \in Places(loaded.kids[k], "module") : e = ElementAt(loaded, k, l)
      BY <2>1
  <2>3. LaidOutModule(e)
      BY <1>2
  <2>4. PICK j \in DOMAIN running_modules : LoadedSlot(running_modules[j], loaded.kids[k], e)
      BY <1>1, <2>2 DEF AllLoaded
  <2>5. j = i
      BY <1>1, <1>2, <2>4 DEF LoadedSlot, UniqueSlots
  <2> QED BY <2>3, <2>4, <2>5 DEF LoadedSlot, SlotHas, Settled
<1> QED BY <1>2 DEF SettledIn

(***************************************************************************)
(* So the reload of it modifies nothing.                                   *)
(***************************************************************************)
LEMMA LoadedAgain ==
    ASSUME DocInv, loaded # NULL, \A e \in ModuleElements(loaded) : LaidOutModule(e),
           NEW init \in BOOLEAN, LoadDocument(loaded, init)
    PROVE  \A s \in Range(running_modules') : ~s.modified
<1>1. /\ IsDocument(loaded) /\ validate_configuration(loaded) /\ TableInv
      /\ restarts_config \in Nat
    BY DEF DocInv, LoadedInv, TypeInv
<1>2. ApplyDocument(loaded, init)
    BY <1>1 DEF LoadDocument
<1>3. /\ \A i \in DOMAIN running_modules : SettledIn(loaded, running_modules[i])
      /\ "quiet" # "start"
    BY LoadedSettled
<1>4. \A i \in DOMAIN running_modules' : ~running_modules'[i].modified
    BY <1>1, <1>2, <1>3, DocumentLoaded
<1> QED BY <1>4 DEF Range

-----------------------------------------------------------------------------
(* What a start from a backup restores. *)

\* The slot t has what the element e below g gives, and nothing else.
MadeFrom(t, g, e) ==
    /\ t.name = Name(e) /\ t.profile = Name(g)
    /\ t.path = ValueOf(e, "path", NULL) /\ t.params = ValueOf(e, "params", NULL)
    /\ t.enabled <=> ValueOf(e, "enabled", NULL) = "true"
    /\ e.val \in BOOLEAN => t.pid = e.val /\ (e.val => t.running)
    /\ t.max_restarts = ValueOf(e, "module-restarts", -1) /\ ~t.init_module
    /\ ExactInterfaces(InterfaceNodes(e), t)

(***************************************************************************)
(* The slot that the start makes of an element.                            *)
(***************************************************************************)
LEMMA NewSlotFacts ==
    ASSUME NEW g, NEW e, ModuleElement(e), NEW t, t = Concluded(NewSlot(g, e), TRUE)
    PROVE  MadeFrom(t, g, e)
<1> DEFINE s == FreshSlot(Name(e))
           u == NewSlot(g, e)
<1>1. /\ WorkSlot(s) /\ ~s.checked /\ s.ifces_cnt = 0 /\ s.name = Name(e)
      /\ s.path = NULL /\ s.params = NULL
    BY Fresh
<1>2. u = ProcessModule(e, s, TRUE, Name(g), TRUE)
    BY DEF NewSlot
<1> HIDE DEF s
<1>3. PICK yes \in BOOLEAN : yes = TRUE
    OBVIOUS
<1> DEFINE w == ProcessModule(e, s, yes, Name(g), yes)
<1>4. /\ WorkSlot(w) /\ w.checked /\ w.name = s.name /\ w.profile = Name(g)
      /\ Holds(w, e) /\ ~w.modified
      /\ w.path = ValueOf(e, "path", s.path) /\ w.params = ValueOf(e, "params", s.params)
      /\ w.pid = (IF yes /\ e.val # NULL THEN e.val ELSE s.pid)
      /\ ExactInterfaces(InterfaceNodes(e), w)
  <2>1. /\ WorkSlot(w) /\ w.checked /\ w.name = s.name /\ w.profile = Name(g)
        /\ Holds(w, e) /\ (yes \/ Settled(s, e) => ~w.modified)
        /\ w.path = ValueOf(e, "path", s.path) /\ w.params = ValueOf(e, "params", s.params)
        /\ w.pid = (IF yes /\ e.val # NULL THEN e.val ELSE s.pid)
        /\ yes => ExactInterfaces(InterfaceNodes(e), w)
      BY <1>1, ModuleProcessed
  <2> HIDE DEF w
  <2> QED BY <1>3, <2>1
<1>5. u = w
    BY <1>2, <1>3
<1> HIDE DEF u, w
<1>6. DOMAIN u = SlotFields /\ u.enabled \in BOOLEAN
    BY <1>4, <1>5 DEF WorkSlot, SlotType, SlotFlags
<1>7. /\ t.name = u.name /\ t.profile = u.profile /\ t.path = u.path /\ t.params = u.params
      /\ t.pid = u.pid /\ t.ifces = u.ifces /\ t.ifces_cnt = u.ifces_cnt
      /\ t.enabled <=> u.enabled
      /\ u.pid => t.running
    BY <1>4, <1>5, <1>6 DEF Concluded, SlotFields, u
<1>8. e.val \in BOOLEAN => u.pid = e.val
    BY <1>3, <1>4, <1>5, DocumentAssumption
<1>9. ExactInterfaces(InterfaceNodes(e), t)
    BY <1>4, <1>5, <1>7 DEF ExactInterfaces
<1>10. u.enabled = (ValueOf(e, "enabled", NULL) = "true")
    BY <1>4, <1>5 DEF Holds
<1>11. t.max_restarts = ValueOf(e, "module-restarts", -1)
  <2>1. t.max_restarts = u.max_restarts
      BY <1>2, <1>6 DEF Concluded, SlotFields, u
  <2> QED BY <1>4, <1>5, <2>1 DEF Holds
<1>12. ~t.init_module
  <2>1. t.init_module = (u.modified /\ u.running /\ u.enabled /\ u.checked)
      BY <1>6 DEF Concluded, SlotFields, u
  <2> QED BY <1>4, <1>5, <2>1
<1> QED BY <1>1, <1>4, <1>5, <1>7, <1>8, <1>9, <1>10, <1>11, <1>12 DEF MadeFrom

(***************************************************************************)
(* The slot of a module in the backup is what it was.                      *)
(***************************************************************************)
LEMMA SlotRestored ==
    ASSUME NEW b, SlotType(b), b.name # NULL, b.path # NULL, Writable(b),
           NEW g, Name(g) = b.profile, NEW e, e = SavedModule(b),
           NEW t, t = Concluded(NewSlot(g, e), TRUE), t.enabled \in BOOLEAN
    PROVE  Carried(b, t)
<1>1. /\ ModuleElement(e) /\ e.val = b.pid /\ Name(e) = b.name
      /\ ValueOf(e, "path", NULL) = b.path /\ ValueOf(e, "params", NULL) = b.params
      /\ (ValueOf(e, "enabled", NULL) = "true") = b.enabled
      /\ InterfaceNodes(e) = Indented(SavedInterfaces(b))
    BY SavedModuleFacts
<1>2. b.pid \in BOOLEAN /\ b.enabled \in BOOLEAN
    BY DEF SlotType, SlotFlags
<1>3. /\ t.name = b.name /\ t.profile = b.profile /\ t.path = b.path
      /\ t.params = b.params /\ (t.enabled <=> b.enabled)
      /\ t.pid = b.pid /\ (b.pid => t.running)
      /\ ExactInterfaces(Indented(SavedInterfaces(b)), t)
  <2>1. MadeFrom(t, g, e)
      BY <1>1, NewSlotFacts
  <2> QED BY <1>1, <1>2, <2>1 DEF MadeFrom
<1>4. t.enabled = b.enabled
    BY <1>2, <1>3
<1>5. t.ifces_cnt = b.ifces_cnt /\ \A i \in 1..b.ifces_cnt : t.ifces[i] = b.ifces[i]
  <2>1. ExactInterfaces(Indented(SavedInterfaces(b)), t)
      BY <1>3
  <2> QED BY <2>1, InterfacesRestored
<1> QED BY <1>3, <1>4, <1>5 DEF Carried

(***************************************************************************)
(* The first document of a supervisor.                                     *)
(***************************************************************************)
LEMMA StartLoaded ==
    ASSUME TableInv, restarts_config \in Nat, NEW root, IsDocument(root),
           validate_configuration(root), ApplyDocument(root, TRUE), running_modules = <<>>,
           restarts_config = DefaultRestarts
    PROVE  /\ TableInv' /\ AllLoaded(root, running_modules') /\ AllStarted(root, running_modules')
           /\ Places(root, "supervisor") = {} => restarts_config' = DefaultRestarts
<1>1. PICK yes \in BOOLEAN : yes = TRUE
    OBVIOUS
<1>2. PICK mode : mode = "start"
    OBVIOUS
<1>3. ApplyDocument(root, yes)
    BY <1>1
<1>4. mode = "start" => yes /\ running_modules = <<>> /\ restarts_config = DefaultRestarts
    BY <1>1
<1>5. mode = "quiet" => \A i \in DOMAIN running_modules : SettledIn(root, running_modules[i])
    BY <1>2
<1>6. /\ TableInv' /\ AllLoaded(root, running_modules')
      /\ LimitLeft(root, mode, restarts_config')
      /\ mode = "start" => AllStarted(root, running_modules')
    BY <1>3, <1>4, <1>5, DocumentLoaded
<1> QED BY <1>2, <1>6 DEF LimitLeft

\* A backup, the table and the profiles that it was made from.
BackupOf(root, modules, list) ==
    GoodTable(modules, list) /\ root = generate_backup_config_file(modules, list)

(***************************************************************************)
(* The elements of the modules in it.                                      *)
(***************************************************************************)
LEMMA BackupElement ==
    ASSUME NEW root, NEW modules, NEW list, BackupOf(root, modules, list),
           NEW k \in Places(root, "modules"), NEW l \in Places(root.kids[k], "module")
    PROVE  \E b \in Nodes(modules) : b.profile # NULL /\ ElementAt(root, k, l) = SavedModule(b)
<1>1. /\ SlotList(modules) /\ ProfileList(list) /\ ProfileNames(list)
      /\ HasProfiles(root, modules, list)
    BY BackupDocument DEF BackupOf, GoodTable
<1>2. PICK i \in DOMAIN list : root.kids[k] = SavedProfile(modules, list[i])
    BY <1>1 DEF HasProfiles
<1>3. list[i].enabled \in BOOLEAN /\ list[i].name # NULL
    BY <1>1 DEF ProfileList, Nodes, ProfileNames
<1>4. HasModules(root.kids[k], modules, list[i])
    BY <1>1, <1>2, <1>3, SavedProfileFacts
<1> QED BY <1>3, <1>4 DEF HasModules, ElementAt

(***************************************************************************)
(* The element of a module that was not being removed.                     *)
(***************************************************************************)
LEMMA ElementOf ==
    ASSUME NEW root, NEW modules, NEW list, BackupOf(root, modules, list),
           NEW b \in Range(modules), b.profile # NULL
    PROVE  /\ SlotType(b) /\ b.name # NULL /\ b.path # NULL
           /\ \E k \in Places(root, "modules") : \E l \in Places(root.kids[k], "module") :
                 Name(root.kids[k]) = b.profile /\ ElementAt(root, k, l) = SavedModule(b)
<1>1. /\ SlotList(modules) /\ ProfileList(list) /\ Profiled(modules, list)
      /\ HasProfiles(root, modules, list)
    BY BackupDocument DEF BackupOf, GoodTable
<1>2. PICK m \in DOMAIN modules : modules[m] = b
    BY DEF Range
<1>3. /\ SlotType(b) /\ b.name # NULL /\ b.path # NULL /\ b \in Nodes(modules)
    BY <1>1, <1>2 DEF SlotList, Profiled, Nodes
<1>4. PICK i \in DOMAIN list : list[i].name = b.profile
    BY <1>1, <1>2 DEF Profiled
<1> DEFINE k == 2 * i
           g == root.kids[k]
<1>5. k \in Places(root, "modules") /\ g = SavedProfile(modules, list[i])
    BY <1>1 DEF HasProfiles
<1> HIDE DEF k, g
<1>6. HasModules(g, modules, list[i]) /\ Name(g) = list[i].name
  <2>1. list[i].enabled \in BOOLEAN
      BY <1>1 DEF ProfileList, Nodes
  <2> QED BY <1>1, <1>5, <2>1, SavedProfileFacts
<1>7. PICK l \in Places(g, "module") : g.kids[l] = SavedModule(b)
    BY <1>3, <1>4, <1>6 DEF HasModules
<1>8. /\ l \in Places(root.kids[k], "module") /\ Name(root.kids[k]) = b.profile
      /\ ElementAt(root, k, l) = SavedModule(b)
    BY <1>4, <1>6, <1>7 DEF ElementAt, g
<1> QED BY <1>3, <1>5, <1>8

(***************************************************************************)
(* An interface without attributes makes the backup invalid.               *)
(***************************************************************************)
LEMMA EmptyInterface ==
    ASSUME NEW b, SlotType(b), NEW i \in 1..b.ifces_cnt, b.ifces[i] = NoIfc,
           NEW e, e = SavedModule(b)
    PROVE  ~ModuleElement(e)
<1> DEFINE ifces == SavedInterfaces(b)
           trap == Element("trapinterfaces", Indented(ifces))
           tags == <<"note", "params", "direction", "type">>
           given == GivenLeaves(tags, NoIfc)
           kept == Kept(tags, {t \in DOMAIN NoIfc : NoIfc[t] # NULL})
<1>1. ifces \in Seq(Nodes(ifces)) /\ DOMAIN ifces = 1..b.ifces_cnt /\ b.ifces_cnt \in Nat
    BY SavedInterfacesFacts
<1>2. trap \in Children(e, "trapinterfaces")
  <2>1. b.ifces_cnt # 0
      BY <1>1
  <2> QED BY <2>1, SavedModuleFacts
<1>3. kept = <<>>
  <2>1. {t \in DOMAIN NoIfc : NoIfc[t] # NULL} = {}
      BY DEF NoIfc
  <2>2. tags \in Seq(Nodes(tags))
      BY DEF Nodes
  <2> HIDE DEF tags
  <2>3. kept \in Seq(Nodes(kept)) /\ Nodes(kept) = {}
      BY <2>1, <2>2, KeptList
  <2> HIDE DEF kept
  <2>4. kept \in Seq({})
      BY <2>3
  <2> QED BY <2>4
<1>4. given = <<>>
  <2>1. given = [j \in DOMAIN kept |-> Leaf(kept[j], NoIfc[kept[j]])]
      BY DEF GivenLeaves
  <2> HIDE DEF given, kept
  <2> QED BY <1>3, <2>1
<1>5. ifces[i].tag = "interface" /\ ifces[i].kids = <<>>
  <2>1. ifces[i] = Element("interface", Indented(given))
      BY DEF SavedInterfaces, SavedInterface
  <2> HIDE DEF given, ifces
  <2> QED BY <1>4, <2>1 DEF Element, Indented
<1>6. trap.kids = Indented(ifces)
    BY DEF Element
<1> HIDE DEF ifces, trap
<1>7. EvenPlaces(ifces, trap, "interface")
    BY <1>1, <1>6, IndentedPlaces
<1>8. ifces[i] \in Children(trap, "interface")
  <2>1. 2 * i \in Places(trap, "interface") /\ trap.kids[2 * i] = ifces[i]
      BY <1>1, <1>5, <1>7 DEF EvenPlaces
  <2> QED BY <2>1 DEF Children
<1>9. ~check_trapinterfaces(trap)
    BY <1>5, <1>8 DEF check_trapinterfaces
<1> QED BY <1>2, <1>9 DEF ModuleElement

(***************************************************************************)
(* A start from a backup that passes the validation.                       *)
(***************************************************************************)
LEMMA BackupStarted ==
    ASSUME DocInv, StartFromBackup, validate_configuration(backup),
           NEW list, BackupOf(backup, before, list)
    PROVE  /\ TableInv' /\ restarts_config' = DefaultRestarts /\ IsDocument(backup)
           /\ AllLoaded(backup, running_modules') /\ AllStarted(backup, running_modules')
<1>1. ~up /\ LoadDocument(backup, TRUE)
    BY DEF StartFromBackup
<1>2. ApplyDocument(backup, TRUE)
    BY <1>1 DEF LoadDocument
<1>3. /\ running_modules = <<>> /\ restarts_config = DefaultRestarts
      /\ TableInv /\ restarts_config \in Nat
    BY <1>1 DEF DocInv, BackupInv, TypeInv
<1>4. IsDocument(backup) /\ \A g \in Nodes(backup.kids) : g.tag \in {"modules", "text"}
    BY BackupDocument DEF BackupOf, GoodTable
<1>5. Places(backup, "supervisor") = {}
    BY <1>4 DEF Places, Nodes
<1> QED BY <1>2, <1>3, <1>4, <1>5, StartLoaded

(***************************************************************************)
(* Every slot of the new table is that of a module in the backup.          *)
(***************************************************************************)
LEMMA SlotStarted ==
    ASSUME DocInv, StartFromBackup, validate_configuration(backup),
           NEW list, BackupOf(backup, before, list), NEW i \in DOMAIN running_modules'
    PROVE  \E k \in Places(backup, "modules") : \E l \in Places(backup.kids[k], "module") :
               /\ running_modules'[i] =
                     Concluded(NewSlot(backup.kids[k], ElementAt(backup, k, l)), TRUE)
               /\ MadeFrom(running_modules'[i], backup.kids[k], ElementAt(backup, k, l))
<1>1. AllStarted(backup, running_modules') /\ IsDocument(backup)
    BY BackupStarted
<1>2. PICK k \in Places(backup, "modules") : \E l \in Places(backup.kids[k], "module") :
          running_modules'[i] = Concluded(NewSlot(backup.kids[k], ElementAt(backup, k, l)), TRUE)
    BY <1>1 DEF AllStarted
<1>3. PICK l \in Places(backup.kids[k], "module") :
          running_modules'[i] = Concluded(NewSlot(backup.kids[k], ElementAt(backup, k, l)), TRUE)
    BY <1>2
<1>4. ModuleElement(ElementAt(backup, k, l))
    BY <1>1, Validated
<1> QED BY <1>3, <1>4, NewSlotFacts

(***************************************************************************)
(* So there is no other module, and no limit and no pending restart.       *)
(***************************************************************************)
LEMMA NothingElse ==
    ASSUME DocInv, StartFromBackup, validate_configuration(backup),
           NEW list, BackupOf(backup, before, list), NEW i \in DOMAIN running_modules'
    PROVE  /\ Forgotten(running_modules'[i])
           /\ \E b \in Range(before) : b.profile # NULL /\ b.name = running_modules'[i].name
<1>1. PICK k \in Places(backup, "modules") : \E l \in Places(backup.kids[k], "module") :
          MadeFrom(running_modules'[i], backup.kids[k], ElementAt(backup, k, l))
    BY SlotStarted
<1>2. PICK l \in Places(backup.kids[k], "module") :
          MadeFrom(running_modules'[i], backup.kids[k], ElementAt(backup, k, l))
    BY <1>1
<1>3. PICK b \in Nodes(before) : b.profile # NULL /\ ElementAt(backup, k, l) = SavedModule(b)
    BY BackupElement
<1>4. SlotType(b) /\ b \in Range(before)
    BY DEF BackupOf, GoodTable, SlotList, Nodes, Range
<1>5. ~Has(ElementAt(backup, k, l), "module-restarts") /\ Name(ElementAt(backup, k, l)) = b.name
    BY <1>3, <1>4, SavedModuleFacts
<1> QED BY <1>2, <1>3, <1>4, <1>5 DEF MadeFrom, Forgotten, ValueOf

(***************************************************************************)
(* A module of the table that was written is restored.                     *)
(***************************************************************************)
LEMMA SlotCarried ==
    ASSUME DocInv, StartFromBackup, validate_configuration(backup),
           NEW list, BackupOf(backup, before, list), Saveable(before),
           NEW b \in Range(before), b.profile # NULL
    PROVE  \E s \in Range(running_modules') : Carried(b, s)
<1>1. /\ TableInv' /\ AllLoaded(backup, running_modules')
    BY BackupStarted
<1>2. SlotType(b) /\ b.name # NULL /\ b.path # NULL
    BY ElementOf
<1>3. Writable(b)
    BY DEF Saveable, Writable
<1>4. PICK k \in Places(backup, "modules") : \E l \in Places(backup.kids[k], "module") :
          Name(backup.kids[k]) = b.profile /\ ElementAt(backup, k, l) = SavedModule(b)
    BY ElementOf
<1>5. PICK l \in Places(backup.kids[k], "module") :
          Name(backup.kids[k]) = b.profile /\ ElementAt(backup, k, l) = SavedModule(b)
    BY <1>4
<1>6. PICK n \in DOMAIN running_modules' : running_modules'[n].name = Name(ElementAt(backup, k, l))
    BY <1>1 DEF AllLoaded, LoadedSlot
<1>7. PICK p \in Places(backup, "modules") : \E q \in Places(backup.kids[p], "module") :
          /\ running_modules'[n] =
                Concluded(NewSlot(backup.kids[p], ElementAt(backup, p, q)), TRUE)
          /\ MadeFrom(running_modules'[n], backup.kids[p], ElementAt(backup, p, q))
    BY SlotStarted
<1>8. PICK q \in Places(backup.kids[p], "module") :
          /\ running_modules'[n] =
                Concluded(NewSlot(backup.kids[p], ElementAt(backup, p, q)), TRUE)
          /\ MadeFrom(running_modules'[n], backup.kids[p], ElementAt(backup, p, q))
    BY <1>7
<1>9. p = k /\ q = l
  <2>1. UniqueModules(backup)
      BY DEF validate_configuration
  <2>2. Name(backup.kids[p].kids[q]) = Name(backup.kids[k].kids[l])
      BY <1>6, <1>8 DEF ElementAt, MadeFrom
  <2> QED BY <2>1, <2>2 DEF UniqueModules
<1>10. running_modules'[n].enabled \in BOOLEAN
    BY <1>1 DEF TableInv, SlotType, SlotFlags
<1>11. Carried(b, running_modules'[n])
    BY <1>2, <1>3, <1>5, <1>8, <1>9, <1>10, SlotRestored
<1> QED BY <1>11 DEF Range

(***************************************************************************)
(* A table that cannot be written leaves nothing.                          *)
(***************************************************************************)
LEMMA NothingCarried ==
    ASSUME DocInv, StartFromBackup, validate_configuration(backup),
           NEW list, BackupOf(backup, before, list), ~Saveable(before)
    PROVE  running_modules' = <<>>
<1>1. TableInv' /\ IsDocument(backup)
    BY BackupStarted
<1>2. ASSUME NEW b \in Range(before), b.profile # NULL, NEW i \in 1..b.ifces_cnt,
             b.ifces[i] = NoIfc
      PROVE  FALSE
  <2>1. PICK k \in Places(backup, "modules") : \E l \in Places(backup.kids[k], "module") :
            ElementAt(backup, k, l) = SavedModule(b)
      BY <1>2, ElementOf
  <2>2. PICK l \in Places(backup.kids[k], "module") : ElementAt(backup, k, l) = SavedModule(b)
      BY <2>1
  <2>3. ModuleElement(SavedModule(b))
      BY <1>1, <2>2, Validated
  <2>4. SlotType(b)
      BY <1>2, ElementOf
  <2> QED BY <1>2, <2>3, <2>4, EmptyInterface
<1>3. \A b \in Range(before) : b.profile = NULL
    BY <1>2 DEF Saveable
<1>4. DOMAIN running_modules' = {}
    BY <1>3, NothingElse
<1>5. running_modules' \in Seq(Nodes(running_modules'))
    BY <1>1 DEF TableInv
<1> QED BY <1>4, <1>5

-----------------------------------------------------------------------------

(***************************************************************************)
(* A document that passed the validation is applied as a whole, whatever   *)
(* its layout (reload_find_and_check_module_basic_elements passes over no  *)
(* module): after every reload every module of the document is in the      *)
(* table below its profile with every value that the document gives, what  *)
(* else is there is about to be removed, and the common limit is the one   *)
(* given.  Of values that are left out nothing is claimed: an update keeps *)
(* the old ones (LoadsDocument is violated).                               *)
(***************************************************************************)
THEOREM GivenValuesLoaded == DocSpec => []LoadsGivenValues
<1>1. DocInv => LoadsGivenValues
    BY LoadedAsGiven
<1> QED BY <1>1, DocInvariance, PTL

(***************************************************************************)
(* A reload of the document that is loaded modifies, and so restarts, no   *)
(* module (reload_configuration), if none of its elements begins with an   *)
(* interface, which the last reload may have lost.                         *)
(***************************************************************************)
THEOREM ReloadsIdempotent == DocSpec => ReloadIsIdempotent
<1> DEFINE Again == /\ loaded # NULL
                    /\ \/ EndReload /\ Parsed /\ Generated = loaded
                       \/ ReloadNode(loaded)
                    /\ \A e \in ModuleElements(loaded) : LaidOutModule(e)
           Unmodified == \A s \in Range(running_modules') : ~s.modified
<1>1. ASSUME DocInv, Again PROVE Unmodified
  <2>1. \E init \in BOOLEAN : LoadDocument(loaded, init)
    <3>1. init_load \in BOOLEAN /\ FALSE \in BOOLEAN
        BY <1>1 DEF DocInv, TypeInv
    <3> QED BY <1>1, <3>1 DEF EndReload, ReloadNode
  <2> QED BY <1>1, <2>1, LoadedAgain
<1>2. DocInv /\ [DocNext]_allvars => [Again => Unmodified]_allvars
    BY <1>1
<1> HIDE DEF Again, Unmodified
<1>3. DocSpec => [][Again => Unmodified]_allvars
    BY <1>2, DocInvariance, PTL DEF DocSpec
<1> QED BY <1>3 DEF ReloadIsIdempotent, Again, Unmodified

(***************************************************************************)
(* What a backup brings over from one supervisor to the next, whatever the *)
(* documents were that made the predecessor's table                        *)
(* (generate_backup_config_file, supervisor_initialization): every module  *)
(* that was not being removed and no other, with its values, interfaces    *)
(* and profile and its process; but no limit and no pending restart, and   *)
(* nothing at all if the table cannot be written as a valid document.      *)
(***************************************************************************)
THEOREM BackupsRestored == DocSpec => BackupRestores
<1> DEFINE Restores ==
        /\ restarts_config' = DefaultRestarts
        /\ IF Saveable(before)
           THEN /\ \A b \in Range(before) : b.profile # NULL =>
                       \E s \in Range(running_modules') : Carried(b, s)
                /\ \A s \in Range(running_modules') :
                       /\ Forgotten(s)
                       /\ \E b \in Range(before) : b.profile # NULL /\ b.name = s.name
           ELSE running_modules' = <<>>
<1>1. ASSUME DocInv, StartFromBackup PROVE Restores
  <2>1. ~up /\ backup # NULL /\ LoadDocument(backup, TRUE)
      BY <1>1 DEF StartFromBackup
  <2>2. PICK list : BackupOf(backup, before, list)
      BY <1>1, <2>1 DEF DocInv, BackupInv, BackupOf
  <2>3. CASE validate_configuration(backup)
    <3>1. restarts_config' = DefaultRestarts
        BY <1>1, <2>2, <2>3, BackupStarted
    <3>2. ASSUME Saveable(before), NEW b \in Range(before), b.profile # NULL
          PROVE  \E s \in Range(running_modules') : Carried(b, s)
        BY <1>1, <2>2, <2>3, <3>2, SlotCarried
    <3>3. ASSUME NEW s \in Range(running_modules')
          PROVE  /\ Forgotten(s)
                 /\ \E b \in Range(before) : b.profile # NULL /\ b.name = s.name
      <4>1. PICK i \in DOMAIN running_modules' : s = running_modules'[i]
          BY DEF Range
      <4> QED BY <1>1, <2>2, <2>3, <4>1, NothingElse
    <3>4. ~Saveable(before) => running_modules' = <<>>
        BY <1>1, <2>2, <2>3, NothingCarried
    <3> QED BY <3>1, <3>2, <3>3, <3>4
  <2>4. CASE ~validate_configuration(backup)
    <3>1. ~Saveable(before)
        BY <2>1, <2>2, <2>4, BackupValid DEF BackupOf
    <3>2. running_modules' = running_modules /\ restarts_config' = restarts_config
        BY <2>1, <2>4 DEF LoadDocument
    <3> QED BY <1>1, <2>1, <3>1, <3>2 DEF DocInv, BackupInv
  <2> QED BY <2>3, <2>4
<1>2. DocInv /\ [DocNext]_allvars => [StartFromBackup => Restores]_allvars
    BY <1>1
<1> HIDE DEF Restores
<1>3. DocSpec => [][StartFromBackup => Restores]_allvars
    BY <1>2, DocInvariance, PTL DEF DocSpec
<1> QED BY <1>3 DEF BackupRestores, Restores
=============================================================================
