---------------------------- MODULE Provisioning ---------------------------
(***************************************************************************)
(* src/scripts: the grant and revoke scripts for authorized keys, CA keys  *)
(* and sudo rules, as the commands they run on one user's authorized_keys  *)
(* file and on the sudoers file.                                           *)
(*                                                                         *)
(* A worker is whatever runs scripts: the read loop of a connection, that  *)
(* of an earlier connection whose script is still running, or the          *)
(* "command" subcommand in a process of its own.  Nothing locks the files, *)
(* so the steps of workers interleave; each step is one external command   *)
(* (mkdir, touch, chmod, grep, tee, sed), which may also fail without      *)
(* effect.  sed -i reads the file, then renames its output over it.  A     *)
(* worker may die between two steps.                                       *)
(*                                                                         *)
(* A file is a sequence of lines; the line a request writes is its text,   *)
(* under the comment that names the request.  grep -F looks for            *)
(* substrings, so one id may be found in the comment of another (PrefixOf) *)
(* and one text in the line of another (PartOf).                           *)
(***************************************************************************)
EXTENDS Naturals, Sequences, FiniteSets, SequencesExt

CONSTANTS
  Workers,
  Id, Text,   \* request ids; key lines and sudo rules
  None,       \* no text: no key, "N/A", or Sudo unset; also no request
  PrefixOf,   \* pairs of ids, the first a proper prefix of the second
  PartOf,     \* pairs of texts, the first a proper part of the second
  SedFinds,   \* pairs of ids: sed, given the first, takes the comment of the second for
              \* its own.  regexp.QuoteMeta escapes for another syntax than that of sed:
              \* an id with "+", "?" or "|" may not find itself and may find others
  Requests,   \* the requests the backend may send
  OldKeys,    \* what authorized_keys may hold before the first request: lines,
              \* and whether the last one ends in a newline; {} if there is no file
  OldSudoers, \* how /etc/sudoers may be before: its last line "ended" or "unended"
  Failures,   \* what may fail: "command", "grep", "death" (of a worker)
  ByHand,     \* the kinds of lines an operator may add to authorized_keys
  MaxLines    \* bounds the files: no script starts that could make one longer

Files   == {"keys", "sudoers"}
Command == {"authorizedKeys", "caKeys", "sudo"}

ASSUME RequestAssumption ==
  /\ None \notin Text
  /\ Requests \subseteq [cmd : Command, action : {"grant", "revoke"}, id : Id,
                         text : Text \cup {None}]
  /\ SedFinds \subseteq Id \X Id /\ OldSudoers \subseteq {"ended", "unended"}
  /\ Failures \subseteq {"command", "grep", "death"} /\ ByHand \subseteq {"foreign", "blank"}

VARIABLES
  file,        \* the two files
  etcSudoers,  \* /etc/sudoers: as in OldSudoers, or with the line that includes the sudoers
               \* file, "included", or that line "glued" to a last one that lacked its newline
  pc,          \* where each worker is
  job,         \* the request each worker runs or ran last
  found,       \* whether grep found the comment
  snapshot     \* what sed will write

vars == <<file, etcSudoers, pc, job, found, snapshot>>

-----------------------------------------------------------------------------
(* Lines and files.                                                        *)

Comment(id)  == [kind |-> "comment", of |-> id]
Content(t)   == [kind |-> "content", of |-> t]
Other(kind)  == [kind |-> kind, of |-> None]  \* a "blank" or a "foreign" line
Glued(id)    == [kind |-> "glued", of |-> id]  \* a comment behind unterminated text

NewFile    == [exists |-> TRUE, lines |-> <<>>, ended |-> TRUE, mode |-> "umask"]
NoSnapshot == [lines |-> <<>>, ended |-> TRUE]
AbsentFile == [exists |-> FALSE, lines |-> <<>>, ended |-> TRUE, mode |-> "umask"]
OldFiles   == IF OldKeys = {} THEN {AbsentFile}
              ELSE {[exists |-> TRUE, lines |-> o.lines, ended |-> o.ended, mode |-> "old"] :
                      o \in OldKeys}

\* What an administrator left is nothing of the agent's.
ASSUME OldKeysAssumption ==
  \A o \in OldKeys : /\ o.lines \in Seq({Other("blank"), Other("foreign")})
                     /\ o.ended \in BOOLEAN

HasComment(f, id) == \E l \in ToSet(f.lines) :
  l.kind \in {"comment", "glued"} /\ (l.of = id \/ <<id, l.of>> \in PrefixOf)

HasContent(f, t) == \E l \in ToSet(f.lines) :
  l.kind = "content" /\ (l.of = t \/ <<t, l.of>> \in PartOf)

\* tee -a of the comment and the text; an old last line may lack its newline.
Appended(f, id, t) ==
  [f EXCEPT !.ended = TRUE,
            !.lines = IF f.ended THEN @ \o <<Comment(id), Content(t)>>
                      ELSE Front(@) \o <<Glued(id), Content(t)>>]

\* A line that sed takes for the comment of the request.
Finds(id, line) == line.kind = "comment" /\ <<id, line.of>> \in SedFinds

\* Mutation: the range covers the comment alone.
InRangeOne(lines, id, i) == Finds(id, lines[i])

\* The lines sed deletes for "/^comment$/,/^$/d": from a comment of the request up
\* to the next blank line or, since a grant writes none, the end of the file.
InRange(lines, id, i) ==
  \E j \in 1 .. i : Finds(id, lines[j]) /\ \A m \in j + 1 .. i - 1 : lines[m] # Other("blank")

\* The members of S among 1 .. n, smallest first.
Ascending(n, S) ==
  LET first[i \in 0 .. n] == IF i = 0 THEN <<>>
                             ELSE IF i \in S THEN Append(first[i - 1], i) ELSE first[i - 1]
  IN first[n]

SedDeleted(f, id) ==
  LET lines == f.lines
      kept  == Ascending(Len(lines), {i \in 1 .. Len(lines) : ~InRange(lines, id, i)})
      out   == [n \in 1 .. Len(kept) |-> lines[kept[n]]]
  IN [lines |-> out, ended |-> out = <<>> \/ f.ended]

-----------------------------------------------------------------------------
(* Workers.                                                                *)

Resting == {"idle", "succeeded", "failed"}
GrantPC == {"mkdir", "stat", "touch", "chmod", "grepComment", "grepContent", "append",
            "grepInclude", "appendInclude"}
RevokePC == {"statRemove", "sedRead", "sedRename"}

FileOf(r) == IF r.cmd = "sudo" THEN "sudoers" ELSE "keys"

Goto(w, l) == pc' = [pc EXCEPT ![w] = l]
Step(w, from, to) == pc[w] = from /\ Goto(w, to)

Init ==
  /\ \E f \in OldFiles : file = [keys |-> f, sudoers |-> AbsentFile]
  /\ etcSudoers \in OldSudoers
  /\ pc = [w \in Workers |-> "idle"]
  /\ job = [w \in Workers |-> None]
  /\ found = [w \in Workers |-> FALSE]
  /\ snapshot = [w \in Workers |-> NoSnapshot]

\* The bound on the files: whatever is about to be written, every worker can still
\* append two lines.
HasRoom(f) ==
  /\ Len(file[f].lines) + 2 * Cardinality(Workers) <= MaxLines
  /\ \A w \in Workers : Len(snapshot[w].lines) + 2 * Cardinality(Workers) <= MaxLines

\* Mutation: a grant without a key is carried out.
BeginUnchecked(w, r) ==
  /\ pc[w] \in Resting
  /\ r.action = "grant" => HasRoom(FileOf(r))
  /\ job' = [job EXCEPT ![w] = r]
  /\ Goto(w, IF r.action = "revoke" THEN "statRemove" ELSE "mkdir")
  /\ UNCHANGED <<file, etcSudoers, found, snapshot>>

\* ExecuteScript dispatches and the script checks its request.  A grant without a
\* key is skipped with success, one without a CA key with failure.
Begin(w, r) ==
  /\ pc[w] \in Resting
  /\ r.action = "grant" => HasRoom(FileOf(r))
  /\ job' = [job EXCEPT ![w] = r]
  /\ IF r.action = "revoke" THEN Goto(w, "statRemove")
     ELSE IF r.text # None THEN Goto(w, "mkdir")
     ELSE Goto(w, IF r.cmd = "caKeys" THEN "failed" ELSE "succeeded")
  /\ UNCHANGED <<file, etcSudoers, found, snapshot>>

\* user.Lookup does not find the user: only the key scripts ask.
UserMissing(w, r) ==
  /\ pc[w] \in Resting /\ r.cmd # "sudo"
  /\ r.action = "revoke" \/ r.text # None
  /\ job' = [job EXCEPT ![w] = r]
  /\ Goto(w, "failed")
  /\ UNCHANGED <<file, etcSudoers, found, snapshot>>

\* An external command that the script needs exits with an error.
CommandFails(w) ==
  /\ "command" \in Failures
  /\ pc[w] \in {"mkdir", "touch", "chmod", "append", "appendInclude", "sedRename"}
  /\ Goto(w, "failed")
  /\ UNCHANGED <<file, etcSudoers, job, found, snapshot>>

\* The process of the worker ends; files stay as they are.
Dies(w) ==
  /\ "death" \in Failures
  /\ pc[w] \notin Resting
  /\ Goto(w, "idle")
  /\ UNCHANGED <<file, etcSudoers, job, found, snapshot>>

-----------------------------------------------------------------------------
(* ensureContentInFile and, for sudo, ensureLineInFile.                    *)

MakeDirectory(w) ==
  /\ Step(w, "mkdir", "stat")
  /\ UNCHANGED <<file, etcSudoers, job, found, snapshot>>

StatFile(w) ==
  /\ Step(w, "stat", IF file[FileOf(job[w])].exists THEN "grepComment" ELSE "touch")
  /\ UNCHANGED <<file, etcSudoers, job, found, snapshot>>

TouchFile(w) ==
  /\ Step(w, "touch", "chmod")
  /\ file' = [file EXCEPT ![FileOf(job[w])] = IF @.exists THEN @ ELSE NewFile]
  /\ UNCHANGED <<etcSudoers, job, found, snapshot>>

ChangeMode(w) ==
  /\ Step(w, "chmod", "grepComment")
  /\ file' = [file EXCEPT ![FileOf(job[w])].mode = "set"]
  /\ UNCHANGED <<etcSudoers, job, found, snapshot>>

\* A grep that fails counts as one that finds nothing.
GrepComment(w) ==
  /\ Step(w, "grepComment", "grepContent")
  /\ found' = [found EXCEPT ![w] = HasComment(file[FileOf(job[w])], job[w].id)]
  /\ UNCHANGED <<file, etcSudoers, job, snapshot>>

\* Where a script goes once the content is in the file.
AfterContent(w) == IF job[w].cmd = "sudo" THEN "grepInclude" ELSE "succeeded"

\* Mutations: either match is enough; neither is looked at.
GrepContentEither(w) ==
  /\ Step(w, "grepContent",
          IF found[w] \/ HasContent(file[FileOf(job[w])], job[w].text)
          THEN AfterContent(w) ELSE "append")
  /\ UNCHANGED <<file, etcSudoers, job, found, snapshot>>
GrepContentNot(w) ==
  /\ Step(w, "grepContent", "append")
  /\ UNCHANGED <<file, etcSudoers, job, found, snapshot>>

GrepContent(w) ==
  /\ Step(w, "grepContent",
          IF found[w] /\ HasContent(file[FileOf(job[w])], job[w].text)
          THEN AfterContent(w) ELSE "append")
  /\ UNCHANGED <<file, etcSudoers, job, found, snapshot>>

GrepFails(w) ==
  /\ "grep" \in Failures
  /\ \/ Step(w, "grepComment", "grepContent")
     \/ Step(w, "grepContent", "append")
     \/ Step(w, "grepInclude", "appendInclude")
  /\ found' = [found EXCEPT ![w] = FALSE]
  /\ UNCHANGED <<file, etcSudoers, job, snapshot>>

\* The chown that follows may fail without consequence and changes no line.
AppendContent(w) ==
  /\ Step(w, "append", AfterContent(w))
  /\ file' = [file EXCEPT ![FileOf(job[w])] = Appended(@, job[w].id, job[w].text)]
  /\ UNCHANGED <<etcSudoers, job, found, snapshot>>

GrepInclude(w) ==
  /\ Step(w, "grepInclude",
          IF etcSudoers \in {"glued", "included"} THEN "succeeded" ELSE "appendInclude")
  /\ UNCHANGED <<file, etcSudoers, job, found, snapshot>>

AppendInclude(w) ==
  /\ Step(w, "appendInclude", "succeeded")
  /\ etcSudoers' = IF etcSudoers = "unended" THEN "glued" ELSE "included"
  /\ UNCHANGED <<file, job, found, snapshot>>

-----------------------------------------------------------------------------
(* removeContentFromFile.                                                  *)

StatBeforeRemove(w) ==
  /\ Step(w, "statRemove", IF file[FileOf(job[w])].exists THEN "sedRead" ELSE "succeeded")
  /\ UNCHANGED <<file, etcSudoers, job, found, snapshot>>

SedReads(w) ==
  /\ Step(w, "sedRead", "sedRename")
  /\ snapshot' = [snapshot EXCEPT ![w] = SedDeleted(file[FileOf(job[w])], job[w].id)]
  /\ UNCHANGED <<file, etcSudoers, job, found>>

\* The new file keeps the mode.
SedRenames(w) ==
  LET f == FileOf(job[w]) IN
  /\ Step(w, "sedRename", "succeeded")
  /\ file' = [file EXCEPT ![f].lines = snapshot[w].lines, ![f].ended = snapshot[w].ended]
  /\ snapshot' = [snapshot EXCEPT ![w] = NoSnapshot]
  /\ UNCHANGED <<etcSudoers, job, found>>

-----------------------------------------------------------------------------
\* Somebody edits authorized_keys by hand.
OperatorAppends(kind) ==
  /\ file["keys"].exists /\ file["keys"].ended
  /\ HasRoom("keys")
  /\ file' = [file EXCEPT !["keys"].lines = Append(@, Other(kind))]
  /\ UNCHANGED <<etcSudoers, pc, job, found, snapshot>>

ScriptStep(w) ==
  \/ MakeDirectory(w) \/ StatFile(w) \/ TouchFile(w) \/ ChangeMode(w)
  \/ GrepComment(w) \/ GrepContent(w) \/ GrepFails(w) \/ AppendContent(w)
  \/ GrepInclude(w) \/ AppendInclude(w)
  \/ StatBeforeRemove(w) \/ SedReads(w) \/ SedRenames(w)

Next ==
  \/ \E w \in Workers :
       \/ \E r \in Requests : Begin(w, r) \/ UserMissing(w, r)
       \/ ScriptStep(w) \/ CommandFails(w) \/ Dies(w)
  \/ \E kind \in ByHand : OperatorAppends(kind)

Spec == Init /\ [][Next]_vars
-----------------------------------------------------------------------------
(* Properties.                                                             *)

Lines == {Comment(id) : id \in Id} \cup {Glued(id) : id \in Id}
         \cup {Content(t) : t \in Text} \cup {Other("blank"), Other("foreign")}

\* Every variable has its type.
TypeOK ==
  /\ file \in [Files -> [exists : BOOLEAN, lines : Seq(Lines), ended : BOOLEAN,
                         mode : {"old", "umask", "set"}]]
  /\ etcSudoers \in {"ended", "unended", "glued", "included"}
  /\ pc \in [Workers -> Resting \cup GrantPC \cup RevokePC]
  /\ job \in [Workers -> Requests \cup {None}]
  /\ found \in [Workers -> BOOLEAN]
  /\ snapshot \in [Workers -> [lines : Seq(Lines), ended : BOOLEAN]]

\* Text t stands in file f under the comment of request id.
Under(f, id, t) ==
  \E i \in 1 .. Len(file[f].lines) - 1 :
    file[f].lines[i] = Comment(id) /\ file[f].lines[i + 1] = Content(t)

\* The request the worker has just answered with success.
Succeeded(w, action) == pc[w] = "succeeded" /\ job[w].action = action

\* A line the agent wrote always stands right under a line that ends in the comment of
\* a request that granted it, however scripts interleave, fail and die.
KeyUnderItsComment ==
  \A f \in Files : \A i \in 1 .. Len(file[f].lines) :
    file[f].lines[i].kind = "content" =>
      \E r \in Requests :
        /\ r.action = "grant" /\ FileOf(r) = f /\ file[f].lines[i] = Content(r.text)
        /\ i > 1 /\ file[f].lines[i - 1] \in {Comment(r.id), Glued(r.id)}

\* A text that is part of another one for the same file, whose line grep takes for it.
PartOfOther(r) ==
  \E q \in Requests : q.action = "grant" /\ FileOf(q) = FileOf(r) /\ <<r.text, q.text>> \in PartOf

\* After a successful grant its text is a line of the file, unless it is part of another;
\* and for sudo /etc/sudoers has the line that includes the file, glued to another only if
\* it lacked its newline.  So it is also when earlier attempts failed or died half way.
GrantIsEffective ==
  \A w \in Workers : Succeeded(w, "grant") /\ job[w].text # None =>
    /\ PartOfOther(job[w]) \/ Content(job[w].text) \in ToSet(file[FileOf(job[w])].lines)
    /\ job[w].cmd = "sudo" =>
         etcSudoers = "included" \/ (etcSudoers = "glued" /\ "unended" \in OldSudoers)

\* After a successful revocation no text is left that only this request granted.
RevokedKeyIsGone ==
  \A w \in Workers : Succeeded(w, "revoke") =>
    LET f == FileOf(job[w])
        grants == {r \in Requests : r.action = "grant" /\ FileOf(r) = f}
    IN \A r \in grants :
         r.id = job[w].id /\ (\A q \in grants : q.text = r.text => q.id = r.id)
           => Content(r.text) \notin ToSet(file[f].lines)

\* One worker and nobody else: the file is the log of grants AccessLog describes.
LogOf(f) ==
  LET lines == file[f].lines
      at    == Ascending(Len(lines), {i \in 1 .. Len(lines) : lines[i].kind = "content"})
  IN [n \in 1 .. Len(at) |-> [id |-> lines[at[n] - 1].of, text |-> lines[at[n]].of]]

KeyLog  == INSTANCE AccessLog WITH log <- LogOf("keys")
SudoLog == INSTANCE AccessLog WITH log <- LogOf("sudoers")

KeysAreALog  == KeyLog!Spec
RulesAreALog == SudoLog!Spec

-----------------------------------------------------------------------------
(* What the documentation says and the code does not do.                   *)

\* scripts/README: a revocation removes the entries associated with its RequestID.
\* So it leaves those of other requests.
OthersKeepTheirKeys ==
  [][\A f \in Files, id \in Id, t \in Text :
       Under(f, id, t) /\ ~Under(f, id, t)' =>
         \E w \in Workers : pc[w] = "sedRename" /\ job[w].id = id]_vars

\* scripts/README: a grant adds the key with a RequestID comment for tracking.
GrantIsTracked ==
  \A w \in Workers : Succeeded(w, "grant") /\ job[w].text # None =>
    Under(FileOf(job[w]), job[w].id, job[w].text)

\* scripts/README: a grant adds the key.  So its text is a line of the file, also when it is
\* part of another.
GrantAddsItsText ==
  \A w \in Workers : Succeeded(w, "grant") /\ job[w].text # None =>
    Content(job[w].text) \in ToSet(file[FileOf(job[w])].lines)

\* The answer to a grant of sudo says that access is granted: sudo reads the rule.
GrantedRuleIsRead ==
  \A w \in Workers : Succeeded(w, "grant") /\ job[w].cmd = "sudo" /\ job[w].text # None =>
    etcSudoers = "included"

\* scripts/README: a grant creates the file and sets its permissions.
CreatedFileHasItsMode ==
  \A w \in Workers : Succeeded(w, "grant") /\ job[w].text # None =>
    file[FileOf(job[w])].mode # "umask"
=============================================================================
