------------------------------ MODULE AgentFiles ------------------------------
(***************************************************************************)
(* The directories of Pi that the settings views edit: skills              *)
(* (src/internal/appservice/skillconfig.go), prompt templates              *)
(* (promptconfig.go) and the extensions the desktop bundles                *)
(* (extensionconfig.go).                                                   *)
(*                                                                         *)
(* Each service works on its directory under a mutex, with several calls   *)
(* of the file system per request; each of them may fail, and the          *)
(* application may end between two of them.  What a service does in one    *)
(* call, or before its first change, is one step.  The directories are     *)
(* independent; a behaviour follows one of them.                           *)
(***************************************************************************)
EXTENDS Naturals, Sequences, SequencesExt, FiniteSets

CONSTANTS
  Names,           \* names of skills, of directories of skills and of prompts
  Texts,           \* contents of prompt templates
  Bundled,         \* bundled extensions other than the todo list
  NoFile           \* no such file

VARIABLES
  directory,       \* which directory this behaviour edits
  skills,          \* where the root of skills holds a SKILL.md: each place is the
                   \* sequence of the directories that lead to it
  prompts,         \* the content of each prompt template, or NoFile
  extensions,      \* each bundled extension: NoFile, "current" or "outdated"
  legacyTodo,      \* pi-deck-todo.ts: "installed", "backup" or NoFile
  halfway,         \* the request between two of its calls, or AtRest
  outcome          \* what the last request returned

filesVars == <<directory, skills, prompts, extensions, legacyTodo, halfway, outcome>>
(* A file that is not there is told from one that is.                      *)
ASSUME NoFileIsNone == NoFile \notin {"installed", "backup", "current", "outdated"}

AtRest == [request |-> "none"]
Todo == "todo"

FilesInit ==
  /\ directory \in {"skills", "shared skills", "prompts", "extensions"}
  /\ skills = {}
  /\ prompts = [n \in Names |-> NoFile]
  /\ extensions = [x \in Bundled \cup {Todo} |-> NoFile]
  /\ legacyTodo = NoFile
  /\ halfway = AtRest
  /\ outcome = "none"

Works(d) == directory = d /\ halfway = AtRest
Return(result) == outcome' = result /\ halfway' = AtRest

-----------------------------------------------------------------------------
(* Skills *)

Places == UNION {[1 .. depth -> Names] : depth \in 0 .. 2}
IsBelow(place, other) == IsPrefix(place, other)

\* Pi's own root of skills, or ~/.agents/skills, which other harnesses share.
SkillRoots == {"skills", "shared skills"}

\* The skills a root lists: a SKILL.md directly in Pi's own root counts as a
\* Markdown skill, and the search below a directory ends at its SKILL.md.
ListedSkills(held) ==
  {p \in held : /\ p = <<>> => directory = "skills"
                /\ \A q \in held : q # <<>> /\ IsBelow(q, p) => q = p}

\* A new skill is a new directory of Pi's root with its SKILL.md; a directory
\* left without one is removed when writing it fails.
CreateManagedSkill(n) ==
  /\ Works("skills")
  /\ \A p \in skills : ~IsBelow(<<n>>, p)
  /\ \/ skills' = skills \cup {<<n>>} /\ Return("ok")
     \/ skills' = skills /\ Return("error")
  /\ UNCHANGED <<directory, prompts, extensions, legacyTodo>>

\* A skill in a SKILL.md is deleted with the directory that holds the file -
\* which is the root itself when the file lies directly in it.  directoryFor
\* takes either root (UpdateManagedSkill, which changes a text, too).
DeleteManagedSkill(p) ==
  /\ \E root \in SkillRoots : Works(root)
  /\ p \in ListedSkills(skills)
  /\ \/ skills' = {q \in skills : ~IsBelow(p, q)} /\ Return("ok")
     \/ skills' \in {{q \in skills : ~IsBelow(p, q)} \cup kept :
                       kept \in SUBSET {q \in skills : IsBelow(p, q)}}
        /\ Return("error")
  /\ UNCHANGED <<directory, prompts, extensions, legacyTodo>>

\* The user writes skills of their own wherever Pi looks for them.
UserAddsSkill(p) ==
  /\ directory \in SkillRoots
  /\ skills' = skills \cup {p}
  /\ UNCHANGED <<directory, prompts, extensions, legacyTodo, halfway, outcome>>

-----------------------------------------------------------------------------
(* Prompt templates *)

Exists(n) == prompts[n] # NoFile

\* A template is renamed before its new content is written; a name in use by
\* another template is refused.
UpsertPromptTemplate(old, n, text) ==
  /\ Works("prompts")
  /\ old # NoFile => Exists(old)
  /\ n # old => ~Exists(n)
  /\ prompts' = IF old \in {NoFile, n} THEN prompts
                ELSE [prompts EXCEPT ![n] = prompts[old], ![old] = NoFile]
  /\ halfway' = [request |-> "prompt", name |-> n, text |-> text]
  /\ UNCHANGED <<directory, skills, extensions, legacyTodo, outcome>>

WriteTemplate ==
  /\ halfway.request = "prompt"
  /\ \/ prompts' = [prompts EXCEPT ![halfway.name] = halfway.text] /\ Return("ok")
     \/ prompts' = prompts /\ Return("error")
  /\ UNCHANGED <<directory, skills, extensions, legacyTodo>>

DeletePromptTemplate(n) ==
  /\ Works("prompts")
  /\ Exists(n)
  /\ prompts' = [prompts EXCEPT ![n] = NoFile] /\ Return("ok")
  /\ UNCHANGED <<directory, skills, extensions, legacyTodo>>

-----------------------------------------------------------------------------
(* Bundled extensions *)

Loaded == legacyTodo = "installed" \/ extensions[Todo] # NoFile

\* Before the todo extension is written, the older one of PiDeck is set aside;
\* an earlier backup of it is removed first, and may be all that happens.
InstallPiDeskTodo ==
  /\ Works("extensions")
  /\ \/ /\ legacyTodo' = IF legacyTodo = "installed" THEN "backup" ELSE legacyTodo
        /\ halfway' = [request |-> "todo", replaced |-> legacyTodo = "installed", had |-> Loaded]
        /\ UNCHANGED outcome
     \/ legacyTodo = "installed" /\ UNCHANGED legacyTodo /\ Return("error")
  /\ UNCHANGED <<directory, skills, prompts, extensions>>

\* The file may be written and its mode not be set.
WriteTodo ==
  /\ halfway.request = "todo"
  /\ extensions' = [extensions EXCEPT ![Todo] = "current"]
  /\ Return("ok") \/ Return("error")
  /\ UNCHANGED <<directory, skills, prompts, legacyTodo>>

\* Mutant: the older extension is not put back.
LeaveLegacyAside ==
  /\ halfway.request = "todo"
  /\ Return("error")
  /\ UNCHANGED <<directory, skills, prompts, extensions, legacyTodo>>

\* When it cannot be written the older extension is put back, unless that
\* fails as well.
WriteTodoFails ==
  /\ halfway.request = "todo"
  /\ \/ /\ legacyTodo' = IF halfway.replaced THEN "installed" ELSE legacyTodo
        /\ Return("error")
     \/ halfway.replaced /\ UNCHANGED legacyTodo /\ Return("failed twice")
  /\ UNCHANGED <<directory, skills, prompts, extensions>>

\* The other extensions are written in one call, whose mode may not be set.
InstallBundled(x) ==
  /\ Works("extensions")
  /\ \/ extensions' = [extensions EXCEPT ![x] = "current"] /\ (Return("ok") \/ Return("error"))
     \/ extensions' = extensions /\ Return("error")
  /\ UNCHANGED <<directory, skills, prompts, legacyTodo>>

RemoveBundled(x) ==
  /\ Works("extensions")
  /\ \/ extensions' = [extensions EXCEPT ![x] = NoFile] /\ Return("ok")
     \/ extensions' = extensions /\ Return("error")
  /\ UNCHANGED <<directory, skills, prompts, legacyTodo>>

\* PiDeck installs its extension; an update of the desktop bundles newer ones.
PiDeckInstalls ==
  /\ directory = "extensions"
  /\ legacyTodo' = "installed"
  /\ UNCHANGED <<directory, skills, prompts, extensions, halfway, outcome>>

DesktopUpdate ==
  /\ directory = "extensions" /\ halfway = AtRest
  /\ extensions' = [x \in DOMAIN extensions |->
                      IF extensions[x] = NoFile THEN NoFile ELSE "outdated"]
  /\ UNCHANGED <<directory, skills, prompts, legacyTodo, halfway, outcome>>

-----------------------------------------------------------------------------

\* The application ends between two calls.
Killed ==
  /\ halfway # AtRest
  /\ Return("killed")
  /\ UNCHANGED <<directory, skills, prompts, extensions, legacyTodo>>

FilesNext ==
  \/ \E n \in Names : CreateManagedSkill(n)
  \/ \E p \in Places : DeleteManagedSkill(p) \/ UserAddsSkill(p)
  \/ \E n \in Names, old \in Names \cup {NoFile}, text \in Texts :
       UpsertPromptTemplate(old, n, text)
  \/ WriteTemplate
  \/ \E n \in Names : DeletePromptTemplate(n)
  \/ InstallPiDeskTodo \/ WriteTodo \/ WriteTodoFails
  \/ \E x \in Bundled : InstallBundled(x)
  \/ \E x \in Bundled \cup {Todo} : RemoveBundled(x)
  \/ PiDeckInstalls \/ DesktopUpdate \/ Killed

FilesSpec == FilesInit /\ [][FilesNext]_filesVars

-----------------------------------------------------------------------------

\* A request that ends halfway loses nothing.  An installation of the todo
\* extension that does not succeed leaves a todo extension loaded if one was
\* before, the older or the bundled one - unless the application is killed
\* meanwhile or putting the older one back fails too; and the text of a prompt
\* template is found under the old or the new name until the template is
\* deleted or written.  (the calls of InstallPiDeskTodo and
\* UpsertPromptTemplate that a failure separates)
NothingIsLostHalfway ==
  [][/\ (halfway.request = "todo" /\ halfway' = AtRest /\ outcome' \in {"ok", "error"} /\ halfway.had)
          => Loaded'
     /\ \A n \in Names :
          Exists(n) => \/ \E m \in Names : prompts'[m] = prompts[n]
                       \/ DeletePromptTemplate(n)
                       \/ halfway.request = "prompt" /\ halfway.name = n /\ outcome' = "ok"]_filesVars
==============================================================================
