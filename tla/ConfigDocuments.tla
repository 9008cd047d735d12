--------------------------- MODULE ConfigDocuments ---------------------------
(***************************************************************************)
(* The JSON documents of Pi that the settings views edit: models.json      *)
(* (src/internal/appservice/modelconfig.go), mcp.json of Pi or of a        *)
(* trusted workspace (mcpconfig.go) and the packages of settings.json      *)
(* (extensionconfig.go).                                                   *)
(*                                                                         *)
(* Each service edits its document under a mutex of its own: it reads the  *)
(* whole document, changes the part the request names in memory, and       *)
(* replaces the file atomically.  Pi, its package commands and the user's  *)
(* editor write the same file and know nothing of the mutex, so reading    *)
(* and replacing are two steps here.  The documents are independent; a     *)
(* behaviour follows one of them, as a function from its keys.             *)
(***************************************************************************)
EXTENDS Naturals, FiniteSets

CONSTANTS
  Providers,       \* ids of model providers
  Models,          \* ids of models
  Servers,         \* names of MCP servers
  Packages,        \* sources of Pi packages
  Absent,          \* the value of a key the document does not hold
  MaxForeign       \* bound: writes by Pi or an editor

VARIABLES
  document,        \* which document this behaviour edits
  content,         \* the file, a function from the document's keys
  edit,            \* the edit a service has computed and not yet written
  approved,        \* the workspace of a project document is trusted
  reply,          \* what the last request returned
  foreign          \* number of writes by Pi or an editor

documentVars == <<document, content, edit, approved, reply, foreign>>

Fields == "fields"      \* the key of a provider's own settings

(* The settings of a provider are no model, and an absent value is none.   *)
ASSUME KeysAndValues ==
  /\ Fields \notin Models
  /\ Absent \notin {Fields, "set here", "written by hand", "malformed"}

ModelKeys(p) == {<<p, m>> : m \in Models}
ProviderKeys(p) == {<<p, Fields>>} \cup ModelKeys(p)

\* The models document holds a provider's settings and its models; an MCP
\* document its servers; the settings the state of each package.
KeysOf(d) ==
  CASE d = "models" -> UNION {ProviderKeys(p) : p \in Providers}
    [] d \in {"mcp", "project mcp"} -> Servers
    [] d \in {"packages", "project packages"} -> Packages

\* What somebody else may write under a key.  A provider that is not an object,
\* or whose models are not an array of objects, is malformed; a model needs
\* its provider.  A package is a plain source, an object with filters of the
\* user, or an object whose four filters are empty, which disables it.
ForeignValues(k) ==
  CASE document \in {"packages", "project packages"} -> {"plain", "filtered", "disabled"}
    [] document = "models" /\ k[2] = Fields -> {"written by hand", "malformed"}
    [] document = "models" /\ k[2] # Fields ->
         IF content[<<k[1], Fields>>] \in {Absent, "malformed"} THEN {} ELSE {"written by hand"}
    [] OTHER -> {"written by hand"}

NoEdit == [names |-> {}]

ConfigInit ==
  /\ document \in {"models", "mcp", "project mcp", "packages", "project packages"}
  /\ content = [k \in KeysOf(document) |-> Absent]
  /\ edit = NoEdit
  /\ approved = FALSE
  /\ reply = "none"
  /\ foreign = 0

Has(doc, k) == doc[k] # Absent
Malformed(doc, p) == doc[<<p, Fields>>] = "malformed"

\* What a service is about to write: the document it has read, the one it
\* will write, the keys of the first whose values the request replaces or
\* removes, and the provider it renames (from = to when it renames none).
Compute(names, from, to, next) ==
  /\ edit = NoEdit
  /\ edit' = [names |-> names, from |-> from, to |-> to, read |-> content, writes |-> next]
  /\ UNCHANGED <<document, content, approved, reply, foreign>>

-----------------------------------------------------------------------------
(* models.json *)

\* Mutant: the models of a renamed provider are lost.
RenamedAlone(doc, from, to) ==
  [k \in DOMAIN doc |-> CASE k = <<to, Fields>> -> doc[<<from, Fields>>]
                          [] k[1] = from -> Absent
                          [] OTHER -> doc[k]]

\* A renamed provider takes its models with it.
Renamed(doc, from, to) ==
  [k \in DOMAIN doc |-> CASE k[1] = to -> doc[<<from, k[2]>>]
                          [] k[1] = from -> Absent
                          [] OTHER -> doc[k]]

\* A rename needs the old provider and refuses a name in use; the provider
\* written to must be well-formed or new.
CanRebind(doc, from, to) ==
  /\ from # to => /\ Has(doc, <<from, Fields>>) /\ ~Malformed(doc, from)
                  /\ ~Has(doc, <<to, Fields>>)
  /\ ~Malformed(doc, to)

Rebound(doc, from, to) ==
  [(IF from = to THEN doc ELSE Renamed(doc, from, to)) EXCEPT ![<<to, Fields>>] = "set here"]

\* One model is added (old = Absent) or replaces the model the editor was
\* opened on; an id another model has is refused.
UpsertModel(from, to, old, m) ==
  LET doc == Rebound(content, from, to) IN
  /\ document = "models"
  /\ CanRebind(content, from, to)
  /\ old # Absent => Has(doc, <<to, old>>)
  /\ m # old => ~Has(doc, <<to, m>>)
  /\ Compute({<<from, Fields>>, <<to, Fields>>, <<from, old>>}, from, to,
             [k \in DOMAIN doc |-> CASE k = <<to, m>> -> "set here"
                                     [] k = <<to, old>> /\ old # m -> Absent
                                     [] OTHER -> doc[k]])

\* A set of discovered models is added in one write; none may exist.
AddModels(from, to, ms) ==
  LET doc == Rebound(content, from, to) IN
  /\ document = "models"
  /\ CanRebind(content, from, to)
  /\ \A m \in ms : ~Has(doc, <<to, m>>)
  /\ Compute({<<from, Fields>>, <<to, Fields>>}, from, to,
             [k \in DOMAIN doc |-> IF k[1] = to /\ k[2] \in ms THEN "set here" ELSE doc[k]])

DeleteModel(p, m) ==
  /\ document = "models"
  /\ ~Malformed(content, p)
  /\ Has(content, <<p, m>>)
  /\ Compute({<<p, m>>}, p, p, [content EXCEPT ![<<p, m>>] = Absent])

DeleteProvider(p) ==
  /\ document = "models"
  /\ Has(content, <<p, Fields>>)
  /\ Compute(ProviderKeys(p), p, p,
             [k \in DOMAIN content |-> IF k[1] = p THEN Absent ELSE content[k]])

EditModels ==
  \/ \E from, to \in Providers :
       \/ \E old \in Models \cup {Absent}, m \in Models : UpsertModel(from, to, old, m)
       \/ \E ms \in SUBSET Models \ {{}} : AddModels(from, to, ms)
  \/ \E p \in Providers : DeleteProvider(p) \/ \E m \in Models : DeleteModel(p, m)

-----------------------------------------------------------------------------
(* mcp.json and the packages of settings.json *)

\* A document of a project is edited only while its workspace is approved.
MayEdit(own, project) == document = own \/ (document = project /\ approved)

\* A server is added (old = Absent), or replaces or renames the server the
\* editor was opened on; a name another server has is refused.
UpsertMcpServer(old, n) ==
  /\ MayEdit("mcp", "project mcp")
  /\ old # Absent => Has(content, old)
  /\ n # old => ~Has(content, n)
  /\ Compute({old}, Absent, Absent,
             [k \in DOMAIN content |-> CASE k = n -> "set here"
                                         [] k = old /\ old # n -> Absent
                                         [] OTHER -> content[k]])

DeleteMcpServer(n) ==
  /\ MayEdit("mcp", "project mcp")
  /\ Has(content, n)
  /\ Compute({n}, Absent, Absent, [content EXCEPT ![n] = Absent])

\* Enabling a package makes it a plain source and disabling one empties its
\* filters: what the user had filtered is gone in both cases.
SetPackageEnabled(s, enabled) ==
  /\ MayEdit("packages", "project packages")
  /\ Has(content, s)
  /\ Compute({s}, Absent, Absent,
             [content EXCEPT ![s] = IF enabled THEN "plain" ELSE "disabled"])

EditServersOrPackages ==
  \/ \E n \in Servers :
       DeleteMcpServer(n) \/ \E old \in Servers \cup {Absent} : UpsertMcpServer(old, n)
  \/ \E s \in Packages, enabled \in BOOLEAN : SetPackageEnabled(s, enabled)

-----------------------------------------------------------------------------
(* Writing, refusing and everybody else *)

\* The file is replaced in one step, after which the request may still fail.
Written(answers) ==
  /\ edit # NoEdit
  /\ content' = edit.writes
  /\ reply' \in answers
  /\ edit' = NoEdit
  /\ UNCHANGED <<document, approved, foreign>>

\* An edit of models.json is reported as failed when its mode cannot be set
\* or, because the reply lists every provider, when any provider is malformed.
WriteModels ==
  /\ document = "models" /\ edit # NoEdit
  /\ Written(IF \E p \in Providers : Malformed(edit.writes, p) THEN {"error"}
             ELSE {"ok", "error"})

WriteServers == document \in {"mcp", "project mcp"} /\ Written({"ok"})

\* The mode of the settings may not be set either.
WritePackages ==
  document \in {"packages", "project packages"} /\ Written({"ok", "error"})

\* Listing the models fails when any provider is malformed.
ListModels ==
  /\ document = "models" /\ edit = NoEdit
  /\ reply' = IF \E p \in Providers : Malformed(content, p) THEN "error" ELSE "ok"
  /\ UNCHANGED <<document, content, edit, approved, foreign>>

\* The document is too large to write, or its file cannot be written.
DocumentWriteFails ==
  /\ edit # NoEdit
  /\ reply' = "error" /\ edit' = NoEdit
  /\ UNCHANGED <<document, content, approved, foreign>>

RefusedEdit ==
  /\ edit = NoEdit
  /\ reply' = "error"
  /\ UNCHANGED <<document, content, edit, approved, foreign>>

\* Refused before the document is read: an invalid id, URL, API, limit, level
\* map, credential or object; ...
RefuseModel == document = "models" /\ RefusedEdit

\* ... a definition that is no object or not of exactly one transport; ...
RefuseServer == document \in {"mcp", "project mcp"} /\ RefusedEdit

\* ... a package source that is empty, too long or looks like an option.
RefusePackage == document \in {"packages", "project packages"} /\ RefusedEdit

\* Pi or an editor replaces the value of a key, adds it or removes it.
ForeignWrite(k) ==
  /\ foreign < MaxForeign
  /\ \E v \in ForeignValues(k) \cup {Absent} :
       content' = [c \in DOMAIN content |->
                     CASE c = k -> v
                       [] document = "models" /\ k[2] = Fields /\ c \in ModelKeys(k[1])
                          /\ v # "written by hand" -> Absent
                       [] OTHER -> content[c]]
  /\ foreign' = foreign + 1
  /\ UNCHANGED <<document, edit, approved, reply>>

\* A package command of Pi, which the service runs holding its mutex, installs
\* or updates a package (the settings then hold it) or removes it.
PackageCommand(s) ==
  /\ edit = NoEdit
  /\ MayEdit("packages", "project packages")
  /\ content' \in {[content EXCEPT ![s] = IF Has(content, s) THEN content[s] ELSE "plain"],
                   [content EXCEPT ![s] = Absent], content}
  /\ reply' \in {"ok", "error"}
  /\ UNCHANGED <<document, edit, approved, foreign>>

SetApproval ==
  /\ approved' = ~approved
  /\ UNCHANGED <<document, content, edit, reply, foreign>>

ConfigNext ==
  \/ EditModels \/ EditServersOrPackages
  \/ WriteModels \/ WriteServers \/ WritePackages \/ DocumentWriteFails
  \/ RefuseModel \/ RefuseServer \/ RefusePackage \/ ListModels
  \/ \E k \in DOMAIN content : ForeignWrite(k)
  \/ \E s \in Packages : PackageCommand(s)
  \/ SetApproval

ConfigSpec == ConfigInit /\ [][ConfigNext]_documentVars

-----------------------------------------------------------------------------

\* Where the value of a key of the document that was read is in the one written.
Destination(k) ==
  IF document = "models" /\ k[1] = edit.from THEN <<edit.to, k[2]>> ELSE k

\* An edit replaces or removes nothing but what its request names: every other
\* value that was in the file is there after the write, under the provider's
\* new name if it was renamed - unless Pi or an editor wrote between the
\* service's reading and its writing.  What a request adds was not there.
\* (readDocument ... writeDocument of the three services)
EditsKeepTheRest ==
  [][edit # NoEdit /\ content = edit.read /\ content' = edit.writes =>
       \A k \in DOMAIN content \ edit.names :
         Has(content, k) => content'[Destination(k)] = content[k]]_documentVars
==============================================================================
