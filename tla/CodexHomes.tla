------------------------------- MODULE CodexHomes ------------------------------
(***************************************************************************)
(* What is in the Codex homes of the subscriptions: config.toml, which a   *)
(* loop keeps in line with the Primary's (config.go, SyncManagedConfig),   *)
(* auth.json, which an import brings (auth.go), and the lane of a request, *)
(* which is read from config.toml (mux/quota.go).                          *)
(*                                                                         *)
(* The files belong to others too: the desktop edits the Primary's         *)
(* config.toml, each app-server writes the trust of a project to its own   *)
(* and its login, a new one or new tokens, to auth.json, and nobody locks  *)
(* them.                                                                   *)
(*                                                                         *)
(* A config.toml is a sequence of lines; a line is a header or a setting,  *)
(* plain or not: a header is plain if nothing follows the bracket, a       *)
(* setting if there is a space before its "=".                             *)
(***************************************************************************)
EXTENDS Integers, Sequences, FiniteSetsExt, SequencesExt

CONSTANTS
  Configs,          \* what the desktop may write to the Primary's config.toml
  Projects,         \* sections of project trust
  Logins,           \* ChatGPT accounts
  Requests,         \* what a request may say of its model and provider
  OfficialProviders, OfficialUrls,
  NoValue, NoLogin,
  MaxHomes,         \* bound on the isolated homes
  MaxEdits,         \* bound on the edits of the Primary's config.toml
  MaxTrusted,       \* bound on the projects trusted in one home
  MaxFaults         \* bound on files that cannot be read or written

Homes == 1..MaxHomes   \* the isolated ones
Primary == 0
Credentials == [login : Logins, big : BOOLEAN] \union {NoLogin}
\* What an app-server stores is never too large to be compared.
Written == [login : Logins, big : {FALSE}] \union {NoLogin}

\* A file is a sequence, and a header has a name.
ASSUME HomesAssumption ==
  /\ {MaxHomes, MaxEdits, MaxTrusted, MaxFaults} \subseteq Nat
  /\ \A c \in Configs : c \in Seq(Range(c))
  /\ \A c \in Configs : \A i \in DOMAIN c : c[i].header => c[i].name # NoValue
  /\ NoValue \notin Projects
  /\ NoLogin \notin [login : Logins, big : BOOLEAN]

VARIABLES
  primary,   \* config.toml of the Primary
  configs,   \* config.toml of each isolated home
  auth,      \* auth.json of each home, the Primary's too
  made,      \* how many homes were created; the next is the next number
  listed,    \* the homes of the accounts of the Store, in order
  sync,      \* SyncManagedConfig: homes still to do, what was merged for the first
  trusted,   \* history: the projects each app-server has trusted
  overtaken, \* history: those it trusted while its file was being rewritten
  escaped,   \* history: the logins an import had no means to compare (Escaping)
  edits, faults

vars == <<primary, configs, auth, made, listed, sync, trusted, overtaken, escaped, edits, faults>>

Header(section) == [header |-> TRUE, name |-> section, value |-> NoValue, plain |-> TRUE]
Setting(key, value) == [header |-> FALSE, name |-> key, value |-> value, plain |-> TRUE]

CredentialKeys == {"cli_auth_credentials_store", "mcp_oauth_credentials_store"}
IsolatedCredentials == <<Setting("cli_auth_credentials_store", "file"),
                         Setting("mcp_oauth_credentials_store", "file")>>

--------------------------------------------------------------------------------
(* config.toml as the code reads it. *)

\* The section of line i: the last header above it that is nothing but a header.
SectionAt(lines, i) ==
  LET headers == {j \in 1..i : lines[j].header /\ lines[j].plain}
  IN IF headers = {} THEN NoValue ELSE lines[Max(headers)].name

\* The kept lines, in their order.
Lines(lines, kept) ==
  LET upTo[n \in 0..Len(lines)] ==
        IF n = 0 THEN <<>>
        ELSE IF n \in kept THEN Append(upTo[n - 1], lines[n]) ELSE upTo[n - 1]
  IN upTo[Len(lines)]

\* filterConfig with isProjectSection ...
ProjectPart(lines) == {i \in DOMAIN lines : SectionAt(lines, i) \in Projects}

\* Slip: sections are managed, the settings above the first of them are not.
ManagedPart_Slip(lines) ==
  {i \in DOMAIN lines : SectionAt(lines, i) \notin Projects \union {NoValue}}

\* ... and with its negation.
ManagedPart(lines) == {i \in DOMAIN lines : SectionAt(lines, i) \notin Projects}

\* removeTopLevelCredentialSettings.  It looks at what the filter has left, which
\* has every line in the section it was in.
TopLevelCredentials(lines) ==
  {i \in DOMAIN lines :
    SectionAt(lines, i) = NoValue /\ lines[i].name \in CredentialKeys /\ lines[i].plain}

\* Slip: the home is written from the Primary alone.
Merge_Fresh(main, isolated) ==
  IsolatedCredentials \o Lines(main, ManagedPart(main) \ TopLevelCredentials(main))

\* Slip: everything of the Primary is managed.
Merge_Leak(main, isolated) ==
  IsolatedCredentials \o Lines(main, DOMAIN main \ TopLevelCredentials(main))
                      \o Lines(isolated, ProjectPart(isolated))

\* syncIsolatedConfig.
Merge(main, isolated) ==
  IsolatedCredentials \o Lines(main, ManagedPart(main) \ TopLevelCredentials(main))
                      \o Lines(isolated, ProjectPart(isolated))

\* TopLevelConfigValue: here any header ends the top level.
TopLevelConfigValue(lines, key) ==
  LET found == {i \in DOMAIN lines :
        lines[i].name = key /\ \A j \in 1..i : ~lines[j].header}
  IN IF found = {} THEN NoValue ELSE lines[Min(found)].value

--------------------------------------------------------------------------------
(* Lanes. *)

LaneForProvider(p) == IF p \in OfficialProviders THEN "subscription" ELSE "external"

\* A model may name its provider, or be one that is known.
LaneForModel(m) ==
  IF m = NoValue THEN NoValue
  ELSE IF m.provider # NoValue THEN LaneForProvider(m.provider)
  ELSE IF m.official THEN "subscription" ELSE NoValue

ClassifyParamsLane(q) ==
  IF q.provider # NoValue THEN LaneForProvider(q.provider) ELSE LaneForModel(q.model)

ClassifyCodexHomeLane(lines) ==
  LET provider == TopLevelConfigValue(lines, "model_provider")
      url == TopLevelConfigValue(lines, "openai_base_url")
  IN IF \/ provider # NoValue /\ LaneForProvider(provider) = "external"
        \/ url # NoValue /\ url \notin OfficialUrls
        \/ LaneForModel(TopLevelConfigValue(lines, "model")) = "external"
     THEN "external" ELSE "subscription"

ClassifyRequestLane(q, lines) ==
  IF ClassifyParamsLane(q) # NoValue THEN ClassifyParamsLane(q) ELSE ClassifyCodexHomeLane(lines)

--------------------------------------------------------------------------------
(* The loop. *)

Idle == [queue |-> <<>>, merged |-> NoValue]

Init ==
  /\ primary \in Configs
  /\ configs = [h \in Homes |-> <<>>]
  /\ auth = [h \in Homes \union {Primary} |-> NoLogin]
  /\ escaped = {}
  /\ made = 0 /\ listed = <<>>
  /\ sync = Idle
  /\ trusted = [h \in Homes |-> {}] /\ overtaken = trusted
  /\ edits = 0 /\ faults = 0

\* Slip: the last of the accounts is left out of the copy.
BeginSync_Slip ==
  /\ sync = Idle /\ listed # <<>>
  /\ sync' = [Idle EXCEPT !.queue = Front(listed)]
  /\ UNCHANGED <<primary, configs, auth, made, listed, trusted, overtaken, escaped, edits, faults>>

\* A tick of syncManagedConfigLoop: the accounts are copied under the lock.
BeginSync ==
  /\ sync = Idle /\ listed # <<>>
  /\ sync' = [Idle EXCEPT !.queue = listed]
  /\ UNCHANGED <<primary, configs, auth, made, listed, trusted, overtaken, escaped, edits, faults>>

\* Both files are read.  A change between the two reads has the effect of one
\* before or after both.
ReadConfigs ==
  /\ sync.queue # <<>> /\ sync.merged = NoValue
  /\ sync' = [sync EXCEPT !.merged = Merge(primary, configs[Head(sync.queue)])]
  /\ UNCHANGED <<primary, configs, auth, made, listed, trusted, overtaken, escaped, edits, faults>>

\* Slip: the merged lines are kept for the home that follows.
CommitConfig_Slip ==
  /\ sync.merged # NoValue
  /\ configs' = [configs EXCEPT ![Head(sync.queue)] = sync.merged]
  /\ sync' = [sync EXCEPT !.queue = Tail(@)]
  /\ UNCHANGED <<primary, auth, made, listed, trusted, overtaken, escaped, edits, faults>>

\* The temporary file replaces config.toml, whatever that is by now.
CommitConfig ==
  /\ sync.merged # NoValue
  /\ configs' = [configs EXCEPT ![Head(sync.queue)] = sync.merged]
  /\ sync' = [queue |-> Tail(sync.queue), merged |-> NoValue]
  /\ UNCHANGED <<primary, auth, made, listed, trusted, overtaken, escaped, edits, faults>>

Fault == faults < MaxFaults /\ faults' = faults + 1

\* A file cannot be read or written: the accounts that follow wait for the next tick.
SyncFails ==
  /\ Fault /\ sync.queue # <<>> /\ sync' = Idle
  /\ UNCHANGED <<primary, configs, auth, made, listed, trusted, overtaken, escaped, edits>>

--------------------------------------------------------------------------------
(* Accounts. *)

\* authAccountID: a stored file beyond the size limit is not looked into.
AuthAccountID(h) == IF auth[h] = NoLogin \/ auth[h].big THEN NoLogin ELSE auth[h].login

Listed == Range(listed)
Accounts == {Primary} \union Listed

\* What an import cannot find: a login in a file that is too large, and one that an
\* app-server stores when another home has it already.
Escaping(h, credentials, imported) ==
  {l \in Logins : /\ credentials # NoLogin /\ credentials.login = l
                  /\ \/ credentials.big
                     \/ /\ ~imported
                        /\ \E g \in Accounts \ {h} : auth[g] # NoLogin /\ auth[g].login = l}

\* atomicWritePrivate, and what an app-server does: the whole file or none of it.
StoreAuth(h, credentials, imported) ==
  /\ auth' = [auth EXCEPT ![h] = credentials]
  /\ escaped' = escaped \union Escaping(h, credentials, imported)

\* addAccountLocked: a directory with a random name, its config.toml, its
\* auth.json, the list.  A failure leaves what was done before it; that of the
\* save that comes last, the account.
Create(credentials) ==
  LET h == made + 1 IN
  /\ h \in Homes /\ made' = h
  /\ configs' = [configs EXCEPT ![h] = Merge(primary, <<>>)]
  /\ \/ /\ StoreAuth(h, credentials, TRUE)
        /\ listed' = Append(listed, h)
        /\ UNCHANGED faults \/ Fault
     \/ Fault /\ UNCHANGED <<auth, listed, escaped>>
  /\ UNCHANGED <<primary, sync, trusted, overtaken, edits>>

AddAccount == Create(NoLogin)

\* Slip: the Primary is left out of the search, as it is out of the propagation.
AddAccountWithAuth_Slip(login, big) ==
  /\ \A h \in Listed : AuthAccountID(h) # login
  /\ Create([login |-> login, big |-> big])

\* The login is looked for in every home of the Store, the Primary's first, under
\* its lock; that does not stop an app-server, and a login stored during the search
\* has the effect of one stored after it.  Indented, a file within the limit may be
\* stored beyond it.
AddAccountWithAuth(login, big) ==
  /\ \A h \in Accounts : AuthAccountID(h) # login
  /\ Create([login |-> login, big |-> big])

--------------------------------------------------------------------------------
(* The other owners of the files. *)

\* The desktop, or the Primary's app-server.
EditPrimary ==
  /\ edits < MaxEdits /\ edits' = edits + 1
  /\ primary' \in Configs \ {primary}
  /\ UNCHANGED <<configs, auth, made, listed, sync, trusted, overtaken, escaped, faults>>

\* An app-server adds a section for a project that the user trusts.
TrustProject(h, p) ==
  /\ h \in Listed
  /\ p \notin trusted[h] /\ Cardinality(trusted[h]) < MaxTrusted
  /\ trusted' = [trusted EXCEPT ![h] = @ \union {p}]
  /\ configs' = [configs EXCEPT ![h] = @ \o <<Header(p), Setting("trust_level", "trusted")>>]
  /\ overtaken' = IF sync.merged # NoValue /\ Head(sync.queue) = h
                  THEN [overtaken EXCEPT ![h] = @ \union {p}] ELSE overtaken
  /\ UNCHANGED <<primary, auth, made, listed, sync, escaped, edits, faults>>

\* The app-server of an account logs in, renews its tokens or logs out.
WriteAuth(h, credentials) ==
  /\ h \in Accounts /\ credentials # auth[h]
  /\ StoreAuth(h, credentials, FALSE)
  /\ UNCHANGED <<primary, configs, made, listed, sync, trusted, overtaken, edits, faults>>

Next ==
  \/ BeginSync \/ ReadConfigs \/ CommitConfig \/ SyncFails
  \/ AddAccount \/ \E login \in Logins, big \in BOOLEAN : AddAccountWithAuth(login, big)
  \/ EditPrimary
  \/ \E h \in Homes, p \in Projects : TrustProject(h, p)
  \/ \E h \in Homes \union {Primary}, credentials \in Written : WriteAuth(h, credentials)

\* The ticker runs on; a file is read and written in bounded time.
Spec == Init /\ [][Next]_vars /\ WF_vars(BeginSync) /\ WF_vars(ReadConfigs) /\ WF_vars(CommitConfig)

--------------------------------------------------------------------------------
\* Every variable keeps its shape; the loop holds a merged file only for a home
\* that is still to do, and an account is listed once, in a home that was made.
TypeOK ==
  /\ primary \in Configs /\ made \in 0..MaxHomes
  /\ \A h \in Homes : configs[h] # <<>> => h <= made
  /\ Listed \subseteq 1..made /\ IsInjective(listed)
  /\ sync.merged # NoValue => sync.queue # <<>>
  /\ Range(sync.queue) \subseteq Listed /\ IsInjective(sync.queue)
  /\ \A h \in Homes : overtaken[h] \subseteq trusted[h] /\ trusted[h] \subseteq Projects
  /\ escaped \subseteq Logins
  /\ edits \in 0..MaxEdits /\ faults \in 0..MaxFaults

\* A synchronisation now would change nothing.
Current(h) == configs[h] = Merge(primary, configs[h])

\* The lane of a request does not depend on the account it goes to: a home that
\* is current classifies every request as the Primary's home does.
LaneIsPoolWide ==
  \A h \in Listed : Current(h) =>
    \A q \in Requests : ClassifyRequestLane(q, configs[h]) = ClassifyRequestLane(q, primary)

\* The section of a line as TOML has it: a comment after a header changes nothing.
TomlSection(lines, i) ==
  LET headers == {j \in 1..i : lines[j].header}
  IN IF headers = {} THEN NoValue ELSE lines[Max(headers)].name
SettingsOf(lines, section) ==
  {i \in DOMAIN lines : ~lines[i].header /\ TomlSection(lines, i) = section}

TrustIn(lines) == {p \in Projects : SettingsOf(lines, p) # {}}
CredentialsIn(lines, key) == {i \in SettingsOf(lines, NoValue) : lines[i].name = key}

\* What the Primary may hold in a form the filters do not know: a header with a
\* comment, a setting without a space before its "=".
Unfiltered == UNION {{c[i].name : i \in {k \in DOMAIN c : ~c[k].plain}} : c \in Configs}

\* store.go: "Credential stores and project trust remain local to each account".
\* An isolated home has the trust its own app-server gave, and one setting for
\* each credential store; except for what the filters let through.
SecretsStayLocal ==
  \A h \in Listed :
    /\ TrustIn(configs[h]) \subseteq trusted[h] \union Unfiltered
    /\ \A key \in CredentialKeys :
         /\ configs[h][Min(CredentialsIn(configs[h], key))].value = "file"
         /\ key \in Unfiltered \/ Cardinality(CredentialsIn(configs[h], key)) = 1

\* The trust an app-server gave is lost only if it was given between the moment
\* the loop read the file and the one it replaced it.
TrustLostOnlyInOverlap ==
  \A h \in Listed : trusted[h] \ overtaken[h] \subseteq TrustIn(configs[h])

\* An import never brings a ChatGPT account that the Primary or another subscription
\* is logged in to: two homes have the same one only if an app-server logged in to
\* it again, or if a file was too large to be compared.  Which of them was first,
\* and what was logged out or renewed in between, does not matter.
ImportsAreDistinct ==
  \A g, h \in Accounts :
    g # h /\ auth[g] # NoLogin /\ auth[h] # NoLogin /\ auth[g].login = auth[h].login
      => auth[g].login \in escaped

\* store.go: the managed configuration is propagated "to every isolated
\* subscription": when the edits end, every home becomes and stays current, those
\* added meanwhile and those behind a home whose file could not be written too.
EditsReachEveryHome == <>[](\A h \in Listed : Current(h))

================================================================================
