-------------------------- MODULE AdapterStart_proofs --------------------------
(***************************************************************************)
(* Proofs about AdapterStart, for any environments, arguments, edits and   *)
(* numbers of kills: what runs is complete and fresh, and a chat agrees    *)
(* with what runs about proxy, endpoint and timeouts.                      *)
(***************************************************************************)
EXTENDS AdapterStart, TLAPS

-----------------------------------------------------------------------------
(* The invariant.                                                          *)

FileKeys == {"protocol", "cert", "port", "advertised", "log_dir", "verify_client",
             "transport", "register", "reg_cert", "server_id", "client",
             "sections", "body", "providers"}

(* A file is a base file, which does not ask clients for certificates, or  *)
(* has both sections, with a number for the timeout of commands.           *)
WellFormed(f) ==
  /\ DOMAIN f = FileKeys
  /\ f.protocol = "mtls"
  /\ \/ f.sections = {} /\ f.verify_client = Unset
     \/ /\ f.sections = {"mwps", "provider_clients"}
        /\ "command_timeout" \in DOMAIN f.body
        /\ f.body.command_timeout \in Int

(* What generates, here or on the command line, has numbers.               *)
SettingsInv ==
  /\ image \in Images /\ env \in Envs
  /\ pc = "overlay" => NumbersOk(image, env)
  /\ cli # Unset => cli.command_timeout \in Int

FileInv == Readable(file) => WellFormed(file)

(* docker: where a start is, when the operator does not write the file.    *)
FreshInv ==
  image = "docker" /\ ~ touched =>
    /\ pc = "overlay" => file = Base(Mine)
    /\ pc \in {"backend", "launch"} => file = Completed(Base(Mine), Mine)
    /\ pc = "up" => running.config = Completed(Base(Mine), Mine)

(* What runs has passed the launcher.                                      *)
RunInv ==
  /\ running # Unset => pc = "up"
  /\ pc = "up" =>
       /\ WellFormed(running.config)
       /\ running.config.sections # {}
       /\ running.role = "chat"
       /\ running.config.cert.dir \in disk
       /\ ContractOk(running.config)

(* What a chat has loaded is of its own copy of the file, and of the       *)
(* environment that the container still has.                               *)
ChatInv ==
  chat # Unset =>
    /\ pc = "up"
    /\ DOMAIN chat = {"config", "url", "proxy", "client", "reply"}
    /\ chat.proxy # Unset => chat.proxy = LoadedProxy(chat.config, env)
    /\ chat.reply = "none" => chat.url = LoadedUrl(chat.config, env)
    /\ chat.client # Unset =>
         /\ HasDefaultClient(chat.config.providers)
         /\ chat.client = DefaultClient(chat.config.providers)
         /\ chat.url = LoadedUrl(chat.config, env)

IInv == SettingsInv /\ FileInv /\ FreshInv /\ RunInv /\ ChatInv

-----------------------------------------------------------------------------
(* Files.                                                                  *)

LEMMA MineKept == ASSUME UNCHANGED <<image, env>> PROVE Mine' = Mine
  BY DEF Mine

LEMMA BaseWellFormed == \A s : WellFormed(Base(s))
  BY DEF WellFormed, FileKeys, Base, BaseFile

LEMMA CompletedWellFormed ==
  ASSUME NEW f, NEW s, WellFormed(f), s.command_timeout \in Int
  PROVE  WellFormed(Completed(f, s))
<1> DEFINE c == Completed(f, s)
<1>1. DOMAIN c = FileKeys
  BY DEF Completed, WellFormed
<1>2. c.protocol = "mtls" /\ c.sections = {"mwps", "provider_clients"}
  BY DEF Completed, WellFormed, FileKeys
<1>3. "command_timeout" \in DOMAIN c.body /\ c.body.command_timeout = s.command_timeout
  BY DEF Completed, WellFormed, FileKeys
<1> QED
  BY <1>1, <1>2, <1>3 DEF WellFormed

LEMMA EditedWellFormed ==
  ASSUME NEW f, WellFormed(f), "provider_clients" \in f.sections,
         NEW t \in Int, NEW p
  PROVE  /\ WellFormed([f EXCEPT !.body.command_timeout = t])
         /\ WellFormed([f EXCEPT !.providers = p])
<1>1. /\ "command_timeout" \in DOMAIN f.body
      /\ f.sections = {"mwps", "provider_clients"}
  BY DEF WellFormed
<1>2. WellFormed([f EXCEPT !.body.command_timeout = t])
  BY <1>1 DEF WellFormed, FileKeys
<1>3. WellFormed([f EXCEPT !.providers = p])
  BY <1>1 DEF WellFormed, FileKeys
<1> QED
  BY <1>2, <1>3

(* A script's settings, once it has converted the numbers.                 *)
LEMMA MineHasTimeout ==
  ASSUME image \in Images, env \in Envs, NumbersOk(image, env)
  PROVE  Mine.command_timeout \in Int
  BY StartAssumption
  DEF Mine, DockerSettings, ContainerSettings, NumbersOk, Get, Blank

(* Whatever a launcher lets run has both sections, and is not the database *)
(* server's.                                                               *)
LEMMA LaunchedComplete ==
  ASSUME image \in Images, NEW f, WellFormed(f), LauncherOk(f)
  PROVE  /\ f.sections = {"mwps", "provider_clients"}
         /\ RunsAs(f) = "chat"
         /\ f.cert.dir \in disk
         /\ ContractOk(f)
<1>1. Unset # TRUE
  BY SettingsAssumption DEF Blank
<1>2. f.cert.dir \in disk
  BY DEF LauncherOk, AdapterOk, OnDisk
<1>3. CASE image = "docker"
  <2>1. Role(f) = "chat"
    <3> SUFFICES ASSUME Role(f) = "database" PROVE FALSE
      BY DEF Role
    <3>1. "database_server" \in f.sections
      BY <1>3 DEF LauncherOk, RoleOk, Database!Accepts
    <3> QED
      BY <3>1 DEF WellFormed
  <2>2. ProjectOk(f)
    BY <1>3, <2>1 DEF LauncherOk, RoleOk
  <2> QED
    BY <1>1, <1>2, <1>3, <2>1, <2>2 DEF LauncherOk, RunsAs, ProjectOk, WellFormed
<1>4. CASE image # "docker"
  BY <1>1, <1>2, <1>4 DEF LauncherOk, RunsAs, MtlsOk, WellFormed
<1> QED
  BY <1>3, <1>4

-----------------------------------------------------------------------------
(* The parts of the invariant, one by one.                                 *)

LEMMA InitIInv == Init => IInv
  BY DEF Init, IInv, SettingsInv, FileInv, Readable, FreshInv, RunInv, ChatInv

LEMMA SettingsKept == IInv /\ [Next]_vars => SettingsInv'
<1> SUFFICES ASSUME IInv, [Next]_vars PROVE SettingsInv'
  OBVIOUS
<1> USE DEF IInv, SettingsInv
<1>1. CASE Boot
  <2>1. CASE GenerateBase
    BY <2>1 DEF GenerateBase, Exit, NumbersOk
  <2>2. CASE GenerateRest
    BY <2>2 DEF GenerateRest, Exit
  <2>3. CASE EnterDocker \/ EnterContainer \/ StartBackend
    BY <2>3 DEF EnterDocker, EnterContainer, StartBackend
  <2>4. CASE Launch
    BY <2>4 DEF Launch, Exit
  <2> QED
    BY <1>1, <2>1, <2>2, <2>3, <2>4 DEF Boot
<1>2. CASE ChatLoads \/ (\E answer \in Answers : ChatAsks(answer)) \/ ChatEnds
  BY <1>2 DEF ChatLoads, ChatAsks, ChatEnds, NumbersOk
<1>3. ASSUME NEW e \in Envs, Recreate(e) PROVE SettingsInv'
  BY <1>3 DEF Recreate, Down
<1>4. ASSUME NEW dir \in Dirs, MountCerts(dir) PROVE SettingsInv'
  BY <1>4 DEF MountCerts, NumbersOk
<1>5. ASSUME NEW args \in CliArgs, CliBase(args) PROVE SettingsInv'
  BY <1>5 DEF CliBase, CliSettings, NumbersOk
<1>6. CASE CliRest
  BY <1>6 DEF CliRest, NumbersOk
<1>7. ASSUME NEW e \in Edits, Edit(e) PROVE SettingsInv'
  BY <1>7 DEF Edit, NumbersOk
<1>8. CASE Kill
  BY <1>8 DEF Kill, Down
<1>9. CASE UNCHANGED vars
  BY <1>9 DEF vars, NumbersOk
<1> QED
  BY <1>1, <1>2, <1>3, <1>4, <1>5, <1>6, <1>7, <1>8, <1>9 DEF Next

LEMMA FileKept == IInv /\ [Next]_vars => FileInv'
<1> SUFFICES ASSUME IInv, [Next]_vars PROVE FileInv'
  OBVIOUS
<1>0. ASSUME UNCHANGED file PROVE FileInv'
  BY <1>0 DEF IInv, FileInv, Readable
<1>1. CASE Boot
  <2>1. CASE GenerateBase
    <3>1. CASE file' = Base(Mine)
      BY <3>1, BaseWellFormed DEF FileInv
    <3> QED
      BY <1>0, <2>1, <3>1 DEF GenerateBase
  <2>2. CASE GenerateRest
    <3>1. CASE Readable(file) /\ file' = Completed(file, Mine)
      <4>1. Mine.command_timeout \in Int
        BY <2>2, MineHasTimeout DEF GenerateRest, IInv, SettingsInv
      <4> QED
        BY <3>1, <4>1, CompletedWellFormed DEF IInv, FileInv
    <3> QED
      BY <1>0, <2>2, <3>1 DEF GenerateRest
  <2>3. CASE EnterDocker \/ EnterContainer \/ StartBackend
    BY <1>0, <2>3 DEF EnterDocker, EnterContainer, StartBackend
  <2>4. CASE Launch
    BY <1>0, <2>4 DEF Launch
  <2> QED
    BY <1>1, <2>1, <2>2, <2>3, <2>4 DEF Boot
<1>2. CASE ChatLoads \/ (\E answer \in Answers : ChatAsks(answer)) \/ ChatEnds
  BY <1>0, <1>2 DEF ChatLoads, ChatAsks, ChatEnds
<1>3. ASSUME NEW e \in Envs, Recreate(e) PROVE FileInv'
  BY <1>0, <1>3 DEF Recreate
<1>4. ASSUME NEW dir \in Dirs, MountCerts(dir) PROVE FileInv'
  BY <1>0, <1>4 DEF MountCerts
<1>5. ASSUME NEW args \in CliArgs, CliBase(args) PROVE FileInv'
  BY <1>5, BaseWellFormed DEF CliBase, FileInv
<1>6. CASE CliRest
  <2>1. CASE Readable(file) /\ file' = Completed(file, cli)
    BY <1>6, <2>1, CompletedWellFormed DEF CliRest, IInv, FileInv, SettingsInv
  <2> QED
    BY <1>0, <1>6, <2>1 DEF CliRest
<1>7. ASSUME NEW e \in Edits, Edit(e) PROVE FileInv'
  <2>1. WellFormed(file) /\ "provider_clients" \in file.sections
    BY <1>7 DEF Edit, IInv, FileInv
  <2>2. e.command_timeout \in Int
    BY StartAssumption
  <2>3. \/ file' = [file EXCEPT !.body.command_timeout = e.command_timeout]
        \/ file' = [file EXCEPT !.providers = Providers(e.default, e.sections)]
    BY <1>7 DEF Edit
  <2> DEFINE p == Providers(e.default, e.sections)
  <2>4. /\ WellFormed([file EXCEPT !.body.command_timeout = e.command_timeout])
        /\ WellFormed([file EXCEPT !.providers = p])
    <3> HIDE DEF p
    <3> QED
      BY <2>1, <2>2, EditedWellFormed
  <2>5. WellFormed(file')
    BY <2>3, <2>4
  <2> QED
    BY <2>5 DEF FileInv
<1>8. CASE Kill
  <2>1. file' = file \/ file' = Torn
    BY <1>8 DEF Kill
  <2> QED
    BY <1>0, <2>1 DEF FileInv, Readable
<1>9. CASE UNCHANGED vars
  BY <1>0, <1>9 DEF vars
<1> QED
  BY <1>1, <1>2, <1>3, <1>4, <1>5, <1>6, <1>7, <1>8, <1>9 DEF Next

LEMMA FreshKept == IInv /\ [Next]_vars => FreshInv'
<1> SUFFICES ASSUME IInv, [Next]_vars, image' = "docker", ~ touched'
             PROVE  FreshInv'
  BY DEF FreshInv
<1>1. CASE Boot
  <2>0. UNCHANGED <<image, env>> /\ Mine' = Mine
    BY <1>1, MineKept DEF Boot, EnterDocker, EnterContainer, GenerateBase,
                          GenerateRest, StartBackend, Launch
  <2>1. CASE EnterDocker
    BY <2>1 DEF EnterDocker, FreshInv
  <2>2. CASE EnterContainer
    BY <2>0, <2>2 DEF EnterContainer
  <2>3. CASE GenerateBase
    <3>1. CASE pc' = "down"
      BY <3>1 DEF FreshInv
    <3>2. CASE file' = Base(Mine) /\ pc' = "overlay"
      BY <3>2, <2>0 DEF FreshInv
    <3> QED
      BY <2>3, <3>1, <3>2 DEF GenerateBase, Exit
  <2>4. CASE GenerateRest
    <3>1. CASE pc' = "down"
      BY <3>1 DEF FreshInv
    <3>2. CASE file' = Completed(file, Mine) /\ pc' = "backend"
      <4>1. file = Base(Mine)
        BY <2>0, <2>4 DEF GenerateRest, IInv, FreshInv
      <4>2. file' = Completed(Base(Mine), Mine)
        BY <3>2, <4>1
      <4> QED
        BY <2>0, <3>2, <4>2 DEF FreshInv
    <3> QED
      BY <2>4, <3>1, <3>2 DEF GenerateRest, Exit
  <2>5. CASE StartBackend
    BY <2>0, <2>5 DEF StartBackend, IInv, FreshInv
  <2>6. CASE Launch
    <3>1. CASE pc' = "down"
      BY <3>1 DEF FreshInv
    <3>2. CASE pc' = "up" /\ running' = [config |-> file, role |-> RunsAs(file)]
      <4>1. file = Completed(Base(Mine), Mine)
        BY <2>0, <2>6 DEF Launch, IInv, FreshInv
      <4> QED
        BY <2>0, <3>2, <4>1 DEF FreshInv
    <3> QED
      BY <2>6, <3>1, <3>2 DEF Launch, Exit
  <2> QED
    BY <1>1, <2>1, <2>2, <2>3, <2>4, <2>5, <2>6 DEF Boot
<1>2. CASE UNCHANGED <<image, env, file, pc, touched, running>>
  <2>1. Mine' = Mine
    BY <1>2, MineKept
  <2> QED
    BY <1>2, <2>1 DEF IInv, FreshInv
<1>3. ASSUME NEW e \in Envs, Recreate(e) PROVE FreshInv'
  BY <1>3 DEF Recreate, Down, FreshInv
<1>4. ASSUME NEW args \in CliArgs, CliBase(args) PROVE FALSE
  BY <1>4 DEF CliBase
<1>5. CASE CliRest
  BY <1>5 DEF CliRest
<1>6. ASSUME NEW e \in Edits, Edit(e) PROVE FALSE
  BY <1>6 DEF Edit
<1>7. CASE Kill
  BY <1>7 DEF Kill, Down, FreshInv
<1>8. CASE ChatLoads \/ (\E answer \in Answers : ChatAsks(answer)) \/ ChatEnds
  BY <1>2, <1>8 DEF ChatLoads, ChatAsks, ChatEnds
<1>9. ASSUME NEW dir \in Dirs, MountCerts(dir) PROVE FreshInv'
  BY <1>2, <1>9 DEF MountCerts
<1> QED
  BY <1>1, <1>2, <1>3, <1>4, <1>5, <1>6, <1>7, <1>8, <1>9 DEF Next, vars

LEMMA RunKept == IInv /\ [Next]_vars => RunInv'
<1> SUFFICES ASSUME IInv, [Next]_vars PROVE RunInv'
  OBVIOUS
<1>0. ASSUME UNCHANGED <<pc, running>>, disk \subseteq disk' PROVE RunInv'
  BY <1>0 DEF IInv, RunInv
<1>d. ASSUME pc' # "up", UNCHANGED running, pc # "up" PROVE RunInv'
  BY <1>d DEF IInv, RunInv
<1>1. CASE Boot
  <2>1. CASE Launch
    <3>1. CASE Readable(file) /\ LauncherOk(file)
      <4>1. pc' = "up" /\ running' = [config |-> file, role |-> RunsAs(file)] /\ disk' = disk
        BY <2>1, <3>1 DEF Launch
      <4>2. WellFormed(file)
        BY <3>1 DEF IInv, FileInv
      <4>3. /\ file.sections = {"mwps", "provider_clients"}
            /\ RunsAs(file) = "chat"
            /\ file.cert.dir \in disk
            /\ ContractOk(file)
        BY <3>1, <4>2, LaunchedComplete DEF IInv, SettingsInv
      <4> QED
        BY <4>1, <4>2, <4>3 DEF RunInv
    <3> QED
      BY <1>d, <2>1, <3>1 DEF Launch, Exit
  <2>2. CASE EnterDocker \/ EnterContainer \/ StartBackend
    BY <1>d, <2>2 DEF EnterDocker, EnterContainer, StartBackend
  <2>3. CASE GenerateBase
    BY <1>d, <2>3 DEF GenerateBase, Exit
  <2>4. CASE GenerateRest
    BY <1>d, <2>4 DEF GenerateRest, Exit
  <2> QED
    BY <1>1, <2>1, <2>2, <2>3, <2>4 DEF Boot
<1>2. CASE ChatLoads \/ (\E answer \in Answers : ChatAsks(answer)) \/ ChatEnds
  BY <1>0, <1>2 DEF ChatLoads, ChatAsks, ChatEnds
<1>3. ASSUME NEW e \in Envs, Recreate(e) PROVE RunInv'
  BY <1>3 DEF Recreate, Down, RunInv
<1>4. ASSUME NEW dir \in Dirs, MountCerts(dir) PROVE RunInv'
  BY <1>0, <1>4 DEF MountCerts
<1>5. ASSUME NEW args \in CliArgs, CliBase(args) PROVE RunInv'
  BY <1>0, <1>5 DEF CliBase
<1>6. CASE CliRest
  BY <1>0, <1>6 DEF CliRest
<1>7. ASSUME NEW e \in Edits, Edit(e) PROVE RunInv'
  BY <1>0, <1>7 DEF Edit
<1>8. CASE Kill
  BY <1>8 DEF Kill, Down, RunInv
<1>9. CASE UNCHANGED vars
  BY <1>0, <1>9 DEF vars
<1> QED
  BY <1>1, <1>2, <1>3, <1>4, <1>5, <1>6, <1>7, <1>8, <1>9 DEF Next

(* A chat that has loaded, or could not.                                   *)
LEMMA LoadedChat ==
  ASSUME IInv, ChatLoads PROVE ChatInv'
<1>1. UNCHANGED <<env, pc>> /\ pc = "up"
  BY DEF ChatLoads
<1>2. CASE Readable(file) /\ Loads(file, env)
  <2>1. chat' = [config |-> file, url |-> LoadedUrl(file, env),
                 proxy |-> LoadedProxy(file, env), client |-> Unset, reply |-> "none"]
    BY <1>2 DEF ChatLoads
  <2> DEFINE u == LoadedUrl(file, env)
             p == LoadedProxy(file, env)
  <2>2. /\ DOMAIN chat' = {"config", "url", "proxy", "client", "reply"}
        /\ chat'.config = file /\ chat'.url = u /\ chat'.proxy = p
        /\ chat'.client = Unset
    <3> HIDE DEF u, p
    <3> QED
      BY <2>1 DEF u, p
  <2>3. u = LoadedUrl(chat'.config, env') /\ p = LoadedProxy(chat'.config, env')
    BY <1>1, <2>2
  <2> QED
    BY <1>1, <2>2, <2>3 DEF ChatInv
<1>3. CASE ~ (Readable(file) /\ Loads(file, env))
  <2>1. chat' = [config |-> file, url |-> Unset, proxy |-> Unset,
                 client |-> Unset, reply |-> LoadError(file)]
    BY <1>3 DEF ChatLoads
  <2>2. LoadError(file) # "none"
    BY DEF LoadError
  <2>3. /\ DOMAIN chat' = {"config", "url", "proxy", "client", "reply"}
        /\ chat'.proxy = Unset /\ chat'.client = Unset /\ chat'.reply # "none"
    <3> HIDE DEF LoadError
    <3> QED
      BY <2>1, <2>2
  <2> QED
    BY <1>1, <2>3 DEF ChatInv
<1> QED
  BY <1>2, <1>3

LEMMA AskedChat ==
  ASSUME IInv, NEW answer \in Answers, ChatAsks(answer) PROVE ChatInv'
<1>1. /\ UNCHANGED <<env, pc>> /\ pc = "up"
      /\ chat.reply = "none"
      /\ chat.url = LoadedUrl(chat.config, env)
      /\ DOMAIN chat = {"config", "url", "proxy", "client", "reply"}
      /\ chat.proxy # Unset => chat.proxy = LoadedProxy(chat.config, env)
  BY DEF ChatAsks, IInv, ChatInv
<1>2. Exchange(answer) # "none"
  BY DEF Exchange
<1> DEFINE section == chat.config.providers
           client_ == DefaultClient(section)
           reply_ == Exchange(answer)
<1>3. CASE Resolves(section, chat.config.body.model) /\ HasDefaultClient(section)
  <2>1. chat' = [chat EXCEPT !.client = client_, !.reply = reply_]
    BY <1>3 DEF ChatAsks
  <2>2. /\ DOMAIN chat' = DOMAIN chat /\ chat'.config = chat.config
        /\ chat'.url = chat.url /\ chat'.proxy = chat.proxy
        /\ chat'.client = client_ /\ chat'.reply = reply_
    <3> HIDE DEF client_, reply_, section
    <3> QED
      BY <1>1, <2>1
  <2> QED
    BY <1>1, <1>2, <1>3, <2>2 DEF ChatInv
<1>4. CASE ~ (Resolves(section, chat.config.body.model) /\ HasDefaultClient(section))
  <2>1. chat' = [chat EXCEPT !.reply = "-32603"]
    BY <1>4 DEF ChatAsks
  <2>2. /\ DOMAIN chat' = DOMAIN chat /\ chat'.config = chat.config
        /\ chat'.url = chat.url /\ chat'.proxy = chat.proxy
        /\ chat'.client = chat.client /\ chat'.reply # "none"
    BY <1>1, <2>1
  <2> QED
    BY <1>1, <2>2 DEF ChatInv, ChatAsks, IInv
<1> QED
  BY <1>3, <1>4

LEMMA ChatKept == IInv /\ [Next]_vars => ChatInv'
<1> SUFFICES ASSUME IInv, [Next]_vars PROVE ChatInv'
  OBVIOUS
<1>0. ASSUME UNCHANGED <<env, pc, chat>> PROVE ChatInv'
  BY <1>0 DEF IInv, ChatInv
<1>d. ASSUME pc # "up", UNCHANGED chat PROVE ChatInv'
  BY <1>d DEF IInv, ChatInv
<1>1. CASE Boot
  BY <1>d, <1>1 DEF Boot, EnterDocker, EnterContainer, GenerateBase, GenerateRest,
                    StartBackend, Launch
<1>2. CASE ChatLoads
  BY <1>2, LoadedChat
<1>3. ASSUME NEW answer \in Answers, ChatAsks(answer) PROVE ChatInv'
  BY <1>3, AskedChat
<1>4. CASE ChatEnds
  BY <1>4 DEF ChatEnds, ChatInv
<1>5. ASSUME NEW e \in Envs, Recreate(e) PROVE ChatInv'
  BY <1>5 DEF Recreate, Down, ChatInv
<1>6. ASSUME NEW dir \in Dirs, MountCerts(dir) PROVE ChatInv'
  BY <1>0, <1>6 DEF MountCerts
<1>7. ASSUME NEW args \in CliArgs, CliBase(args) PROVE ChatInv'
  BY <1>0, <1>7 DEF CliBase
<1>8. CASE CliRest
  BY <1>0, <1>8 DEF CliRest
<1>9. ASSUME NEW e \in Edits, Edit(e) PROVE ChatInv'
  BY <1>0, <1>9 DEF Edit
<1>10. CASE Kill
  BY <1>10 DEF Kill, Down, ChatInv
<1>11. CASE UNCHANGED vars
  BY <1>0, <1>11 DEF vars
<1> QED
  BY <1>1, <1>2, <1>3, <1>4, <1>5, <1>6, <1>7, <1>8, <1>9, <1>10, <1>11 DEF Next

LEMMA IInvHolds == Spec => []IInv
<1>1. IInv /\ [Next]_vars => IInv'
  BY SettingsKept, FileKept, FreshKept, RunKept, ChatKept DEF IInv
<1> QED
  BY <1>1, InitIInv, PTL DEF Spec

-----------------------------------------------------------------------------
(* The theorems.                                                           *)

(* Types, and: while the adapter is up, and only then, there is what runs. *)
THEOREM Typed == Spec => []TypeOK
<1>1. Init => TypeOK
  <2> SUFFICES ASSUME Init PROVE TypeOK
    OBVIOUS
  <2>1. Get(env.CERTS_DIR, "/app/certs") \in Dirs
    BY StartAssumption DEF Init
  <2>2. disk \subseteq Dirs /\ image \in {"docker", "container"}
    BY <2>1, StartAssumption DEF Init
  <2>3. changes \in 0..MaxChanges /\ kills \in 0..MaxKills
    BY BoundsAssumption DEF Init
  <2> QED
    BY <2>2, <2>3 DEF Init, TypeOK
<1>2. IInv /\ TypeOK /\ [Next]_vars => TypeOK'
  <2> SUFFICES ASSUME IInv, TypeOK, [Next]_vars PROVE TypeOK'
    OBVIOUS
  <2>0. Mine.certs_dir \in Dirs
    BY StartAssumption DEF IInv, SettingsInv, Mine, DockerSettings, ContainerSettings
  <2> USE BoundsAssumption DEF TypeOK
  <2>1. CASE EnterDocker
    BY <2>1 DEF EnterDocker
  <2>2. CASE EnterContainer
    <3>1. disk' \subseteq Dirs
      BY <2>0, <2>2 DEF EnterContainer
    <3>2. pc' \in {"generate", "backend"} /\ pc = "down"
      BY <2>2 DEF EnterContainer
    <3> QED
      BY <2>2, <3>1, <3>2 DEF EnterContainer
  <2>3. CASE GenerateBase
    BY <2>3 DEF GenerateBase, Exit
  <2>4. CASE GenerateRest
    BY <2>4 DEF GenerateRest, Exit
  <2>5. CASE StartBackend
    BY <2>5 DEF StartBackend
  <2>6. CASE Launch
    BY <2>6 DEF Launch, Exit
  <2>7. CASE ChatLoads \/ (\E answer \in Answers : ChatAsks(answer)) \/ ChatEnds
    BY <2>7 DEF ChatLoads, ChatAsks, ChatEnds
  <2>8. ASSUME NEW e \in Envs, Recreate(e) PROVE TypeOK'
    BY <2>8 DEF Recreate, Change, Down
  <2>9. ASSUME NEW dir \in Dirs, MountCerts(dir) PROVE TypeOK'
    BY <2>9 DEF MountCerts, Change
  <2>10. ASSUME NEW args \in CliArgs, CliBase(args) PROVE TypeOK'
    BY <2>10 DEF CliBase, Change
  <2>11. CASE CliRest
    BY <2>11 DEF CliRest
  <2>12. ASSUME NEW e \in Edits, Edit(e) PROVE TypeOK'
    BY <2>12 DEF Edit, Change
  <2>13. CASE Kill
    BY <2>13 DEF Kill, Down
  <2>14. CASE UNCHANGED vars
    BY <2>14 DEF vars
  <2> QED
    BY <2>1, <2>2, <2>3, <2>4, <2>5, <2>6, <2>7, <2>8, <2>9, <2>10, <2>11, <2>12,
       <2>13, <2>14 DEF Next, Boot
<1> QED
  BY <1>1, <1>2, IInvHolds, PTL DEF Spec

(* docker: where a start that begins with these steps leads.               *)
Stage == CASE pc = "down" -> 0
           [] pc = "generate" -> 1
           [] pc = "overlay" -> 2
           [] pc = "backend" -> 3
           [] pc = "launch" -> 4
           [] pc = "up" -> 5

(* The part of Recovers that is no liveness.  While the environment and    *)
(* the certificates are good, no step of a start fails, whatever file it   *)
(* began with, and each brings it one stage closer to an adapter that is   *)
(* up; unless the operator writes the file while it is being generated.    *)
GoodStartGoesOn ==
  [][(/\ image = "docker" /\ GoodStart /\ Boot
      /\ pc \in {"overlay", "launch"} => ~ touched) => Stage' = Stage + 1]_vars

THEOREM GoodStartsComeUp == Spec => GoodStartGoesOn
<1>1. ASSUME IInv, image = "docker", GoodStart, Boot,
             pc \in {"overlay", "launch"} => ~ touched
      PROVE  Stage' = Stage + 1
  <2> DEFINE f == Completed(Base(Mine), Mine)
  <2>1. NumbersOk(image, env) /\ ~ BadProxy(Mine) /\ ProjectOk(f) /\ LauncherOk(f)
    BY <1>1 DEF GoodStart
  <2>2. Readable(f) /\ Readable(Base(Mine))
    BY <1>1, FilesAssumption DEF IInv, SettingsInv, Mine, Readable
  <2> HIDE DEF f
  <2>3. CASE EnterDocker
    BY <2>3 DEF EnterDocker, Stage
  <2>4. CASE EnterContainer
    BY <1>1, <2>4 DEF EnterContainer
  <2>5. CASE GenerateBase
    BY <2>1, <2>5 DEF GenerateBase, Stage
  <2>6. CASE GenerateRest
    <3>1. pc = "overlay" /\ file = Base(Mine)
      BY <1>1, <2>6 DEF GenerateRest, IInv, FreshInv
    <3>2. pc' = "backend"
      BY <2>1, <2>2, <2>6, <3>1 DEF GenerateRest, f
    <3> QED
      BY <3>1, <3>2 DEF Stage
  <2>7. CASE StartBackend
    BY <2>7 DEF StartBackend, Stage
  <2>8. CASE Launch
    <3>1. pc = "launch" /\ file = f
      BY <1>1, <2>8 DEF Launch, IInv, FreshInv, f
    <3>2. pc' = "up"
      BY <2>1, <2>2, <2>8, <3>1 DEF Launch
    <3> QED
      BY <3>1, <3>2 DEF Stage
  <2> QED
    BY <1>1, <2>3, <2>4, <2>5, <2>6, <2>7, <2>8 DEF Boot
<1> QED
  BY <1>1, IInvHolds, PTL DEF Spec, GoodStartGoesOn

(* No adapter runs on a base file, on one that was only partly written, or *)
(* as the database server, however often generates raise or are killed.    *)
THEOREM RunsOnlyComplete == Spec => []RunsComplete
<1>1. IInv => RunsComplete
  BY DEF IInv, RunInv, RunsComplete, WellFormed
<1> QED
  BY <1>1, IInvHolds, PTL

(* docker: an adapter runs by the environment its container has, unless    *)
(* the operator wrote the file after its start had begun to generate it.   *)
THEOREM RunsFresh == Spec => []FreshConfig
<1>1. IInv => FreshConfig
  BY DEF IInv, RunInv, FreshInv, FreshConfig
<1> QED
  BY <1>1, IInvHolds, PTL

(* A chat in the file that was launched asks the proxy that the adapter    *)
(* registered at, which is also the one that the mwps section names.       *)
THEOREM ChatsUseRegisteredProxy == Spec => []ProxyAgreed
<1>1. IInv => ProxyAgreed
  <2> SUFFICES ASSUME IInv, chat # Unset, chat.proxy # Unset,
                      chat.config = running.config, env.MWPS_MCP_PROXY_URL \in Blank
               PROVE  /\ chat.proxy = running.config.register
                      /\ chat.proxy = chat.config.body.mcp_proxy_url
    BY DEF ProxyAgreed
  <2>1. chat.proxy = running.config.register
    BY DEF IInv, ChatInv, LoadedProxy
  <2>2. running.config.body.mcp_proxy_url = running.config.register
    BY DEF IInv, ChatInv, RunInv, WellFormed, ContractOk
  <2> QED
    BY <2>1, <2>2
<1> QED
  BY <1>1, IInvHolds, PTL

(* Loader, resolver and registry of clients find the model at one URL, for *)
(* any providers that an edit may put in.                                  *)
THEOREM ClientsAskOneEndpoint == Spec => []OneEndpoint
<1>1. IInv => OneEndpoint
  BY DEF IInv, ChatInv, OneEndpoint, HasDefaultClient, HasClient, Builders,
         DefaultClient, Client, LoadedUrl, Resolved, ProviderForModel
<1> QED
  BY <1>1, IInvHolds, PTL

(* docker: a chat that loads the timeout that the launcher read, of more   *)
(* than 40 seconds, gives up before the adapter does.                      *)
THEOREM ChatsTimeOutFirst == Spec => []ClearTimeout
<1>1. IInv => ClearTimeout
  <2> DEFINE t == running.config.body.command_timeout
  <2> SUFFICES ASSUME IInv, image = "docker", chat # Unset,
                      chat.config.body.command_timeout = t, t > 40
               PROVE  Patched(image, running.config, ChatSeconds(chat.config))
                        < Patched(image, running.config, 30)
    BY DEF ClearTimeout
  <2>1. t \in Int
    BY DEF IInv, ChatInv, RunInv, WellFormed
  <2>2. ChatSeconds(chat.config) = t - 10
    <3> HIDE DEF t
    <3> QED
      BY <2>1 DEF ChatSeconds, AtLeast
  <2>3. /\ Patched(image, running.config, t - 10) = t - 10
        /\ Patched(image, running.config, 30) = t
    BY <2>1 DEF Patched
  <2> QED
    BY <2>1, <2>2, <2>3
<1> QED
  BY <1>1, IInvHolds, PTL

-----------------------------------------------------------------------------
(* What is generated can be loaded.                                        *)

(* Whoever completes the file or edits its providers has validated them,   *)
(* and a chat is not asked before they are.                                *)
ProvidersInv ==
  /\ Readable(file) /\ file.sections # {} => ValidProviders(file.providers)
  /\ chat # Unset /\ chat.reply = "none" => ValidProviders(chat.config.providers)

LoadInv == ProvidersInv /\ GeneratedLoads

LEMMA CompletedProviders ==
  ASSUME NEW f, NEW s, WellFormed(f), ProjectOk(Completed(f, s))
  PROVE  ValidProviders(Completed(f, s).providers)
  BY DEF ProjectOk

LEMMA EditedProviders ==
  ASSUME NEW f, NEW t, NEW p, WellFormed(f), "provider_clients" \in f.sections
  PROVE  /\ [f EXCEPT !.body.command_timeout = t].providers = f.providers
         /\ [f EXCEPT !.providers = p].providers = p
  BY DEF WellFormed, FileKeys

(* The file as the environment generates it.                               *)
LEMMA GeneratedFields ==
  ASSUME NEW s
  PROVE  LET f == Completed(Base(s), s)
         IN  /\ f.sections = {"mwps", "provider_clients"}
             /\ f.body.commands_policy = "allow_by_default"
             /\ f.body.model = s.mwps_model /\ f.body.timeout = s.mwps_timeout
             /\ f.body.max_tool_rounds = s.max_tool_rounds
             /\ f.providers.default = "mwps"
             /\ DOMAIN f.providers.sections = {"mwps"}
  BY DEF Completed, Base, BaseFile, Providers

(* Its limits, and those that the environment puts over them.              *)
LEMMA LimitsLoaded ==
  ASSUME LimitsOk(env)
  PROVE  /\ Or(env.MWPS_MODEL, Mine.mwps_model) \notin Blank
         /\ Or(env.MWPS_TIMEOUT, Mine.mwps_timeout) > 0
         /\ Or(env.MWPS_MAX_TOOL_ROUNDS, Mine.max_tool_rounds) >= 1
<1>1. Mine.mwps_model = Get(env.MWPS_MODEL, "llama3.2") /\ Mine.max_tool_rounds = 10
  BY DEF Mine, DockerSettings, ContainerSettings
<1>2. Mine.mwps_timeout = Get(env.MWPS_TIMEOUT, 120) \/ Mine.mwps_timeout = 60
  BY DEF Mine, DockerSettings, ContainerSettings
<1>3. Or(env.MWPS_MODEL, Mine.mwps_model) \notin Blank
  BY <1>1, StartAssumption DEF LimitsOk, Or, Get, Blank
<1>4. Or(env.MWPS_TIMEOUT, Mine.mwps_timeout) > 0
  BY <1>2 DEF LimitsOk, Or, Get, Blank
<1>5. Or(env.MWPS_MAX_TOOL_ROUNDS, Mine.max_tool_rounds) >= 1
  BY <1>1 DEF LimitsOk, Or, Get, Blank
<1> QED
  BY <1>3, <1>4, <1>5

LEMMA GeneratedFileLoads ==
  ASSUME NEW f, f = Completed(Base(Mine), Mine), ValidProviders(f.providers),
         LimitsOk(env)
  PROVE  Loads(f, env)
<1>1. /\ f.sections = {"mwps", "provider_clients"}
      /\ f.body.commands_policy = "allow_by_default"
      /\ f.body.model = Mine.mwps_model /\ f.body.timeout = Mine.mwps_timeout
      /\ f.body.max_tool_rounds = Mine.max_tool_rounds
      /\ f.providers.default = "mwps"
      /\ DOMAIN f.providers.sections = {"mwps"}
  BY GeneratedFields
<1>2. LoadedUrl(f, env) \notin Blank
  BY <1>1 DEF LoadedUrl, ValidProviders
<1>3. FieldsOk(f, env)
  BY <1>1, <1>2, LimitsLoaded DEF FieldsOk, LoadedTimeout, LoadedRounds
<1> QED
  BY <1>1, <1>3 DEF Loads

(* The answer changes the chat's reply, and its client perhaps.            *)
LEMMA AnsweredChat ==
  ASSUME IInv, NEW answer \in Answers, ChatAsks(answer)
  PROVE  /\ chat'.config = chat.config /\ chat'.reply # "none"
         /\ (/\ Resolves(chat.config.providers, chat.config.body.model)
             /\ HasDefaultClient(chat.config.providers))
              => chat'.reply = Exchange(answer)
<1> DEFINE section == chat.config.providers
           client_ == DefaultClient(section)
           reply_ == Exchange(answer)
<1>1. DOMAIN chat = {"config", "url", "proxy", "client", "reply"}
  BY DEF ChatAsks, IInv, ChatInv
<1>2. reply_ # "none"
  BY DEF Exchange
<1>3. CASE Resolves(section, chat.config.body.model) /\ HasDefaultClient(section)
  <2>1. chat' = [chat EXCEPT !.client = client_, !.reply = reply_]
    BY <1>3 DEF ChatAsks
  <2>2. chat'.config = chat.config /\ chat'.reply = reply_
    <3> HIDE DEF client_, reply_, section
    <3> QED
      BY <1>1, <2>1
  <2> QED
    BY <1>2, <2>2
<1>4. CASE ~ (Resolves(section, chat.config.body.model) /\ HasDefaultClient(section))
  <2>1. chat' = [chat EXCEPT !.reply = "-32603"]
    BY <1>4 DEF ChatAsks
  <2> QED
    BY <1>1, <1>4, <2>1
<1> QED
  BY <1>3, <1>4

LEMMA ProvidersKept == IInv /\ ProvidersInv /\ [Next]_vars => ProvidersInv'
<1> SUFFICES ASSUME IInv, ProvidersInv, [Next]_vars PROVE ProvidersInv'
  OBVIOUS
<1> DEFINE OfFile == Readable(file) /\ file.sections # {} => ValidProviders(file.providers)
           OfChat == chat # Unset /\ chat.reply = "none" =>
                       ValidProviders(chat.config.providers)
<1>a. OfFile /\ OfChat
  BY DEF ProvidersInv
<1>1. OfFile'
  <2>1. ASSUME UNCHANGED file PROVE OfFile'
    BY <1>a, <2>1 DEF Readable
  <2>2. ASSUME NEW s, Readable(file), ProjectOk(Completed(file, s)),
               file' = Completed(file, s)
        PROVE  OfFile'
    BY <2>2, CompletedProviders DEF IInv, FileInv
  <2>3. ASSUME NEW s, file' = Base(s) PROVE OfFile'
    BY <2>3 DEF Base, BaseFile
  <2>4. CASE GenerateBase
    BY <2>1, <2>3, <2>4 DEF GenerateBase
  <2>5. CASE GenerateRest
    BY <2>1, <2>2, <2>5 DEF GenerateRest
  <2>6. CASE EnterDocker \/ EnterContainer \/ StartBackend \/ Launch
    BY <2>1, <2>6 DEF EnterDocker, EnterContainer, StartBackend, Launch
  <2>7. CASE ChatLoads \/ (\E answer \in Answers : ChatAsks(answer)) \/ ChatEnds
    BY <2>1, <2>7 DEF ChatLoads, ChatAsks, ChatEnds
  <2>8. ASSUME NEW e \in Envs, Recreate(e) PROVE OfFile'
    BY <2>1, <2>8 DEF Recreate
  <2>9. ASSUME NEW dir \in Dirs, MountCerts(dir) PROVE OfFile'
    BY <2>1, <2>9 DEF MountCerts
  <2>10. ASSUME NEW args \in CliArgs, CliBase(args) PROVE OfFile'
    BY <2>3, <2>10 DEF CliBase
  <2>11. CASE CliRest
    BY <2>1, <2>2, <2>11 DEF CliRest
  <2>12. ASSUME NEW e \in Edits, Edit(e) PROVE OfFile'
    <3> DEFINE p == Providers(e.default, e.sections)
    <3>1. /\ Readable(file) /\ WellFormed(file) /\ "provider_clients" \in file.sections
      BY <2>12 DEF Edit, IInv, FileInv
    <3>2. \/ file' = [file EXCEPT !.body.command_timeout = e.command_timeout]
          \/ file' = [file EXCEPT !.providers = p] /\ ValidProviders(p)
      BY <2>12 DEF Edit, Generates
    <3>3. ValidProviders(file.providers)
      BY <1>a, <3>1
    <3> HIDE DEF p
    <3>4. /\ [file EXCEPT !.body.command_timeout = e.command_timeout].providers
                = file.providers
          /\ [file EXCEPT !.providers = p].providers = p
      BY <3>1, EditedProviders
    <3>5. CASE file' = [file EXCEPT !.body.command_timeout = e.command_timeout]
      BY <3>3, <3>4, <3>5
    <3>6. CASE file' = [file EXCEPT !.providers = p] /\ ValidProviders(p)
      BY <3>4, <3>6
    <3> QED
      BY <3>2, <3>5, <3>6
  <2>13. CASE Kill
    <3>1. file' = file \/ file' = Torn
      BY <2>13 DEF Kill
    <3> QED
      BY <2>1, <3>1 DEF Readable
  <2>14. CASE UNCHANGED vars
    BY <2>1, <2>14 DEF vars
  <2> QED
    BY <2>4, <2>5, <2>6, <2>7, <2>8, <2>9, <2>10, <2>11, <2>12, <2>13, <2>14
    DEF Next, Boot
<1>2. OfChat'
  <2>1. ASSUME UNCHANGED chat PROVE OfChat'
    BY <1>a, <2>1
  <2>2. CASE Boot
    BY <2>1, <2>2 DEF Boot, EnterDocker, EnterContainer, GenerateBase, GenerateRest,
                      StartBackend, Launch
  <2>3. CASE ChatLoads
    <3>1. CASE Readable(file) /\ Loads(file, env)
      BY <2>3, <3>1 DEF ChatLoads, Loads
    <3>2. CASE ~ (Readable(file) /\ Loads(file, env))
      <4>1. chat'.reply = LoadError(file)
        BY <2>3, <3>2 DEF ChatLoads
      <4> QED
        BY <4>1 DEF LoadError
    <3> QED
      BY <3>1, <3>2
  <2>4. ASSUME NEW answer \in Answers, ChatAsks(answer) PROVE OfChat'
    BY <2>4, AnsweredChat
  <2>5. CASE ChatEnds
    BY <2>5 DEF ChatEnds
  <2>6. ASSUME NEW e \in Envs, Recreate(e) PROVE OfChat'
    BY <2>6 DEF Recreate, Down
  <2>7. CASE CliRest
    BY <2>1, <2>7 DEF CliRest
  <2>8. ASSUME NEW dir \in Dirs, MountCerts(dir) PROVE OfChat'
    BY <2>1, <2>8 DEF MountCerts
  <2>9. ASSUME NEW args \in CliArgs, CliBase(args) PROVE OfChat'
    BY <2>1, <2>9 DEF CliBase
  <2>10. ASSUME NEW e \in Edits, Edit(e) PROVE OfChat'
    BY <2>1, <2>10 DEF Edit
  <2>11. CASE Kill
    BY <2>11 DEF Kill, Down
  <2>12. CASE UNCHANGED vars
    BY <2>1, <2>12 DEF vars
  <2> QED
    BY <2>2, <2>3, <2>4, <2>5, <2>6, <2>7, <2>8, <2>9, <2>10, <2>11, <2>12 DEF Next
<1> QED
  BY <1>1, <1>2 DEF ProvidersInv

LEMMA LoadsKept == IInv /\ LoadInv /\ [Next]_vars => GeneratedLoads'
<1> SUFFICES ASSUME IInv, LoadInv, [Next]_vars PROVE GeneratedLoads'
  OBVIOUS
<1>1. ASSUME UNCHANGED <<image, env, chat>> PROVE GeneratedLoads'
  BY <1>1, MineKept DEF LoadInv, GeneratedLoads
<1>2. CASE Boot
  BY <1>1, <1>2 DEF Boot, EnterDocker, EnterContainer, GenerateBase, GenerateRest,
                    StartBackend, Launch
<1>3. CASE ChatLoads
  <2> SUFFICES ASSUME Readable(chat'.config), LimitsOk(env),
                      chat'.config = Completed(Base(Mine), Mine)
               PROVE  chat'.reply \notin {"-32602", "-32603"}
    BY <1>3, MineKept DEF ChatLoads, GeneratedLoads
  <2>1. CASE Readable(file) /\ Loads(file, env)
    <3>1. chat'.reply = "none"
      BY <1>3, <2>1 DEF ChatLoads
    <3> QED
      BY <3>1
  <2>2. CASE ~ (Readable(file) /\ Loads(file, env))
    <3>1. file = chat'.config
      BY <1>3, <2>2 DEF ChatLoads
    <3>2. file.sections # {}
      BY <3>1, GeneratedFields
    <3>3. ValidProviders(file.providers)
      BY <3>1, <3>2 DEF LoadInv, ProvidersInv
    <3> QED
      BY <2>2, <3>1, <3>3, GeneratedFileLoads
  <2> QED
    BY <2>1, <2>2
<1>4. ASSUME NEW answer \in Answers, ChatAsks(answer) PROVE GeneratedLoads'
  <2> SUFFICES ASSUME chat'.config = Completed(Base(Mine), Mine)
               PROVE  chat'.reply \notin {"-32602", "-32603"}
    BY <1>4, MineKept DEF ChatAsks, GeneratedLoads
  <2>1. chat'.config = chat.config
    BY <1>4, AnsweredChat
  <2>2. ValidProviders(chat.config.providers)
    BY <1>4 DEF ChatAsks, LoadInv, ProvidersInv
  <2>3. /\ chat.config.providers.default = "mwps"
        /\ DOMAIN chat.config.providers.sections = {"mwps"}
    BY <2>1, GeneratedFields
  <2>4. /\ Resolves(chat.config.providers, chat.config.body.model)
        /\ HasDefaultClient(chat.config.providers)
    BY <2>2, <2>3 DEF Resolves, ProviderForModel, HasDefaultClient, HasClient, Builders,
                      ValidProviders
  <2>5. chat'.reply = Exchange(answer)
    BY <1>4, <2>4, AnsweredChat
  <2> QED
    BY <2>5 DEF Exchange
<1>5. CASE ChatEnds
  BY <1>5 DEF ChatEnds, GeneratedLoads
<1>6. ASSUME NEW e \in Envs, Recreate(e) PROVE GeneratedLoads'
  BY <1>6 DEF Recreate, Down, GeneratedLoads
<1>7. ASSUME NEW dir \in Dirs, MountCerts(dir) PROVE GeneratedLoads'
  BY <1>1, <1>7 DEF MountCerts
<1>8. ASSUME NEW args \in CliArgs, CliBase(args) PROVE GeneratedLoads'
  BY <1>1, <1>8 DEF CliBase
<1>9. CASE CliRest
  BY <1>1, <1>9 DEF CliRest
<1>10. ASSUME NEW e \in Edits, Edit(e) PROVE GeneratedLoads'
  BY <1>1, <1>10 DEF Edit
<1>11. CASE Kill
  BY <1>11 DEF Kill, Down, GeneratedLoads
<1>12. CASE UNCHANGED vars
  BY <1>1, <1>12 DEF vars
<1> QED
  BY <1>2, <1>3, <1>4, <1>5, <1>6, <1>7, <1>8, <1>9, <1>10, <1>11, <1>12 DEF Next

(* Validators, generator and loader agree: what an environment generates,  *)
(* a chat under that environment can load and ask, whatever happened to    *)
(* the file before, unless a limit in the environment is none.             *)
THEOREM GeneratedCanLoad == Spec => []GeneratedLoads
<1>1. Init => LoadInv
  BY DEF Init, LoadInv, ProvidersInv, Readable, GeneratedLoads
<1>2. IInv /\ LoadInv /\ [Next]_vars => LoadInv'
  BY ProvidersKept, LoadsKept DEF LoadInv
<1>3. LoadInv => GeneratedLoads
  BY DEF LoadInv
<1> QED
  BY <1>1, <1>2, <1>3, IInvHolds, PTL DEF Spec
=============================================================================
