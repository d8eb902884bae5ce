----------------------------- MODULE ServeConfig -----------------------------
(***************************************************************************)
(* What the controllers compute: the serve config and the ports of a       *)
(* service from its handlers, whether a device's tags are a Tailnet's,     *)
(* which names are valid, and which credentials each controller finds in   *)
(* the OAuth Secret.  Tailserve and PodDevice take the results as given.   *)
(*                                                                         *)
(* A user edits one thing at a time; the functions are applied to what     *)
(* there is.  They follow the code, and the invariants compare them with   *)
(* one another and with definitions that do not loop.                      *)
(***************************************************************************)
EXTENDS Integers, SequencesExt

CONSTANTS
    Handlers,       \* the handlers that a user may add
    Tags,           \* of a Tailnet and of a device
    MaxLength,      \* bound: of lists of handlers and tags
    MaxName         \* of a service, 63 in the code

\* The protocols are those of the CRD; a route is a path and a backend.
ASSUME HandlersAssumption ==
    \A h \in Handlers :
        /\ h.protocol \in {"http", "https", "tcp", "tls-terminated-tcp"}
        /\ h.routes \in Seq([path : STRING, backend : STRING])

VARIABLES
    editing,            \* the kind of the one thing that is edited
    handlers,           \* of a Tailserve
    tags, deviceTags,   \* of a Tailnet, and as Tailscale has them of a device
    name,               \* of a service
    oauth               \* the entries of the OAuth Secret

vars == <<editing, handlers, tags, deviceTags, name, oauth>>

-----------------------------------------------------------------------------
(* Handlers.                                                               *)

\* An assignment to an entry of a map.
Put(map, key, value) ==
    [k \in DOMAIN map \cup {key} |-> IF k = key THEN value ELSE map[k]]

NoProxy == [backend |-> "", terminateTLS |-> FALSE]

IsWeb(h) == h.protocol \in {"http", "https"}

\* buildServiceConfig: the entry of a handler under "TCP".
TCPEntry(h) ==
    CASE h.protocol = "http" -> [kind |-> "HTTP"]
      [] h.protocol = "https" -> [kind |-> "HTTPS"]
      [] ~IsWeb(h) /\ h.proxy = NoProxy -> [kind |-> "nothing"]
      [] OTHER -> [kind |-> "TCPForward", to |-> h.proxy.backend,
                   terminateTLS |-> h.protocol = "tls-terminated-tcp"
                                       /\ h.proxy.terminateTLS]

DefaultRoutes == [path \in {"/"} |-> "http://127.0.0.1:80"]

PathOf(route) == IF route.path = "" THEN "/" ELSE route.path

\* addWebHandlers: the entry of a handler under "Web".
WebEntry(h) ==
    IF h.routes = <<>> THEN DefaultRoutes
    ELSE FoldLeft(LAMBDA m, r : Put(m, PathOf(r), r.backend), <<>>, h.routes)

\* Mutant of AddHandler: a port that is taken is left alone.
AddHandlerOnce(config, h) ==
    IF h.port \in DOMAIN config.TCP THEN config
    ELSE [TCP |-> Put(config.TCP, h.port, TCPEntry(h)),
          Web |-> IF IsWeb(h) THEN Put(config.Web, h.port, WebEntry(h))
                  ELSE config.Web]

\* Mutant of AddHandler: a case for web handlers that forgets the port.
AddHandlerWebOnly(config, h) ==
    [TCP |-> IF IsWeb(h) THEN config.TCP ELSE Put(config.TCP, h.port, TCPEntry(h)),
     Web |-> IF IsWeb(h) THEN Put(config.Web, h.port, WebEntry(h)) ELSE config.Web]

\* One round of the loop; a port that comes again is overwritten.
AddHandler(config, h) ==
    [TCP |-> Put(config.TCP, h.port, TCPEntry(h)),
     Web |-> IF IsWeb(h) THEN Put(config.Web, h.port, WebEntry(h)) ELSE config.Web]

BuildServiceConfig(hs) == FoldLeft(AddHandler, [TCP |-> <<>>, Web |-> <<>>], hs)

\* Every protocol is TCP to Tailscale.
ExtractPorts(hs) == IF hs = <<>> THEN {443} ELSE {hs[i].port : i \in DOMAIN hs}

-----------------------------------------------------------------------------
(* Tags.                                                                   *)

\* Mutant of TagsEqual: the lists have to be the same.
TagsEqualInOrder(a, b) == a = b

\* tagsEqual, of the PodReconciler.
TagsEqual(a, b) == Len(a) = Len(b) /\ ToSet(b) \subseteq ToSet(a)

-----------------------------------------------------------------------------
(* Names, as the CRD may admit them: in ASCII.                             *)

\* A "letter" is a small one or a digit.
Characters == {"letter", "capital", "hyphen", "other"}

IsAlphaNum(c) == c \in {"letter", "capital"}

\* Mutant of ValidServiceName: the last character may be a hyphen.
ValidServiceNameOpen(s) ==
    /\ s # <<>> /\ Len(s) <= MaxName
    /\ \A i \in DOMAIN s : IsAlphaNum(s[i]) \/ (s[i] = "hyphen" /\ i > 1)

\* validateServiceName, after the prefix.
ValidServiceName(s) ==
    /\ s # <<>> /\ Len(s) <= MaxName
    /\ \A i \in DOMAIN s : IsAlphaNum(s[i]) \/ s[i] = "hyphen"
    /\ IsAlphaNum(s[1]) /\ s[Len(s)] # "hyphen"

\* The pattern of spec.serviceName in the CRD.
MatchesPattern(s) ==
    /\ s # <<>> /\ ToSet(s) \subseteq {"letter", "hyphen"}
    /\ s[1] = "letter" /\ s[Len(s)] = "letter"

-----------------------------------------------------------------------------
(* The entries of the OAuth Secret, two of each spelling.                  *)

Parts == {"id", "secret"}

\* client-id and client-secret first, then the others in the code's order.
Spellings == 1 .. 4

Values == {"absent", "empty", "set"}

NoEntries == [e \in Parts \X Spellings |-> "absent"]

\* getTailscaleClient of the TailnetReconciler.
TailnetClient == \A part \in Parts : oauth[<<part, 1>>] # "absent"

\* getTailscaleClient of the PodReconciler.
PodClient == \A part \in Parts : oauth[<<part, 1>>] = "set"

Set(part) == {n \in Spellings : oauth[<<part, n>>] = "set"}

\* Mutant of Chosen: the last of the entries that are set.
ChosenLast(part) == Max(Set(part))

\* getOAuthCredentials of the TailserveReconciler: the entry that it takes.
Chosen(part) == Min(Set(part))

TailserveClient == \A part \in Parts : Set(part) # {}

-----------------------------------------------------------------------------
(* Edits.                                                                  *)

Init ==
    /\ editing = "nothing"
    /\ handlers = <<>> /\ tags = <<>> /\ deviceTags = <<>>
    /\ name = <<>> /\ oauth = NoEntries

Edit(kind) == editing \in {"nothing", kind} /\ editing' = kind

EditHandlers ==
    /\ Edit("handlers") /\ Len(handlers) < MaxLength
    /\ \E h \in Handlers : handlers' = Append(handlers, h)
    /\ UNCHANGED <<tags, deviceTags, name, oauth>>

EditTags ==
    /\ Edit("tags")
    /\ \E t \in Tags :
          \/ /\ Len(tags) < MaxLength
             /\ tags' = Append(tags, t) /\ UNCHANGED deviceTags
          \/ /\ Len(deviceTags) < MaxLength
             /\ deviceTags' = Append(deviceTags, t) /\ UNCHANGED tags
    /\ UNCHANGED <<handlers, name, oauth>>

EditName ==
    /\ Edit("name") /\ Len(name) <= MaxName
    /\ \E c \in Characters : name' = Append(name, c)
    /\ UNCHANGED <<handlers, tags, deviceTags, oauth>>

EditOAuth ==
    /\ Edit("oauth")
    /\ \E e \in DOMAIN oauth, v \in Values : oauth' = [oauth EXCEPT ![e] = v]
    /\ UNCHANGED <<handlers, tags, deviceTags, name>>

Next == EditHandlers \/ EditTags \/ EditName \/ EditOAuth

Spec == Init /\ [][Next]_vars

-----------------------------------------------------------------------------
(* What the functions have to agree on.                                    *)

Config == BuildServiceConfig(handlers)

Distinct(s) == Cardinality(ToSet(s)) = Len(s)

LastOf(I) == handlers[Max(I)]

\* The loops leave, for each port, what the last handler of the port says, and
\* for each path of a web handler its last route, no path being the root.  But
\* what the last web handler said of a port stays under "Web", whatever handler
\* came after.
LastOnesCount ==
    LET On(p) == {i \in DOMAIN handlers : handlers[i].port = p}
        WebOn(p) == {i \in On(p) : IsWeb(handlers[i])}
        ports == {handlers[i].port : i \in DOMAIN handlers}
        At(rs, q) == {k \in DOMAIN rs : rs[k].path = q \/ (q = "/" /\ rs[k].path = "")}
        Web(rs) ==
           IF rs = <<>> THEN DefaultRoutes
           ELSE [q \in {PathOf(rs[k]) : k \in DOMAIN rs} |-> rs[Max(At(rs, q))].backend]
    IN  /\ Config.TCP = [p \in ports |-> TCPEntry(LastOf(On(p)))]
        /\ Config.Web = [p \in {q \in ports : WebOn(q) # {}} |->
                            Web(LastOf(WebOn(p)).routes)]

\* The sidecar serves the ports that Tailscale was asked for, and, when no port
\* is given twice, as web those that have routes and no others.
AskedIsServed ==
    handlers # <<>> =>
        /\ ExtractPorts(handlers) = DOMAIN Config.TCP
        /\ Distinct([i \in DOMAIN handlers |-> handlers[i].port]) =>
              DOMAIN Config.Web =
                 {p \in DOMAIN Config.TCP : Config.TCP[p].kind \in {"HTTP", "HTTPS"}}

\* The PodReconciler sets the tags of a device if and only if they are not those
\* of the Tailnet, in whatever order, as long as the Tailnet repeats none.
TagsEqualAsSets ==
    Distinct(tags) =>
        (TagsEqual(deviceTags, tags)
            <=> Distinct(deviceTags) /\ ToSet(deviceTags) = ToSet(tags))

\* Of the names that the CRD admits only the long ones are refused.  Of the
\* others only what the CRD would refuse for its capitals alone is accepted.
NamesAreOfTheCRD ==
    /\ MatchesPattern(name) => (ValidServiceName(name) <=> Len(name) <= MaxName)
    /\ ValidServiceName(name) =>
          MatchesPattern([i \in DOMAIN name |->
                            IF name[i] = "capital" THEN "letter" ELSE name[i]])

\* With credentials that will do for the pods all controllers use the same; and
\* where only their spelling is in use and none is empty, they all do or none.
CredentialsAgree ==
    /\ PodClient => /\ TailnetClient /\ TailserveClient
                    /\ \A part \in Parts : Chosen(part) = 1
    /\ (\A part \in Parts : /\ oauth[<<part, 1>>] # "empty"
                            /\ Set(part) \subseteq {1})
          => (PodClient <=> TailnetClient) /\ (PodClient <=> TailserveClient)
=============================================================================
