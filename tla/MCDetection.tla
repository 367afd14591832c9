---------------------------- MODULE MCDetection ----------------------------
(***************************************************************************)
(* Small services for DetectionClaims: one that registers and serves       *)
(* routes beside its specifications, and one that sends requests.          *)
(***************************************************************************)
EXTENDS DetectionClaims

MCParameters == {"{id}", "<id>"}
MCWildcards == {"*"}
MCQueries == {"?q"}
MCAuthorities == {"https://host"}
MCUpper ==
  [m \in {"get", "post", "send", "fetch"} |->
     CASE m = "get" -> "GET" [] m = "post" -> "POST" [] m = "send" -> "SEND" [] m = "fetch" -> "FETCH"]
MCServeEntryPoint == <<"aiohttp", "web", "run_app">>
MCServerHalf == <<"aiohttp", "web">>

-----------------------------------------------------------------------------
(* Syntax.                                                                 *)

Ident(name, at) == [type |-> "identifier", start |-> at, end |-> at + 1, name |-> name]
Attr(object, name) ==
  [type |-> "attribute", start |-> object.start, end |-> object.end + 1,
   object |-> object, attribute |-> name]
Dotted(root, name, at) == Attr(Ident(root, at), name)
CallOf(function, arguments) ==
  [type |-> "call", start |-> function.start, end |-> function.end + 5,
   function |-> function, arguments |-> arguments]
Pos(value) == [keyword |-> "", value |-> value]
Key(name, value) == [keyword |-> name, value |-> value]
Str(segments, at) ==
  [type |-> "string", start |-> at, end |-> at + 1,
   parts |-> <<[type |-> "string_content", text |-> segments]>>]
Formatted(segments, name, at) ==
  [type |-> "string", start |-> at, end |-> at + 3,
   parts |-> <<[type |-> "string_content", text |-> segments],
               [type |-> "interpolation", of |-> Ident(name, at + 1)]>>]
Tuple(elements, at) == [type |-> "sequence", start |-> at, end |-> at + 9, elements |-> elements]
Plus(left, right) ==
  [type |-> "binary_operator", start |-> left.start, end |-> right.end, left |-> left, right |-> right]
OtherNode(at) == [type |-> "other", start |-> at, end |-> at + 1]

FromImport(module, name, local) ==
  [type |-> "import_from", module |-> module, name |-> name, local |-> local]
Import(name) == [type |-> "import", module |-> <<name>>, local |-> <<name>>]
Base(name) == [name |-> <<name>>, generic |-> FALSE]
GenericBase(name) == [name |-> <<name>>, generic |-> TRUE]
Class(name, bases, body, at) ==
  [type |-> "class", name |-> name, decorated |-> FALSE, bases |-> bases, body |-> body,
   start |-> at, end |-> at + 50]
Def(name, body, at) ==
  [type |-> "function", name |-> name, decorated |-> FALSE, body |-> body,
   start |-> at, end |-> at + 20]
Assign(name, value) ==
  [type |-> "assignment", target |-> <<name>>, annotation |-> <<>>, value |-> value]
Annotated(name, type) ==
  [type |-> "assignment", target |-> <<name>>, annotation |-> <<type>>, value |-> NoNode]
Do(value) == [type |-> "expression", value |-> value]
Source(path, body) == [path |-> path, parses |-> TRUE, body |-> body]

-----------------------------------------------------------------------------
(* A service that registers routes.                                        *)

(* routes.py: a table, a registration by a local subclass with a prefix,   *)
(* and a table nothing serves.                                             *)
RoutesModule ==
  Source(<<"svc", "routes">>,
    <<FromImport(<<"vendor", "dsl">>, "Url", "Url"), FromImport(<<"svc", "handlers">>, "Orders", "Orders"),
      Class("Api", <<Base("Url")>>, <<Assign("prefix", Str(<<"api">>, 3))>>, 1),
      Assign("ROUTES", Tuple(<<CallOf(Ident("Url", 10), <<Pos(Str(<<"orders", "{id}">>, 11)),
                                                          Pos(Ident("Orders", 12))>>),
                               CallOf(Ident("Api", 20), <<Pos(Str(<<"users">>, 21)),
                                                          Key("handler", Ident("Orders", 22))>>)>>, 9)),
      Assign("DEAD", CallOf(Ident("Url", 40), <<Pos(Str(<<"dead">>, 41)), Pos(Ident("Orders", 42))>>))>>)

Get(at) == Def("get", <<>>, at)
Post(at) == Def("post", <<>>, at)

HandlerModules ==
  [inherits |-> <<Class("View", <<>>, <<Get(5)>>, 4), Class("Orders", <<Base("View")>>, <<Post(65)>>, 60)>>,
   cycle    |-> <<Class("View", <<Base("Orders")>>, <<Get(5)>>, 4),
                  Class("Orders", <<Base("View"), Base("Missing")>>, <<Def("helper", <<>>, 65)>>, 60)>>,
   outside  |-> <<FromImport(<<"vendor", "views">>, "Orders", "Orders")>>]

(* main.py: the application holds the table in one of these ways.          *)
AppRoutes ==
  [table     |-> <<Assign("routes", Ident("ROUTES", 30))>>,
   sum       |-> <<Assign("routes", Plus(Tuple(<<CallOf(Ident("Url", 31),
                                          <<Pos(Str(<<"ping", "?q">>, 32)), Pos(Ident("Missing", 33))>>)>>, 30),
                                         Ident("ROUTES", 37)))>>,
   attribute |-> <<Assign("routes", Dotted("Root", "shared", 30))>>,
   inherited |-> <<>>,
   rebound   |-> <<Assign("shared", OtherNode(30))>>]

AppBases ==
  [linear  |-> <<Base("Left")>>,
   pair    |-> <<Base("Left"), Base("Side")>>,
   diamond |-> <<Base("Left"), Base("Right")>>,
   generic |-> <<GenericBase("Left")>>]

RunApp(argument) == Do(CallOf(Dotted("web", "run_app", 80), <<Pos(argument)>>))
NewApp(at) == CallOf(Ident("App", at), <<>>)

Serving ==
  [direct   |-> <<RunApp(NewApp(81))>>,
   bound    |-> <<Def("main", <<Assign("app", NewApp(71)), RunApp(Ident("app", 81))>>, 70)>>,
   unbound  |-> <<Def("main", <<RunApp(Ident("app", 81))>>, 70), Assign("other", NewApp(95))>>,
   shadowed |-> <<Assign("web", OtherNode(70)), RunApp(NewApp(81))>>]

UrlIn(class, segment, at) ==
  Assign("shared", CallOf(Ident("Url", at), <<Pos(Str(<<segment>>, at + 1)), Pos(Ident("Orders", at + 2))>>))

MainModule(routes, bases, serving) ==
  Source(<<"svc", "main">>,
    <<FromImport(<<"aiohttp">>, "web", "web"), FromImport(<<"vendor", "dsl">>, "Url", "Url"),
      FromImport(<<"svc", "routes">>, "ROUTES", "ROUTES"), FromImport(<<"svc", "handlers">>, "Orders", "Orders"),
      Class("Root", <<>>, <<UrlIn("Root", "root", 1)>>, 0),
      Class("Left", <<Base("Root")>>, <<>>, 10),
      Class("Right", <<Base("Root")>>, <<UrlIn("Right", "right", 11)>>, 15),
      Class("Side", <<>>, <<UrlIn("Side", "side", 21)>>, 20),
      Class("App", AppBases[bases], AppRoutes[routes], 29)>> \o Serving[serving])

Operation(path, member, id) == [path |-> path, member |-> member, id |-> id]

(* Two spellings of one route, with and without usable ids.                *)
Operations ==
  [plain    |-> <<Operation(<<"orders", "<id>">>, "post", "a"), Operation(<<"absent">>, "get", "b")>>,
   repeated |-> <<Operation(<<"orders", "{id}">>, "post", "a"), Operation(<<"orders", "<id>">>, "post", "a")>>,
   distinct |-> <<Operation(<<"orders", "{id}">>, "post", "a"), Operation(<<"orders", "<id>">>, "post", "b")>>]

Entry(spec, contract, mount) == [spec |-> spec, contract |-> contract, mount |-> mount]

Serves ==
  [none    |-> <<>>,
   one     |-> <<Entry("orders.yaml", "orders", <<>>)>>,
   twice   |-> <<Entry("orders.yaml", "orders", <<>>), Entry("orders.yaml", "orders", <<>>)>>,
   two     |-> <<Entry("orders.yaml", "orders", <<>>), Entry("orders.yaml", "mirror", <<>>),
                 Entry("missing.yaml", "missing", <<>>)>>,
   mounted |-> <<Entry("broken.yaml", "broken", <<>>), Entry("orders.yaml", "orders", <<"api">>)>>]

Router ==
  [dsl |-> <<"dsl", "Url">>, pathArg |-> <<[kind |-> "position", index |-> 1]>>,
   verbFrom |-> <<[kind |-> "position", index |-> 2]>>, prefixFrom |-> "prefix"]

NothingSent == [sinks |-> <<>>, registry |-> <<>>, moduleIds |-> <<>>, consumes |-> <<>>]

InboundUnit(routes, bases, serving, handler, declared, serves) ==
  [sources |-> <<Source(<<"svc", "handlers">>, HandlerModules[handler]),
                 MainModule(routes, bases, serving), RoutesModule>>,
   goSources |-> <<>>,
   specs |-> <<[locator |-> "broken.yaml", readable |-> FALSE, operations |-> <<>>],
               [locator |-> "orders.yaml", readable |-> TRUE, operations |-> Operations[declared]]>>,
   serves |-> Serves[serves], routers |-> <<Router>>, detect |-> NothingSent]

(* How an application is held, against how it is served; and how it is     *)
(* declared, against who answers it.                                       *)
InboundUnits ==
  {InboundUnit(r, b, s, "inherits", "plain", "one") :
     r \in DOMAIN AppRoutes, b \in DOMAIN AppBases, s \in DOMAIN Serving}
    \cup {InboundUnit(r, "linear", "direct", h, d, s) :
            r \in {"table", "inherited"}, h \in DOMAIN HandlerModules,
            d \in DOMAIN Operations, s \in DOMAIN Serves}

-----------------------------------------------------------------------------
(* A service that sends requests.                                          *)

Self(name, at) == Dotted("self", name, at)

(* What a method of the client does.                                       *)
Sends ==
  [literal   |-> <<Do(CallOf(Self("get", 20), <<Pos(Str(<<"orders">>, 21))>>))>>,
   parameter |-> <<Do(CallOf(Self("get", 20), <<Pos(Formatted(<<"orders">>, "id", 21))>>))>>,
   constant  |-> <<Do(CallOf(Self("get", 20), <<Pos(Self("PATH", 21))>>))>>,
   template  |-> <<Assign("path", CallOf(Attr(Str(<<"orders", "{id}">>, 14), "format"), <<>>)),
                   Do(CallOf(Self("get", 20), <<Pos(Ident("path", 21))>>))>>,
   cyclic    |-> <<Assign("path", CallOf(Attr(Ident("path", 14), "format"), <<>>)),
                   Do(CallOf(Self("get", 20), <<Pos(Ident("path", 21))>>))>>,
   chained   |-> <<Assign("path", CallOf(Attr(Ident("left", 14), "format"), <<>>)),
                   Assign("left", CallOf(Attr(Ident("right", 15), "format"), <<>>)),
                   Do(CallOf(Self("get", 20), <<Pos(Ident("path", 21))>>))>>,
   through   |-> <<Do(CallOf(Self("get", 20), <<Pos(CallOf(Self("url", 21), <<Pos(Str(<<"orders">>, 24))>>))>>))>>,
   missing   |-> <<Do(CallOf(Self("get", 20), <<>>))>>,
   unlisted  |-> <<Do(CallOf(Self("fetch", 20), <<Pos(Str(<<"orders">>, 21))>>))>>,
   nested    |-> <<Def("inner", <<Do(CallOf(Self("get", 20), <<Pos(Str(<<"orders">>, 21))>>))>>, 19)>>,
   renamed   |-> <<Def("list", <<Do(CallOf(Self("get", 20), <<Pos(Str(<<"orders">>, 21))>>))>>, 19)>>]

(* What stands between the client and the type the configuration declares. *)
ClientBases ==
  [direct   |-> [imports |-> <<FromImport(<<"vendor", "http">>, "BaseClient", "BaseClient")>>,
                 base |-> "BaseClient"],
   indirect |-> [imports |-> <<FromImport(<<"svc", "lib">>, "Middle", "Middle")>>, base |-> "Middle"],
   far      |-> [imports |-> <<FromImport(<<"svc", "lib">>, "Near", "Near")>>, base |-> "Near"],
   farther  |-> [imports |-> <<FromImport(<<"svc", "lib">>, "Far", "Far")>>, base |-> "Far"],
   clashing |-> [imports |-> <<FromImport(<<"svc", "lib">>, "Orders", "Parent")>>, base |-> "Parent"],
   unknown  |-> [imports |-> <<>>, base |-> "BaseClient"]]

LibModule ==
  Source(<<"svc", "lib", "__init__">>,
    <<FromImport(<<"vendor", "http">>, "BaseClient", "BaseClient"), Import("settings"),
      Class("Middle", <<Base("BaseClient")>>,
            <<Assign("HOST", Dotted("settings", "URL", 11)), Assign("PATH", Str(<<"base">>, 12)),
              Def("url", <<>>, 13)>>, 10),
      Class("Orders", <<Base("Middle")>>, <<>>, 70),
      Class("Near", <<Base("Middle")>>, <<>>, 130), Class("Far", <<Base("Near")>>, <<>>, 190)>>)

ClientModule(base, send) ==
  Source(<<"svc", "client">>,
    ClientBases[base].imports \o
    <<Class("Orders", <<Base(ClientBases[base].base)>>,
            <<Assign("PATH", Str(<<"mine">>, 5)), Def("list", Sends[send], 10)>>, 1)>>)

Construct(argument, at) == CallOf(Ident("Orders", at), <<Pos(argument)>>)

(* How the client is constructed and used elsewhere.                       *)
Constructions ==
  [config   |-> <<Assign("client", Construct(Dotted("settings", "URL", 21), 20)),
                  Do(CallOf(Dotted("client", "get", 30), <<Pos(Str(<<"items">>, 31))>>))>>,
   suffixed |-> <<Assign("client", Construct(Plus(Dotted("settings", "URL", 21), Ident("zone", 23)), 20)),
                  Do(CallOf(Dotted("client", "get", 30), <<Pos(Str(<<"items">>, 31))>>))>>,
   several  |-> <<Assign("client", Construct(Str(<<"https://host">>, 21), 20)),
                  Assign("other", Construct(Str(<<"https://other">>, 41), 40))>>,
   none     |-> <<Do(CallOf(Dotted("client", "get", 30), <<Pos(Str(<<"items">>, 31))>>))>>]

(* Sends without a declared sink, one starting where another module has a  *)
(* request built for a send.                                               *)
Transports ==
  [absolute |-> <<Do(CallOf(Dotted("requests", "get", 50), <<Pos(Str(<<"https://host", "a">>, 51))>>))>>,
   deferred |-> <<Assign("request", CallOf(Dotted("requests", "Request", 50),
                                           <<Pos(Str(<<"GET">>, 51)), Key("url", Str(<<"a", "?q">>, 52))>>)),
                  Do(CallOf(Dotted("session", "send", 60), <<Pos(Ident("request", 61))>>))>>,
   opened   |-> <<Do(CallOf(Attr(CallOf(Dotted("requests", "Session", 50), <<>>), "post"), <<>>))>>,
   served   |-> <<Do(CallOf(Attr(Dotted("aiohttp", "web", 50), "Response"), <<>>))>>,
   generated |-> <<Do(CallOf(Dotted("billing", "charge", 50), <<>>))>>,
   library  |-> <<Do(CallOf(Attr(Attr(Dotted("self", "clients", 50), "orders"), "cancel"), <<>>)),
                  Do(CallOf(Attr(Attr(Dotted("self", "clients", 55), "orders"), "get"),
                            <<Pos(Str(<<"items">>, 58))>>)),
                  Do(CallOf(CallOf(Ident("getattr", 60),
                      <<Pos(Attr(Dotted("self", "clients", 61), "orders")), Pos(Ident("name", 65))>>), <<>>))>>]

ServiceModule(path, constructions, transport) ==
  Source(path,
    <<FromImport(<<"svc", "client">>, "Orders", "Orders"), Import("settings"), Import("requests"),
      Import("aiohttp"), FromImport(<<"svc", "gen">>, "billing", "billing"),
      Class("Clients", <<>>, <<Annotated("orders", "Orders")>>, 1),
      Def("run", constructions \o transport, 10)>>)

Targets ==
  [argument |-> <<[kind |-> "position", index |-> 1]>>,
   constant |-> <<[kind |-> "class_const", name |-> "HOST"]>>,
   unbound  |-> <<>>]

Sink(target) ==
  [baseType |-> <<"http", "BaseClient">>, target |-> Targets[target],
   pathArg |-> <<[kind |-> "position", index |-> 1]>>, method |-> <<>>,
   pathVia |-> "url", pathViaArgument |-> 1,
   calls |-> <<[member |-> "get", target |-> <<>>, pathArg |-> <<>>, method |-> <<>>]>>]

SendingDetect(target, moduleIds) ==
  [sinks |-> <<Sink(target)>>, moduleIds |-> moduleIds, consumes |-> <<<<"svc", "gen">>>>,
   registry |-> <<[access |-> <<"self", "clients">>, containerType |-> <<"main", "Clients">>]>>]

OutboundUnit(base, send, constructions, transport, target, moduleIds) ==
  [sources |-> <<ClientModule(base, send), LibModule,
                 ServiceModule(<<"svc", "main">>, Constructions[constructions], Transports[transport]),
                 ServiceModule(<<"svc", "job">>, <<>>, Transports["opened"])>>,
   goSources |-> <<>>, specs |-> <<>>, serves |-> <<>>, routers |-> <<>>, detect |-> SendingDetect(target, moduleIds)]

OrdersModule == <<[class |-> <<"client", "Orders">>, moduleId |-> "orders"]>>

OutboundUnits ==
  {OutboundUnit(b, s, c, "absolute", "argument", <<>>) :
     b \in {"direct", "indirect", "clashing", "unknown"}, s \in DOMAIN Sends, c \in DOMAIN Constructions}
    \cup {OutboundUnit(b, "literal", c, "absolute", "argument", <<>>) :
            b \in {"far", "farther"}, c \in DOMAIN Constructions}
    \cup {OutboundUnit("indirect", "literal", "none", t, g, m) :
            t \in DOMAIN Transports, g \in DOMAIN Targets, m \in {<<>>, OrdersModule}}

-----------------------------------------------------------------------------
(* A service written in Go.                                                *)

MCMajorVersions == {"v2"}

GStr(segments) == [type |-> "string", segments |-> segments]
GName(name) == [type |-> "identifier", name |-> name]
GSel(root, field) == [type |-> "selector", root |-> root, path |-> <<field>>]
GSum(left, right) == [type |-> "sum", operands |-> <<left, right>>]
GNew(keyed) == [type |-> "address", of |-> [type |-> "composite", keyed |-> keyed]]
GCall(function, arguments, at) ==
  [type |-> "call", start |-> at, end |-> at + 5, function |-> function, arguments |-> arguments]

GBind(target, value) == [type |-> "bind", form |-> ":=", target |-> target, value |-> value]
GSet(target, value) == [type |-> "bind", form |-> "=", target |-> target, value |-> value]
GVar(target, value) == [type |-> "bind", form |-> "var", target |-> target, value |-> value]
GWrite(record, field, value) == [type |-> "write", record |-> record, field |-> field, value |-> value]
GDo(value) == [type |-> "do", value |-> value]
GReturn(value) == [type |-> "return", value |-> value]
GBlock(body) == [type |-> "block", body |-> body]

GFunc(name, parameters, result, body) ==
  [type |-> "function", name |-> name, parameters |-> parameters, result |-> result, body |-> body]
GMethod(type, name, body) ==
  [type |-> "method", name |-> name, receiver |-> [name |-> "c", type |-> type],
   parameters |-> <<>>, result |-> "", body |-> body]
GConst(name, value) == [name |-> name, value |-> value]
GRef(qualifier, name) == [qualifier |-> qualifier, name |-> name]
GStruct(name, embedded) == [name |-> name, embedded |-> embedded]
GImport(path) == [name |-> "", path |-> path]
GFile(directory, imports, constants, types, declarations) ==
  [parses |-> TRUE, directory |-> directory, imports |-> imports, constants |-> constants,
   types |-> types, declarations |-> declarations]

RequestPath == <<"mod", "lib", "req", "v2">>
VerbsPath == <<"mod", "verbs">>
OtherVerbsPath == <<"other", "verbs">>
BasePath == <<"vendor", "http">>

Send(at) == GDo(GCall(GSel("c", "Do"), <<GName("r")>>, at))
NewRequest(at) == GBind("r", GCall(GSel("req", "New"), <<>>, at))
Path(value) == GWrite("r", "Path", value)

(* What a method written at an offset does with the record it sends.       *)
FillsAt(at) ==
  [untouched |-> <<NewRequest(at), Send(at + 20)>>,
   written   |-> <<NewRequest(at), Path(GStr(<<"orders">>)), Path(GStr(<<"items">>)), Send(at + 20)>>,
   literal   |-> <<GBind("r", GNew([Path |-> GStr(<<"x">>)])), GWrite("r", "Method", GStr(<<"get">>)), Send(at + 20)>>,
   packaged  |-> <<NewRequest(at), Path(GSel("req", "Items")), Send(at + 20)>>,
   named     |-> <<NewRequest(at), Path(GName("Orders")), Send(at + 20)>>,
   chained   |-> <<NewRequest(at), Path(GName("Second")), Send(at + 20)>>,
   tooFar    |-> <<NewRequest(at), Path(GName("First")), Send(at + 20)>>,
   crossing  |-> <<NewRequest(at), Path(GSel("req", "Borrowed")), Send(at + 20)>>,
   summed    |-> <<NewRequest(at), Path(GSum(GName("Orders"), GStr(<<"id">>))), Send(at + 20)>>,
   direct    |-> <<GDo(GCall(GSel("c", "Get"), <<GStr(<<"orders">>)>>, at + 20))>>,
   returned  |-> <<NewRequest(at), Path(GStr(<<"orders">>)), GReturn(GCall(GSel("c", "Do"), <<GName("r")>>, at + 20))>>,
   guarded   |-> <<NewRequest(at), GBlock(<<GReturn(NoValue)>>), GBlock(<<Send(at + 20)>>)>>,
   branched  |-> <<NewRequest(at), GBlock(<<Path(GStr(<<"retry">>))>>), Send(at + 20)>>,
   rebound   |-> <<NewRequest(at), GBlock(<<GSet("r", GCall(GSel("req", "Other"), <<>>, at + 12))>>), Send(at + 20)>>,
   inner     |-> <<NewRequest(at), GBlock(<<NewRequest(at), Path(GStr(<<"inner">>))>>), Send(at + 20)>>,
   later     |-> <<NewRequest(at), Path(GStr(<<"a">>)), Send(at + 20), Path(GStr(<<"b">>)), Send(at + 30)>>,
   aliased   |-> <<NewRequest(at), GBind("s", GName("r")), GWrite("s", "Path", GStr(<<"alias">>)), Send(at + 20)>>,
   helped    |-> <<NewRequest(at), GDo(GCall(GName("fill"), <<GName("r")>>, at + 15)), Send(at + 20)>>,
   inline    |-> <<GDo(GCall(GSel("c", "Do"), <<GNew([Path |-> GStr(<<"x">>)])>>, at + 20))>>,
   foreign   |-> <<GDo(GCall(GSel("d", "Do"), <<GName("r")>>, at + 20)), GDo(GCall(GSel("c", "Close"), <<>>, at + 30))>>]

(* What makes the record.                                                  *)
Constructors ==
  [plain    |-> <<GReturn(GNew([Method |-> GName("Verb"), Path |-> GStr(<<"default">>)]))>>,
   foreign  |-> <<GReturn(GNew([Method |-> GSel("verbs", "Verb"), Path |-> GStr(<<"default">>)]))>>,
   adjusted |-> <<GBind("q", GNew([Method |-> GName("Verb"), Path |-> GStr(<<"default">>)])),
                  GWrite("q", "Method", GStr(<<"put">>)), GReturn(GName("q"))>>,
   branched |-> <<GBlock(<<GReturn(GNew([Method |-> GStr(<<"put">>), Path |-> GStr(<<"default">>)]))>>),
                  GReturn(GNew([Method |-> GName("Verb"), Path |-> GStr(<<"default">>)]))>>,
   hidden   |-> <<GReturn(GNew([Method |-> GName("Hidden"), Path |-> GStr(<<"default">>)]))>>]

(* What other bodies of the client's package declare.                      *)
Helpers ==
  [none  |-> <<>>,
   names |-> <<GFunc("fill", <<>>, "", <<GVar("Orders", GStr(<<"local">>)), GVar("Third", GStr(<<"local">>))>>),
               GMethod("Client", "shadowed",
                 <<NewRequest(9010), GBind("req", GNew([Items |-> GStr(<<"mine">>)])), Path(GSel("req", "Items")),
                   Send(9020)>>)>>]

RequestFile(constructor) ==
  GFile(<<"lib", "req", "v2">>, <<GImport(VerbsPath)>>,
        <<GConst("Verb", GStr(<<"post">>)), GConst("Hidden", GStr(<<"hide">>)), GConst("Items", GStr(<<"items">>)),
          GConst("Orders", GStr(<<"theirs">>)), GConst("Borrowed", GName("Orders"))>>,
        <<GStruct("Request", <<>>)>>,
        <<GFunc("New", <<[name |-> "Hidden", type |-> GRef("", "string")]>>, "Request", Constructors[constructor]),
          GFunc("Other", <<>>, "Request", <<GReturn(GNew([Path |-> GStr(<<"other">>)]))>>)>>)

VerbsFile(directory, verb) == GFile(directory, <<>>, <<GConst("Verb", GStr(<<verb>>))>>, <<>>, <<>>)

FillOrder == FoldSet(LAMBDA fill, sofar : Append(sofar, fill), <<>>, DOMAIN FillsAt(0))

ClientFile(verbs, helpers) ==
  GFile(<<"client">>, <<GImport(BasePath), GImport(RequestPath), GImport(verbs)>>,
        <<GConst("Verb", GStr(<<"mine">>)), GConst("Orders", GStr(<<"orders">>)), GConst("First", GName("Second")),
          GConst("Second", GName("Third")), GConst("Third", GStr(<<"third">>))>>,
        <<GStruct("Client", <<GRef("http", "Base")>>)>>,
        [i \in DOMAIN FillOrder |-> GMethod("Client", FillOrder[i], FillsAt(100 * i)[FillOrder[i]])] \o Helpers[helpers])

(* How a client comes to be composed of the base.                          *)
BaseImport == <<GImport(BasePath)>>
Compositions ==
  [direct  |-> [client |-> <<GRef("http", "Base")>>, imports |-> BaseImport, near |-> <<>>, far |-> <<>>],
   near    |-> [client |-> <<GRef("", "Near")>>, imports |-> BaseImport, near |-> <<GRef("http", "Base")>>, far |-> <<>>],
   unseen  |-> [client |-> <<GRef("", "Near")>>, imports |-> <<>>, near |-> <<GRef("http", "Base")>>, far |-> <<>>],
   misseen |-> [client |-> <<GRef("", "Near")>>, imports |-> <<GImport(<<"fake", "http">>)>>,
                near |-> <<GRef("http", "Base")>>, far |-> <<>>],
   far     |-> [client |-> <<GRef("lib", "Wrapped")>>, imports |-> Append(BaseImport, GImport(<<"mod", "lib">>)),
                near |-> <<>>, far |-> <<GRef("", "Inner")>>],
   cyclic  |-> [client |-> <<GRef("", "Near"), GRef("http", "Base")>>, imports |-> BaseImport,
                near |-> <<GRef("", "Client")>>, far |-> <<>>],
   deep    |-> [client |-> <<GRef("", "Near")>>, imports |-> Append(BaseImport, GImport(<<"mod", "lib">>)),
                near |-> <<GRef("lib", "Wrapped")>>, far |-> <<GRef("", "Inner")>>],
   wide    |-> [client |-> <<GRef("", "A"), GRef("", "B"), GRef("", "Near"), GRef("http", "Base")>>,
                imports |-> BaseImport, near |-> <<>>, far |-> <<>>],
   other   |-> [client |-> <<GRef("http", "Client")>>, imports |-> <<GImport(<<"net", "http">>)>>, near |-> <<>>, far |-> <<>>]]

Asks == <<GMethod("Client", "ask", <<GDo(GCall(GSel("c", "Get"), <<GStr(<<"a">>)>>, 20))>>)>>

ComposedFiles(name) ==
  LET shape == Compositions[name]
  IN  <<GFile(<<"client">>, shape.imports, <<>>, <<GStruct("Client", shape.client)>>,
              Append(Asks, GFunc("NewClient", <<>>, "Client", <<GReturn(GNew([name |-> GStr(<<"c">>)]))>>))),
        GFile(<<"client">>, BaseImport, <<>>, <<GStruct("Near", shape.near)>>, <<>>),
        GFile(<<"lib">>, BaseImport, <<>>,
              <<GStruct("Wrapped", shape.far), GStruct("Inner", <<GRef("http", "Base")>>)>>, <<>>)>>

(* Where the client is constructed.                                        *)
GArg(root, field, at) == [type |-> "selector", start |-> at, root |-> root, path |-> <<field>>]
Wiring(directory, type, argument, at) ==
  GFile(directory, <<GImport(<<"mod", "client">>), GImport(<<"mod", "conf">>)>>,
        <<GConst("Home", GStr(<<"https://host">>))>>, <<>>,
        <<GFunc("wire", <<[name |-> "cfg", type |-> type]>>, "",
                <<GBind("client", GCall(GSel("client", "NewClient"), <<argument>>, at))>>)>>)

Configured(directory, at) == Wiring(directory, GRef("conf", "Config"), GArg("cfg", "Orders", at + 2), at)
Local(directory, at) == Wiring(directory, GRef("", "Config"), GArg("cfg", "Orders", at + 2), at)

Wirings ==
  [none       |-> <<>>,
   configured |-> <<Configured(<<"cmd">>, 40)>>,
   twice      |-> <<Configured(<<"cmd">>, 40), Configured(<<"job">>, 60)>>,
   hardcoded  |-> <<Wiring(<<"cmd">>, GRef("conf", "Config"),
                           [type |-> "identifier", start |-> 42, name |-> "Home"], 40)>>,
   own        |-> <<Local(<<"cmd">>, 40), Local(<<"job">>, 60)>>]

GoSink ==
  [baseType |-> <<"http", "Base">>, target |-> Targets["argument"],
   pathArg |-> <<[kind |-> "position", index |-> 1], [kind |-> "field", name |-> "Path"]>>,
   method |-> <<[kind |-> "position", index |-> 1], [kind |-> "field", name |-> "Method"]>>,
   pathVia |-> "none", pathViaArgument |-> 1,
   calls |-> <<[member |-> "Do", target |-> <<>>, pathArg |-> <<>>, method |-> <<>>],
               [member |-> "Get", target |-> <<>>, pathArg |-> <<[kind |-> "position", index |-> 1]>>,
                method |-> <<>>]>>]

GoUnit(sources) ==
  [sources |-> <<>>, goSources |-> sources, specs |-> <<>>, serves |-> <<>>, routers |-> <<>>,
   detect |-> [sinks |-> <<GoSink>>, moduleIds |-> <<>>, consumes |-> <<>>, registry |-> <<>>]]

SendingFiles(constructor, verbs, helpers) ==
  <<ClientFile(verbs, helpers), RequestFile(constructor),
    VerbsFile(<<"verbs">>, "patch"), VerbsFile(<<"other", "verbs">>, "wrong")>>

GoUnits ==
  {GoUnit(SendingFiles(k, v, h)) :
     k \in DOMAIN Constructors, v \in {VerbsPath, OtherVerbsPath}, h \in DOMAIN Helpers}
    \cup {GoUnit(ComposedFiles(n) \o Wirings[w]) : n \in DOMAIN Compositions, w \in DOMAIN Wirings}

MCUnits == InboundUnits \cup OutboundUnits \cup GoUnits
=============================================================================
