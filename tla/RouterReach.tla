---------------------------- MODULE RouterReach ----------------------------
(***************************************************************************)
(* A second reference for GoRouterScope: Execution runs the Go code of a   *)
(* unit from a function on router objects, which is what the service       *)
(* serves.                                                                 *)
(***************************************************************************)
EXTENDS NearestWalk

-----------------------------------------------------------------------------
(* Execution.  An object is <<path of calls, declaration, position>>; a    *)
(* variable bound to none holds a router made elsewhere.  An outcome is    *)
(* the routes registered, the mounts made and the value returned first.    *)

External == <<>>
Look(env, expr, via, d) ==
  CASE expr.form = "new" -> <<via, d, expr.at>>
    [] expr.form = "name" /\ expr.name \in DOMAIN env -> env[expr.name]
    [] expr.form = "field" /\ expr.of \in DOMAIN env ->
         IF expr.field \in DOMAIN env[expr.of] THEN env[expr.of][expr.field] ELSE External
    [] expr.form = "literal" ->
         [f \in DOMAIN expr.fields |->
            IF expr.fields[f].form = "name" /\ expr.fields[f].name \in DOMAIN env
              THEN env[expr.fields[f].name] ELSE External]
    [] OTHER -> External

Arguments(env, callee, args, via, d) ==
  LET params == unit.params[callee]
      given == DOMAIN params \cap DOMAIN args
  IN  [n \in {params[i].name : i \in given} |->
         Look(env, args[CHOOSE i \in given : params[i].name = n], via, d)]

RECURSIVE Run(_, _, _), Execution(_, _, _)

(* Runs a frame [decl, via, todo, env, routes, mounts] to the end of todo. *)
Run(frame, todo, fuel) ==
  IF todo = <<>> THEN frame
  ELSE
    LET s == Head(todo)
        d == frame.decl
        at == <<frame.via, d, s.at>>
        look(expr) == Look(frame.env, expr, frame.via, d)
        set(env, name, value) == IF name = "" THEN env ELSE Put(env, name, value)
        then(f) == Run(f, Tail(todo), fuel)
    IN  CASE s.op = "define" -> then([frame EXCEPT !.env = set(@, s.to, look(s.from))])
          [] s.op = "register" ->
               then([frame EXCEPT !.routes = @ \cup {[on |-> look(s.on), site |-> <<d, s.at>>]}])
          [] s.op = "mount" ->
               then([frame EXCEPT !.mounts =
                       @ \cup {[sub |-> look(s.sub), on |-> look(s.on), prefix |-> s.prefix]}])
          [] s.op = "derive" ->
               LET sub == IF s.prefix = "" THEN look(s.on) ELSE at
                   inner == Run([frame EXCEPT !.env = set(@, s.param, sub),
                                   !.mounts = IF s.prefix = "" THEN @ ELSE
                                     @ \cup {[sub |-> at, on |-> look(s.on), prefix |-> s.prefix]}],
                                s.body, fuel)
               IN  then([inner EXCEPT !.env = set(frame.env, s.to, sub)])
          [] s.op = "guard" -> Run(frame, (IF s.eq THEN s.else ELSE s.then) \o Tail(todo), fuel)
          [] s.op = "call" /\ s.callee \in Declarations /\ fuel > 0 ->
               LET ran == Execution([decl |-> s.callee, via |-> Append(frame.via, <<d, s.at>>),
                                     env |-> Arguments(frame.env, s.callee, s.args, frame.via, d)],
                                    0, fuel - 1)
               IN  then([frame EXCEPT !.routes = @ \cup ran.routes,
                                      !.mounts = @ \cup ran.mounts,
                                      !.env = set(@, s.to, ran.value)])
          [] s.op = "call" -> then([frame EXCEPT !.env = set(@, s.to, External)])
          [] OTHER -> then(frame)

(* A body runs to its only return.                                         *)
Execution(start, index, fuel) ==
  LET end == Run([decl |-> start.decl, via |-> start.via, env |-> start.env,
                  routes |-> {}, mounts |-> {}], unit.body[start.decl], fuel)
      operands == OperandsOf(start.decl, index)
      operand == operands[1]
      tail == IF operands # <<>> /\ operand.form = "call" /\ operand.callee \in Declarations /\ fuel > 0
                THEN Execution([decl |-> operand.callee,
                                via |-> Append(end.via, <<end.decl, operand.at>>),
                                env |-> Arguments(end.env, operand.callee, operand.args,
                                                  end.via, end.decl)], 0, fuel - 1)
                ELSE [routes |-> {}, mounts |-> {},
                      value |-> IF operands = <<>> THEN External
                                ELSE Look(end.env, operand, end.via, end.decl)]
  IN  [routes |-> end.routes \cup tail.routes, mounts |-> end.mounts \cup tail.mounts,
       value |-> tail.value]

(* What requests reach: routes on the object, under the prefixes above it. *)
RECURSIVE Reached(_, _, _, _)
Reached(ran, object, prefixes, fuel) ==
  {[site |-> r.site, prefixes |-> prefixes] : r \in {s \in ran.routes : s.on = object}}
  \cup (IF fuel = 0 THEN {} ELSE
        UNION {Reached(ran, m.sub, Append(prefixes, m.prefix), fuel - 1) :
                 m \in {n \in ran.mounts : n.on = object}})

FUEL == 6

Served ==
  UNION {LET root == unit.serveRoots[i]
             ran == Execution([decl |-> root.function, via |-> <<>>, env |-> <<>>],
                              root.result, FUEL)
         IN  IF Resolves(root) /\ ran.value # External
               THEN Reached(ran, ran.value, <<root.mount>>, FUEL) ELSE {} :
         i \in DOMAIN unit.serveRoots}

-----------------------------------------------------------------------------
(* Properties of the finished walk.                                        *)

(* A route published with a path is a route the service serves.            *)
PublishedIsServed == Done => {p \in Published : p.prefixes # Unanchored} \subseteq Served

(* The same, where no anchored router is also mounted on a router whose    *)
(* lineage the walk lost.                                                  *)
ProvenChainIsServed ==
  (\A k \in DOMAIN anchors \cap DOMAIN mounts : \A m \in mounts[k] : m.parent # NoParent) =>
    PublishedIsServed

(* A mount is recorded once per site (DLT-044).  In the units this is      *)
(* asked of, a prefix belongs to one site.                                 *)
MountOncePerSite ==
  \A key \in DOMAIN mounts : \A m, n \in mounts[key] : m.prefix = n.prefix => m = n
=============================================================================
