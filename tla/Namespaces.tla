----------------------------- MODULE Namespaces -----------------------------
(***************************************************************************)
(* What the prefixes and name classes of a schema stand for, told from its *)
(* syntax.  The plain form of a file has sets of names in place of name    *)
(* classes, libraries in place of prefixes, and the plain form of other    *)
(* files in place of their names.  Meaning says what a plain file means.   *)
(*                                                                         *)
(* An environment [ns, dt] gives the URIs of the prefixes of one file,     *)
(* from all its declarations at once.                                      *)
(***************************************************************************)
EXTENDS Naturals, Sequences, Syntax

LOCAL INSTANCE SequencesExt

CONSTANT Universe    \* names <<uri, local>> enough to tell name classes apart

\* The declarations of a prefix for namespaces, and of one for datatypes.
NsDecls(decls, pfx) ==
  SelectSeq(decls, LAMBDA d : \/ d[1] \in {"namespace", "default"} /\ d[2] = pfx
                              \/ d[1] = "default" /\ pfx = NoPrefix)

DtDecls(decls, pfx) == SelectSeq(decls, LAMBDA d : d[1] = "datatypes" /\ d[2] = pfx)

PrefixesOf(decls) == {decls[i][2] : i \in DOMAIN decls}

\* The environment of a file with these declarations that inherits namespace ns.
Environment(decls, ns) ==
  LET Bound(pfx)  == NsDecls(decls, pfx) # <<>>
      NsOf(pfx)   == LET uri == NsDecls(decls, pfx)[1][3] IN IF uri = Inherit THEN ns ELSE uri
      own         == {pfx \in PrefixesOf(decls) \cup {NoPrefix} : Bound(pfx)}
      libraries   == {pfx \in PrefixesOf(decls) : DtDecls(decls, pfx) # <<>>}
  IN  [ns |-> [pfx \in own \cup {NoPrefix, "xml"} |->
                 CASE pfx \in own -> NsOf(pfx) [] pfx \notin own /\ pfx = "xml" -> XmlUri [] OTHER -> ns],
       dt |-> [pfx \in libraries \cup {"xsd"} |->
                 IF pfx \in libraries THEN DtDecls(decls, pfx)[1][3] ELSE XsdUri]]

WithoutDefault(env) == [env EXCEPT !.ns[NoPrefix] = NoUri]

\* The names of a class.
RECURSIVE Names(_, _)
Names(c, env) ==
  CASE c[1] = "name"     -> {<<env.ns[NoPrefix], c[2]>>}
    [] c[1] = "prefixed" -> {<<env.ns[c[2]], c[3]>>}
    [] c[1] = "all"      -> {n \in Universe : n[1] = env.ns[c[2]]}
    [] c[1] = "any"      -> Universe
    [] c[1] = "or"       -> Names(c[2], env) \cup Names(c[3], env)
    [] c[1] = "but"      -> Names(c[2], env) \ Names(c[3], env)

Library(t, env) == IF t[1] = NoPrefix THEN t ELSE <<env.dt[t[1]], t[2]>>

-----------------------------------------------------------------------------
(* The plain form. *)

RECURSIVE Plain(_, _), PlainContents(_, _), PlainFile(_, _)

Plain(e, env) ==
  CASE e[1] = "element"   -> <<"element", Names(e[2], env), Plain(e[3], env)>>
    [] e[1] = "attribute" -> <<"attribute", Names(e[2], WithoutDefault(env)), Plain(e[3], env)>>
    [] e[1] = "data"      -> <<"data", Library(e[2], env)>>
    [] e[1] = "value"     -> <<"value", Library(e[2], env), e[3]>>
    [] e[1] = "grammar"   -> <<"grammar", PlainContents(e[2], env)>>
    [] e[1] = "external"  -> <<"external", PlainFile(Files[e[2]], env.ns[e[3]])>>
    [] e[1] \in {"choice", "group", "interleave", "dataExcept"} ->
         <<e[1], Plain(e[2], env), Plain(e[3], env)>>
    [] e[1] \in {"oneOrMore", "zeroOrMore", "optional", "mixed", "list"} -> <<e[1], Plain(e[2], env)>>
    [] e[1] \in {"empty", "text", "notAllowed", "ref", "parent"} -> e

PlainContents(contents, env) ==
  [i \in DOMAIN contents |->
     LET c == contents[i]
     IN  IF c[1] = "define" THEN <<"define", c[2], c[3], Plain(c[4], env)>>
         ELSE <<"include", PlainFile(Files[c[2]], env.ns[c[3]]), PlainContents(c[4], env)>>]

PlainFile(file, ns) ==
  LET env == Environment(file[2], ns)
  IN  IF file[1] = "pattern" THEN <<"pattern", Plain(file[3], env)>>
      ELSE <<"contents", PlainContents(file[3], env)>>

-----------------------------------------------------------------------------
(***************************************************************************)
(* Faults of naming: prefixes that are declared twice or not at all,       *)
(* exceptions from a class of one name, files that are not there.          *)
(***************************************************************************)
DeclaredTwice(decls) ==
  \E pfx \in PrefixesOf(decls) \cup {NoPrefix} :
    \/ Len(NsDecls(decls, pfx)) > (IF pfx \in {"xml", "xmlns"} THEN 0 ELSE 1)
    \/ Len(DtDecls(decls, pfx)) > 1

RECURSIVE ClassFault(_, _)
ClassFault(c, env) ==
  \/ c[1] \in {"prefixed", "all"} /\ c[2] \notin DOMAIN env.ns
  \/ c[1] = "but" /\ c[2][1] \notin {"any", "all"}
  \/ c[1] \in {"or", "but"} /\ (ClassFault(c[2], env) \/ ClassFault(c[3], env))

RECURSIVE NamingFault(_, _), ContentsFault(_, _), SchemaFault(_, _), FileFault(_, _, _)

NamingFault(e, env) ==
  CASE e[1] \in {"element", "attribute"} -> ClassFault(e[2], env) \/ NamingFault(e[3], env)
    [] e[1] \in {"data", "value"} -> e[2][1] \notin DOMAIN env.dt \cup {NoPrefix}
    [] e[1] = "grammar"  -> ContentsFault(e[2], env)
    [] e[1] = "external" -> FileFault(e[2], e[3], env)
    [] e[1] \in {"choice", "group", "interleave", "dataExcept"} ->
         NamingFault(e[2], env) \/ NamingFault(e[3], env)
    [] e[1] \in {"oneOrMore", "zeroOrMore", "optional", "mixed", "list"} -> NamingFault(e[2], env)
    [] OTHER -> FALSE

ContentsFault(contents, env) ==
  \E i \in DOMAIN contents :
    LET c == contents[i]
    IN  IF c[1] = "define" THEN NamingFault(c[4], env)
        ELSE FileFault(c[2], c[3], env) \/ ContentsFault(c[4], env)

\* Of a schema read with namespace ns to inherit.
SchemaFault(file, ns) ==
  LET env == Environment(file[2], ns)
  IN  \/ DeclaredTwice(file[2])
      \/ IF file[1] = "pattern" THEN NamingFault(file[3], env) ELSE ContentsFault(file[3], env)

\* Of another file, which inherits the namespace of prefix pfx.
FileFault(f, pfx, env) ==
  \/ f \notin DOMAIN Files
  \/ pfx \notin DOMAIN env.ns
  \/ SchemaFault(Files[f], env.ns[pfx])
=============================================================================
