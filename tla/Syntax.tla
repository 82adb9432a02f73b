------------------------------- MODULE Syntax -------------------------------
(***************************************************************************)
(* A schema is its syntax tree; lexical matters are left out.  Patterns of *)
(* the syntax:                                                             *)
(*   <<"empty">>  <<"text">>  <<"notAllowed">>  <<"data", type>>           *)
(*   <<"value", type, string>>                                             *)
(*   <<"element", class, e>>  <<"attribute", class, e>>  <<"list", e>>     *)
(*   <<"mixed", e>>  <<"optional", e>>  <<"zeroOrMore", e>>                *)
(*   <<"oneOrMore", e>>  <<"group", e1, e2>>  <<"choice", e1, e2>>         *)
(*   <<"interleave", e1, e2>>  <<"dataExcept", e1, e2>>                    *)
(*   <<"ref", name>>  <<"parent", name>>  <<"grammar", contents>>          *)
(*   <<"external", file, inherit>>                                         *)
(* A type is <<prefix, name>>, without a prefix (NoPrefix) built in.       *)
(* Name classes:                                                           *)
(*   <<"name", local>>  <<"prefixed", prefix, local>>                      *)
(*   <<"all", prefix>>  <<"any">>  <<"or", c1, c2>>  <<"but", c1, c2>>     *)
(* Contents of a grammar (div only groups them):                           *)
(*   <<"define", name, method, e>>, method "=", "|=" or "&="               *)
(*   <<"include", file, inherit, contents>>                                *)
(* Declarations:                                                           *)
(*   <<"namespace", prefix, uri>>  <<"datatypes", prefix, uri>>            *)
(*   <<"default", prefix, uri>>, the default namespace                     *)
(* A file is <<"pattern", declarations, e>> or                             *)
(* <<"contents", declarations, contents>>.  The file that names another    *)
(* says which of its namespaces that inherits: inherit is a prefix or, for *)
(* the default namespace, NoPrefix.                                        *)
(***************************************************************************)
CONSTANT Files    \* the files that external and include name

Start    == "start"
NoPrefix == ""
Inherit  == "#inherit"    \* in place of a URI: that which the file inherits

NoUri  == ""
XmlUri == "xml"           \* the namespaces and the library that need no declaration
XmlnsUri == "xmlns"
XsdUri == "xsd"
=============================================================================
