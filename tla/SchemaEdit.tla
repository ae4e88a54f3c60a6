----------------------------- MODULE SchemaEdit -----------------------------
(***************************************************************************)
(* table_create, table_drop, table_get and table_list of the five           *)
(* connectors (each connector's schema.rs), the opening of an appender, and *)
(* the escaping of names (util/escape.rs), for two clients of one database  *)
(* that drop, create and use the same tables, as load_into_table of the     *)
(* integration tests does.                                                  *)
(*                                                                         *)
(* A name is a sequence of characters.  The server reads the escaped text,  *)
(* not the name: what the reading makes of it is external, and so is what   *)
(* the server answers; the connector makes TableExists and TableNonexistent *)
(* of some answers and passes the others on as Connector errors.            *)
(***************************************************************************)
EXTENDS Naturals, Sequences, SequencesExt

CONSTANTS
  Names,      \* the names the clients use
  Reserved    \* the words among them that the server has reserved

ASSUME NamesAssumption == Names \subseteq Seq(STRING) /\ <<>> \notin Names

Dbs == {"postgres", "sqlite", "mysql", "duckdb", "tiberius"}

Clients == {"me", "other"}
Owners == Clients \cup {"view"}

VARIABLES
  db,
  used,      \* the names used in this behaviour
  catalog,   \* the database's tables and views: their name, and whose schema they have
  expect,    \* history: what "me" knows of each name, if nobody else has touched it
  answer     \* the last call, its answer, and what "me" knew before

vars == << db, used, catalog, expect, answer >>

-----------------------------------------------------------------------------
Lower == {"a", "o", "r", "t", "_"}
ValidRest == Lower \cup {"1", "$"}

\* Mutant: capital letters are taken to be valid.
ValidIdentCapital(name) ==
  /\ name[1] \in Lower \cup {"A"}
  /\ \A i \in 1..Len(name) : name[i] \in ValidRest \cup {"A"}

(* VALID_IDENT *)
ValidIdent(name) ==
  /\ name[1] \in Lower
  /\ \A i \in 1..Len(name) : name[i] \in ValidRest

Quote == IF db = "mysql" THEN "backtick" ELSE "quote"

\* Mutant: a quote in the name is written once.
DoubledOnce(c) == << c >>

(* A character within quotes: the quote itself is doubled. *)
Doubled(c) == IF c = Quote THEN << c, c >> ELSE << c >>

\* Mutant: names are never quoted.
NeverEscaped(name) == name

(* escaped_ident, escaped_ident_bt *)
Escaped(name) ==
  IF ValidIdent(name)
  THEN name
  ELSE << Quote >> \o FlattenSeq([i \in 1..Len(name) |-> Doubled(name[i])]) \o << Quote >>

(* What the server's lexer reads (external): a quoted name ends at the      *)
(* first quote that is not doubled, and nothing may follow it.  The empty   *)
(* set is a syntax error.                                                   *)
Quoted(text) ==
  LET rest[i \in 2..(Len(text) + 2)] ==
        IF i > Len(text) THEN {}
        ELSE IF text[i] # Quote THEN { << text[i] >> \o s : s \in rest[i + 1] }
        ELSE IF i = Len(text) THEN { <<>> }
        ELSE IF text[i + 1] = Quote THEN { << Quote >> \o s : s \in rest[i + 2] }
        ELSE {}
  IN rest[2]

(* An unquoted name is a word that is not reserved; PostgreSQL folds it to  *)
(* lower case, and the others compare it as it is.                          *)
Folded(text) == [i \in 1..Len(text) |-> IF text[i] = "A" THEN "a" ELSE text[i]]

Unquoted(text) ==
  IF text \in Reserved \/ \E i \in 1..Len(text) : text[i] \notin ValidRest \cup {"A"}
  THEN {}
  ELSE IF db = "postgres" THEN { Folded(text) } ELSE { text }

ServerReads(text) == IF text[1] = Quote THEN Quoted(text) ELSE Unquoted(text)

\* The objects a statement with this name is about.
Keys(name) == ServerReads(Escaped(name))
Objects(key) == { o \in catalog : o.name = key }
IsTable(o) == o.owner # "view"

-----------------------------------------------------------------------------
NoAnswer == [by |-> "nobody", op |-> "none", name |-> <<>>, result |-> "none",
             shown |-> {}, known |-> [n \in used |-> "unknown"]]

Answer(c, op, name, result, shown) ==
  answer' = [by |-> c, op |-> op, name |-> name, result |-> result, shown |-> shown,
             known |-> expect]

(* What is known of a name after a step of c, that had this result.         *)
Learn(c, name, fact) ==
  expect' = IF c = "me" THEN [expect EXCEPT ![name] = fact]
            ELSE [n \in used |-> IF \E o \in catalog \cup catalog' :
                                      /\ o.name = n
                                      /\ o \notin catalog \cap catalog'
                                 THEN "unknown" ELSE expect[n]]

Init ==
  /\ db \in Dbs
  /\ \E n, m \in Names : used = {n, m}
  /\ catalog = {}
  /\ expect = [n \in used |-> "unknown"]
  /\ answer = NoAnswer

(* table_create.  The name may be a view's: DuckDB says so in other words   *)
(* than of a table, which table_create does not know.                       *)
TableCreate(c, name) ==
  /\ UNCHANGED << db, used >>
  /\ \/ \E key \in Keys(name) :
          /\ Objects(key) = {}
          /\ catalog' = catalog \cup { [name |-> key, owner |-> c] }
          /\ Answer(c, "create", name, "Ok", {})
          /\ Learn(c, name, "mine")
     \/ \E key \in Keys(name) : \E o \in Objects(key) :
          /\ Answer(c, "create", name,
                    IF IsTable(o) \/ db # "duckdb" THEN "TableExists" ELSE "Connector", {})
          /\ UNCHANGED << catalog, expect >>
     \/ /\ Keys(name) = {}
        /\ Answer(c, "create", name, "Connector", {})
        /\ UNCHANGED << catalog, expect >>

\* Mutant: every error of the server is passed on.
DropPassesOn(objects) == "Connector"

(* The answer to a DROP TABLE where there is no table but perhaps a view:   *)
(* MySQL has one error for both.                                            *)
DropError(objects) ==
  IF objects = {} \/ db = "mysql" THEN "TableNonexistent" ELSE "Connector"

(* table_drop *)
TableDrop(c, name) ==
  /\ UNCHANGED << db, used >>
  /\ \/ \E key \in Keys(name) : \E o \in Objects(key) :
          /\ IsTable(o)
          /\ catalog' = catalog \ {o}
          /\ Answer(c, "drop", name, "Ok", {})
          /\ Learn(c, name, "absent")
     \/ \E key \in Keys(name) :
          /\ \A o \in Objects(key) : ~IsTable(o)
          /\ UNCHANGED catalog
          /\ Answer(c, "drop", name, DropError(Objects(key)), {})
          /\ IF DropError(Objects(key)) = "TableNonexistent"
             THEN Learn(c, name, "absent") ELSE UNCHANGED expect
     \/ /\ Keys(name) = {}
        /\ Answer(c, "drop", name, "Connector", {})
        /\ UNCHANGED << catalog, expect >>

-----------------------------------------------------------------------------
(* The statements of table_get name the table, but PostgreSQL's and SQL     *)
(* Server's: there the name is a parameter.                                 *)
GetKeys(name) == IF db \in {"postgres", "tiberius"} THEN {name} ELSE Keys(name)

(* table_get: the schema of a table or view.  Of one that does not exist it *)
(* is an error where the statement needs the table, and otherwise a schema  *)
(* without fields.                                                          *)
TableGet(c, name) ==
  /\ UNCHANGED << db, used, catalog, expect >>
  /\ \/ \E key \in GetKeys(name) : \E o \in Objects(key) :
          Answer(c, "get", name, "Ok", {o.owner})
     \/ \E key \in GetKeys(name) :
          /\ Objects(key) = {}
          /\ Answer(c, "get", name, IF db \in {"mysql", "duckdb"} THEN "Connector" ELSE "Ok", {})
     \/ GetKeys(name) = {} /\ Answer(c, "get", name, "Connector", {})

(* The objects of table_list: MySQL's and DuckDB's SHOW TABLES have views. *)
Listed == { o \in catalog : IsTable(o) \/ db \in {"mysql", "duckdb"} }

(* table_list *)
TableList(c) ==
  /\ UNCHANGED << db, used, catalog, expect >>
  /\ Answer(c, "list", <<>>, "Ok", { o.name : o \in Listed })

(* The table that an appender's rows go to: DuckDB's appender is given the  *)
(* name, the other connectors' statements name the table.                   *)
AppendKeys(name) == IF db = "duckdb" THEN {name} ELSE Keys(name)

(* An appender is opened and given its first rows. *)
OpenAppender(c, name) ==
  /\ UNCHANGED << db, used, catalog, expect >>
  /\ \/ \E key \in AppendKeys(name) : \E o \in Objects(key) :
          IsTable(o) /\ Answer(c, "append", name, "Ok", {o.owner})
     \/ /\ \A key \in AppendKeys(name) : \A o \in Objects(key) : ~IsTable(o)
        /\ Answer(c, "append", name, "Connector", {})

-----------------------------------------------------------------------------
(* External: others create and drop views; a statement fails for a lock, a  *)
(* missing permission or a lost connection, in the last case perhaps after  *)
(* the server has executed it.                                              *)
Forget(name) ==
  /\ expect' = [expect EXCEPT ![name] = "unknown"]
  /\ answer' = NoAnswer
  /\ UNCHANGED << db, used >>

CreateView(name) ==
  /\ Objects(name) = {}
  /\ catalog' = catalog \cup { [name |-> name, owner |-> "view"] }
  /\ Forget(name)

DropView(name) ==
  /\ [name |-> name, owner |-> "view"] \in catalog
  /\ catalog' = catalog \ { [name |-> name, owner |-> "view"] }
  /\ Forget(name)

AnswerLost(c, name) ==
  /\ \/ UNCHANGED catalog
     \/ \E key \in Keys(name) : Objects(key) = {} /\
          catalog' = catalog \cup { [name |-> key, owner |-> c] }
     \/ \E key \in Keys(name) : \E o \in Objects(key) : IsTable(o) /\ catalog' = catalog \ {o}
  /\ Forget(name)

Next ==
  \/ \E c \in Clients, name \in used :
       \/ TableCreate(c, name)
       \/ TableDrop(c, name)
       \/ TableGet(c, name)
       \/ OpenAppender(c, name)
       \/ AnswerLost(c, name)
  \/ \E c \in Clients : TableList(c)
  \/ \E name \in used : CreateView(name) \/ DropView(name)

Spec == Init /\ [][Next]_vars

-----------------------------------------------------------------------------
(* The variables have their types.  There is one object of a name, and the  *)
(* names are those that were used: none is made of another one.             *)
TypeOK ==
  /\ db \in Dbs
  /\ used \subseteq Names
  /\ catalog \subseteq [name : used, owner : Owners]
  /\ \A o, p \in catalog : o.name = p.name => o = p
  /\ expect \in [used -> {"unknown", "absent", "mine"}]
  /\ answer.by \in Clients \cup {"nobody"}
  /\ answer.result \in {"none", "Ok", "TableExists", "TableNonexistent", "Connector"}

(* A call for one name creates or drops the table of that name and no       *)
(* other, whatever characters are in it: what the server reads of the       *)
(* escaped name is the name.                                                *)
OnlyThatTable ==
  [][answer'.by \in Clients =>
       \A o \in (catalog \ catalog') \cup (catalog' \ catalog) :
         o.name = answer'.name /\ IsTable(o)]_vars

(* MySQL's DROP TABLE of a view is taken for that of a missing table. *)
Misled(name) == db = "mysql" /\ \E o \in catalog : o.name = name /\ ~IsTable(o)

(* As long as nobody else touches a name, the calls of a client agree with  *)
(* each other, over table_create, table_drop, table_get, table_list and     *)
(* append, which ask the server in different ways: after its table_drop     *)
(* succeeded, or said TableNonexistent, table_create succeeds (the panic of *)
(* load_into_table, "table was just deleted", needs another client), and    *)
(* after table_create the table is there under its very name.               *)
SessionAgrees ==
  answer.by = "me" =>
    \A n \in used :
      LET is(fact) == answer.known[n] = fact /\ answer.name = n /\ ~Misled(n)
      IN  /\ is("absent") =>
               /\ answer.op = "create" => answer.result = "Ok"
               /\ answer.op = "drop" => answer.result = "TableNonexistent"
               /\ answer.op = "append" => answer.result = "Connector"
               /\ answer.op = "get" => answer.shown = {}
          /\ is("mine") =>
               /\ answer.op = "create" => answer.result = "TableExists"
               /\ answer.op = "drop" => answer.result = "Ok"
               /\ answer.op \in {"append", "get"} => answer.shown = {"me"}
          /\ answer.op = "list" /\ ~Misled(n) =>
               /\ answer.known[n] = "absent" => n \notin answer.shown
               /\ answer.known[n] = "mine" => n \in answer.shown

(* Every other error has its reason, and is the one that api.rs has a name  *)
(* for: a Connector error is returned for a reserved word, which is never   *)
(* quoted, for a view, and by table_get and append for a missing table.     *)
(* PostgreSQL's and SQL Server's table_get, where the name is a parameter,  *)
(* and DuckDB's appender take reserved words.                               *)
ErrorsExplained ==
  LET object == { o \in catalog : o.name = answer.name }
  IN  /\ answer.result = "TableExists" => object # {}
      /\ answer.result = "TableNonexistent" => \A o \in object : ~IsTable(o)
      /\ answer.result = "Connector" =>
           \/ answer.name \in Reserved
           \/ \E o \in object : ~IsTable(o)
           \/ answer.op \in {"get", "append"} /\ object = {}
=============================================================================
