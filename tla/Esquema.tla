------------------------------ MODULE Esquema ------------------------------
(***************************************************************************)
(* The database schema as the migrations see it, and what each kind of     *)
(* migration command does to it.  A command is a record; Aplica runs a     *)
(* sequence of them as PostgreSQL does inside the transaction TypeORM      *)
(* opens around a migration: the first command that fails fails them all.  *)
(*                                                                         *)
(* A schema is a record:                                                   *)
(*   ok     FALSE once a command failed                                    *)
(*   tab    table -> [req, opt]: its columns an INSERT must give a value   *)
(*          to (NOT NULL, no default, not generated), and the others       *)
(*   fk     foreign keys [nome, de, col, para]                             *)
(*   nomes  the indexes and constraints that are dropped by name           *)
(*   linha  table -> ids of the catalogue rows migrations insert           *)
(*   perm   permission id -> [nome, mod]                                   *)
(*   gp     pairs <<group, permission id>> of permission_group_x_permission *)
(* Column types and lengths, and the indexes nothing refers to by name     *)
(* are left out.                                                           *)
(***************************************************************************)
EXTENDS Naturals, FiniteSets, SequencesExt

Administrador == 1
Supervisor == 2
Atendente == 3
PadroesDoSistema == {Administrador, Supervisor, Atendente}

Vazio == [ok |-> TRUE, tab |-> <<>>, fk |-> {}, nomes |-> <<>>,
          linha |-> <<>>, perm |-> <<>>, gp |-> {}]

(***************************************************************************)
(* The commands                                                            *)
(***************************************************************************)
Cria(t, req, opt, fks) == [op |-> "cria", t |-> t, req |-> req, opt |-> opt, fks |-> fks, se |-> FALSE]
Solta(t) == [op |-> "solta", t |-> t, se |-> FALSE]
Poe(t, req, opt) == [op |-> "poe", t |-> t, req |-> req, opt |-> opt, se |-> FALSE]
Tira(t, cols) == [op |-> "tira", t |-> t, cols |-> cols, se |-> FALSE]
Exige(t, cols) == [op |-> "exige", t |-> t, cols |-> cols, se |-> FALSE]
Libera(t, cols) == [op |-> "libera", t |-> t, cols |-> cols, se |-> FALSE]
Liga(t, nome, col, para) == [op |-> "liga", t |-> t, nome |-> nome, col |-> col, para |-> para, se |-> FALSE]
Desliga(t, nome) == [op |-> "desliga", t |-> t, nome |-> nome, se |-> FALSE]
Nomeia(nome, t) == [op |-> "nomeia", nome |-> nome, t |-> t, se |-> FALSE]
Anula(nome) == [op |-> "anula", nome |-> nome, se |-> FALSE]
RenomeiaTabela(a, b) == [op |-> "rentab", t |-> a, b |-> b, se |-> FALSE]
RenomeiaColuna(t, a, b) == [op |-> "rencol", t |-> t, a |-> a, b |-> b, se |-> FALSE]
RenomeiaFk(t, a, b) == [op |-> "renfk", t |-> t, nome |-> a, b |-> b, se |-> FALSE]
RenomeiaNome(a, b) == [op |-> "rennome", nome |-> a, b |-> b, se |-> FALSE]
Insere(t, ids) == [op |-> "insere", t |-> t, ids |-> ids, se |-> FALSE]
Apaga(t, ids) == [op |-> "apaga", t |-> t, ids |-> ids, se |-> FALSE]
Modulos(ids) == Insere("permission_module", ids)
ApagaModulos(ids) == Apaga("permission_module", ids)
Semeia(ps) == [op |-> "semeia", ps |-> ps, se |-> FALSE]
SemeiaSeFalta(mod, nome) == [op |-> "semeiase", mod |-> mod, nome |-> nome, se |-> FALSE]
ApagaPermissoes(ids) == [op |-> "apagaperm", ids |-> ids, nomes |-> {}, se |-> FALSE]
ApagaPorNome(nomes) == [op |-> "apagaperm", ids |-> {}, nomes |-> nomes, se |-> FALSE]
Concede(gs, ids) == [op |-> "concede", gs |-> gs, ids |-> ids, nomes |-> {}, se |-> FALSE]
ConcedePorNome(gs, nomes) == [op |-> "concede", gs |-> gs, ids |-> {}, nomes |-> nomes, se |-> FALSE]
ConcedeExceto(gs, nomes) == [op |-> "exceto", gs |-> gs, nomes |-> nomes, se |-> FALSE]
Revoga(gs, ids) == [op |-> "revoga", gs |-> gs, ids |-> ids, nomes |-> {}, se |-> FALSE]
RevogaPorNome(gs, nomes) == [op |-> "revoga", gs |-> gs, ids |-> {}, nomes |-> nomes, se |-> FALSE]
Impede == [op |-> "impede", se |-> FALSE]
Exame == [op |-> "exame", se |-> FALSE]

\* The form with IF EXISTS / IF NOT EXISTS: nothing happens where it does not apply.
Se(o) == [o EXCEPT !.se = TRUE]

(***************************************************************************)
(* What a command needs, and what it does                                  *)
(***************************************************************************)
Tabelas(s) == DOMAIN s.tab
Colunas(s, t) == s.tab[t].req \cup s.tab[t].opt
Fks(s, t) == {f \in s.fk : f.de = t}
IdsDe(s, nomes) == {i \in DOMAIN s.perm : s.perm[i].nome \in nomes}

\* The permission ids a grant, a revocation or a removal speaks of.
Alvo(s, o) == (o.ids \cap DOMAIN s.perm) \cup IdsDe(s, o.nomes)

Sem(f, chaves) == [x \in DOMAIN f \ chaves |-> f[x]]
Com(f, chave, valor) == [x \in DOMAIN f \cup {chave} |-> IF x = chave THEN valor ELSE f[x]]

\* The object the command names is where the command needs it.
Aplicavel(s, o) ==
    CASE o.op = "cria" -> o.t \notin Tabelas(s)
      [] o.op \in {"solta", "rentab", "insere", "apaga"} -> o.t \in Tabelas(s)
      [] o.op = "poe" -> o.t \in Tabelas(s) /\ (o.req \cup o.opt) \cap Colunas(s, o.t) = {}
      [] o.op \in {"tira", "exige", "libera"} -> o.t \in Tabelas(s) /\ o.cols \subseteq Colunas(s, o.t)
      [] o.op = "liga" -> /\ {o.t, o.para} \subseteq Tabelas(s)
                          /\ o.col \in Colunas(s, o.t)
                          /\ \A f \in Fks(s, o.t) : f.nome # o.nome
      [] o.op \in {"desliga", "renfk"} -> \E f \in Fks(s, o.t) : f.nome = o.nome
      [] o.op = "nomeia" -> o.nome \notin DOMAIN s.nomes /\ o.t \in Tabelas(s)
      [] o.op \in {"anula", "rennome"} -> o.nome \in DOMAIN s.nomes
      [] o.op = "rencol" -> o.t \in Tabelas(s) /\ o.a \in Colunas(s, o.t)
      [] OTHER -> TRUE

\* Constraints that refuse a command which is otherwise applicable.  `recusa` says
\* whether the data in the tables makes a migration that looks at them stop.
Aceito(s, o, recusa) ==
    CASE o.op = "cria" -> \A f \in o.fks : f[3] \in Tabelas(s) \cup {o.t} /\ f[2] \in o.req \cup o.opt
      [] o.op = "solta" -> \A f \in s.fk : f.para = o.t => f.de = o.t
      [] o.op = "rentab" -> o.b \notin Tabelas(s)
      [] o.op = "rencol" -> o.b \notin Colunas(s, o.t)
      [] o.op = "rennome" -> o.b \notin DOMAIN s.nomes
      [] o.op = "insere" -> o.ids \cap s.linha[o.t] = {}
      [] o.op = "apaga" -> o.t = "permission_module" => \A i \in DOMAIN s.perm : s.perm[i].mod \notin o.ids
      [] o.op = "semeia" -> \A p \in o.ps : p[1] \notin DOMAIN s.perm /\ p[2] \in s.linha["permission_module"]
      [] o.op = "semeiase" -> o.mod \in s.linha["permission_module"]
      [] o.op \in {"concede", "exceto"} -> o.gs \subseteq s.linha["permission_groups"]
      [] o.op = "impede" -> FALSE
      [] o.op = "exame" -> ~recusa
      [] OTHER -> TRUE

NovaFk(t, f) == [nome |-> f[1], de |-> t, col |-> f[2], para |-> f[3]]
Troca(x, a, b) == IF x = a THEN b ELSE x
TrocaEm(cols, a, b) == {Troca(c, a, b) : c \in cols}

Efeito(s, o) ==
    CASE o.op = "cria" ->
            [s EXCEPT !.tab = Com(@, o.t, [req |-> o.req, opt |-> o.opt]),
                      !.linha = Com(@, o.t, {}),
                      !.fk = @ \cup {NovaFk(o.t, f) : f \in o.fks}]
      [] o.op = "solta" ->
            [s EXCEPT !.tab = Sem(@, {o.t}), !.linha = Sem(@, {o.t}), !.fk = @ \ Fks(s, o.t),
                      !.nomes = Sem(@, {n \in DOMAIN @ : @[n] = o.t}),
                      !.perm = IF o.t = "permissions" THEN <<>> ELSE @,
                      !.gp = IF o.t = "permission_group_x_permission" THEN {} ELSE @]
      [] o.op = "poe" ->
            [s EXCEPT !.tab[o.t].req = @ \cup o.req, !.tab[o.t].opt = @ \cup o.opt]
      [] o.op = "tira" ->
            [s EXCEPT !.tab[o.t].req = @ \ o.cols, !.tab[o.t].opt = @ \ o.cols,
                      !.fk = {f \in @ : ~(f.de = o.t /\ f.col \in o.cols)}]
      [] o.op = "exige" ->
            [s EXCEPT !.tab[o.t].req = @ \cup o.cols, !.tab[o.t].opt = @ \ o.cols]
      [] o.op = "libera" ->
            [s EXCEPT !.tab[o.t].req = @ \ o.cols, !.tab[o.t].opt = @ \cup o.cols]
      [] o.op = "liga" -> [s EXCEPT !.fk = @ \cup {NovaFk(o.t, <<o.nome, o.col, o.para>>)}]
      [] o.op = "desliga" -> [s EXCEPT !.fk = {f \in @ : ~(f.de = o.t /\ f.nome = o.nome)}]
      [] o.op = "renfk" ->
            [s EXCEPT !.fk = {IF f.de = o.t THEN [f EXCEPT !.nome = Troca(@, o.nome, o.b)] ELSE f : f \in @}]
      [] o.op = "nomeia" -> [s EXCEPT !.nomes = Com(@, o.nome, o.t)]
      [] o.op = "anula" -> [s EXCEPT !.nomes = Sem(@, {o.nome})]
      [] o.op = "rennome" -> [s EXCEPT !.nomes = Com(Sem(@, {o.nome}), o.b, @[o.nome])]
      [] o.op = "rentab" ->
            [s EXCEPT !.tab = Com(Sem(@, {o.t}), o.b, @[o.t]),
                      !.linha = Com(Sem(@, {o.t}), o.b, @[o.t]),
                      !.fk = {[f EXCEPT !.de = Troca(@, o.t, o.b), !.para = Troca(@, o.t, o.b)] : f \in @},
                      !.nomes = [n \in DOMAIN @ |-> Troca(@[n], o.t, o.b)]]
      [] o.op = "rencol" ->
            [s EXCEPT !.tab[o.t].req = TrocaEm(@, o.a, o.b), !.tab[o.t].opt = TrocaEm(@, o.a, o.b),
                      !.fk = {IF f.de = o.t THEN [f EXCEPT !.col = Troca(@, o.a, o.b)] ELSE f : f \in @}]
      [] o.op = "insere" -> [s EXCEPT !.linha[o.t] = @ \cup o.ids]
      [] o.op = "apaga" -> [s EXCEPT !.linha[o.t] = @ \ o.ids]
      [] o.op = "semeia" ->
            [s EXCEPT !.perm = [i \in DOMAIN @ \cup {p[1] : p \in o.ps} |->
                IF i \in DOMAIN @ THEN @[i]
                ELSE LET p == CHOOSE q \in o.ps : q[1] = i IN [mod |-> p[2], nome |-> p[3]]]]
      [] o.op = "semeiase" ->
            IF IdsDe(s, {o.nome}) # {} THEN s
            ELSE [s EXCEPT !.perm = Com(@, Max({0} \cup DOMAIN @) + 1, [mod |-> o.mod, nome |-> o.nome])]
      [] o.op = "apagaperm" ->
            [s EXCEPT !.perm = Sem(@, Alvo(s, o)), !.gp = {c \in @ : c[2] \notin Alvo(s, o)}]
      [] o.op = "concede" -> [s EXCEPT !.gp = @ \cup (o.gs \X Alvo(s, o))]
      [] o.op = "exceto" ->
            [s EXCEPT !.gp = @ \cup (o.gs \X (DOMAIN s.perm \ IdsDe(s, o.nomes)))]
      [] o.op = "revoga" -> [s EXCEPT !.gp = @ \ (o.gs \X Alvo(s, o))]
      [] OTHER -> s

Executa(s, o, recusa) ==
    IF ~s.ok THEN s
    ELSE IF o.se /\ ~Aplicavel(s, o) THEN s
    ELSE IF Aplicavel(s, o) /\ Aceito(s, o, recusa) THEN Efeito(s, o)
    ELSE [s EXCEPT !.ok = FALSE]

Aplica(s, comandos, recusa) ==
    FoldLeft(LAMBDA a, o : Executa(a, o, recusa), s, comandos)
=============================================================================
