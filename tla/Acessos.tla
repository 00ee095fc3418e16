------------------------------ MODULE Acessos ------------------------------
(***************************************************************************)
(* What a user may do: the group of each user, the permissions of each     *)
(* group, and PermissionService's cache of 30 s, filled by the guards and  *)
(* discarded by the editions of users and groups, which interleave.        *)
(* Time passes in ticks: a cache entry holds for Validade of them.         *)
(***************************************************************************)
EXTENDS Naturals, FiniteSets

CONSTANTS Contas,          \* users
          Grupos,          \* permission groups
          Permissoes,      \* names of the catalogue
          Guardas,         \* requests at the PermissionGuard
          Editores,        \* requests that edit users and groups
          Validade,        \* CACHE_MS in ticks
          MaxEdicao        \* bound: editions

ASSUME AcessosAssumption == Validade \in Nat /\ MaxEdicao \in Nat

VARIABLES grupoDe,         \* users.permission_group_id
          concede,         \* permission_group_x_permission, by group
          excluido,        \* permission_groups.deleted_at is set
          cache,           \* by user: [tem, resta], the ticks the entry still holds
          guarda,          \* a guard between the reading of the hour and the cache's set
          edicao,          \* what each edition read, and where it stands
          edicoes,
          perdeu,          \* (history) <<user, name>> -> 0 while held, then 1 + the ticks since lost
          escrito          \* (history) users whose group an edition wrote

varsAcessos == <<grupoDe, concede, excluido, cache, guarda, edicao, edicoes, perdeu, escrito>>

SemEntrada == [tem |-> {}, resta |-> 0]
Ocioso == [pc |-> "livre"]

\* nomesPermissoesDoUsuario: the join does not look at deleted_at.
TemPeloGrupo(u) == concede[grupoDe[u]]

InitAcessos ==
    /\ grupoDe \in [Contas -> Grupos]
    /\ concede = [g \in Grupos |-> Permissoes]
    /\ excluido = [g \in Grupos |-> FALSE]
    /\ cache = [u \in Contas |-> SemEntrada]
    /\ guarda = [q \in Guardas |-> Ocioso]
    /\ edicao = [e \in Editores |-> Ocioso]
    /\ edicoes = 0
    /\ perdeu = [c \in Contas \X Permissoes |-> 0]
    /\ escrito = {}

\* What the history notes when groups or links change.
AnotaPerdas ==
    perdeu' = [c \in Contas \X Permissoes |->
                  IF c[2] \in concede'[grupoDe'[c[1]]] THEN 0
                  ELSE IF perdeu[c] = 0 THEN 1 ELSE perdeu[c]]

-----------------------------------------------------------------------------
\* The entry may be used.
Vale(c) == c.resta > 0

\* permissoesDoUsuario reads the hour and finds no entry to use.
PerguntaAoBanco(q, u) ==
    /\ guarda[q] = Ocioso
    /\ ~Vale(cache[u])
    /\ guarda' = [guarda EXCEPT ![q] = [pc |-> "consulta", u |-> u, idade |-> 0]]
    /\ UNCHANGED <<grupoDe, concede, excluido, cache, edicao, edicoes, perdeu, escrito>>

\* The SELECT runs.
LePermissoes(q) ==
    /\ guarda[q].pc = "consulta"
    /\ guarda' = [guarda EXCEPT ![q] = [pc |-> "grava", u |-> guarda[q].u, idade |-> guarda[q].idade,
                                        tem |-> TemPeloGrupo(guarda[q].u)]]
    /\ UNCHANGED <<grupoDe, concede, excluido, cache, edicao, edicoes, perdeu, escrito>>

\* (mutant) The validity counts from the writing of the entry.
ContadaNaGravacao(idade) == Validade

\* expiraEm: the validity counts from the hour read before the SELECT.
RestaDe(idade) == Validade - idade

\* The continuation writes the entry, whatever was discarded meanwhile.
GravaCache(q) ==
    /\ guarda[q].pc = "grava"
    /\ cache' = [cache EXCEPT ![guarda[q].u] = [tem |-> guarda[q].tem, resta |-> RestaDe(guarda[q].idade)]]
    /\ guarda' = [guarda EXCEPT ![q] = Ocioso]
    /\ UNCHANGED <<grupoDe, concede, excluido, edicao, edicoes, perdeu, escrito>>

-----------------------------------------------------------------------------
\* An edition begins: it read what `estado` holds.
IniciaEdicao(e, estado) ==
    /\ edicao[e] = Ocioso
    /\ edicoes < MaxEdicao
    /\ edicoes' = edicoes + 1
    /\ edicao' = [edicao EXCEPT ![e] = estado]
    /\ UNCHANGED <<grupoDe, concede, excluido, cache, guarda, perdeu, escrito>>

\* PATCH /permission-groups/:id reads the group with its permissions, then the users to
\* invalidate.  The form may bring permission_ids (`troca`) or not.
LeGrupo(e, g, troca) ==
    /\ ~excluido[g]
    /\ IniciaEdicao(e, [pc |-> "grupo", g |-> g, troca |-> troca, copia |-> concede[g],
                 afetados |-> {u \in Contas : grupoDe[u] = g}])

\* save makes the links those of the entity: the list of the form or the copy read.
VinculosDe(ed, novas) == IF ed.troca THEN novas ELSE ed.copia

GravaGrupo(e, novas) ==
    /\ edicao[e].pc = "grupo"
    /\ concede' = [concede EXCEPT ![edicao[e].g] = VinculosDe(edicao[e], novas)]
    /\ edicao' = [edicao EXCEPT ![e] = [pc |-> "invalida", us |-> edicao[e].afetados]]
    /\ UNCHANGED <<grupoDe, excluido, cache, guarda, edicoes, escrito>>
    /\ AnotaPerdas

\* PATCH /users/:id reads the user.
LeConta(e, u) == IniciaEdicao(e, [pc |-> "conta", u |-> u, copia |-> grupoDe[u]])

\* The whole row is saved: with the group of the form, which may have been removed, or
\* with the one that was read.
GravaConta(e, troca, g) ==
    LET u == edicao[e].u
    IN /\ edicao[e].pc = "conta"
       /\ grupoDe' = [grupoDe EXCEPT ![u] = IF troca THEN g ELSE edicao[e].copia]
       /\ edicao' = [edicao EXCEPT ![e] = IF troca THEN [pc |-> "invalida", us |-> {u}] ELSE Ocioso]
       /\ escrito' = escrito \cup {u}
       /\ UNCHANGED <<concede, excluido, cache, guarda, edicoes>>
       /\ AnotaPerdas

\* After the commit the cache of those users is discarded.
Invalida(e) ==
    /\ edicao[e].pc = "invalida"
    /\ cache' = [u \in Contas |-> IF u \in edicao[e].us THEN SemEntrada ELSE cache[u]]
    /\ edicao' = [edicao EXCEPT ![e] = Ocioso]
    /\ UNCHANGED <<grupoDe, concede, excluido, guarda, edicoes, perdeu, escrito>>

\* contarUsuariosVinculados
SemUsuarios(g) == \A u \in Contas : grupoDe[u] # g

\* remove: the users of the group are counted, then it is marked.
ContaUsuarios(e, g) ==
    /\ ~excluido[g]
    /\ SemUsuarios(g)
    /\ IniciaEdicao(e, [pc |-> "exclui", g |-> g])

ExcluiGrupo(e) ==
    /\ edicao[e].pc = "exclui"
    /\ excluido' = [excluido EXCEPT ![edicao[e].g] = TRUE]
    /\ edicao' = [edicao EXCEPT ![e] = Ocioso]
    /\ UNCHANGED <<grupoDe, concede, cache, guarda, edicoes, perdeu, escrito>>

\* The hour passes for the entries, for the guards that read it and for the history.
AteValidade(a, b) == IF a < b THEN a ELSE b
Tique ==
    /\ cache' = [u \in Contas |-> [cache[u] EXCEPT !.resta = IF @ = 0 THEN 0 ELSE @ - 1]]
    /\ guarda' = [q \in Guardas |->
                     IF guarda[q] = Ocioso THEN Ocioso
                     ELSE [guarda[q] EXCEPT !.idade = AteValidade(@ + 1, Validade)]]
    /\ perdeu' = [c \in Contas \X Permissoes |->
                     IF perdeu[c] = 0 THEN 0 ELSE AteValidade(perdeu[c] + 1, Validade + 2)]
    /\ UNCHANGED <<grupoDe, concede, excluido, edicao, edicoes, escrito>>

NextAcessos ==
    \/ \E q \in Guardas : (\E u \in Contas : PerguntaAoBanco(q, u)) \/ LePermissoes(q) \/ GravaCache(q)
    \/ \E e \in Editores :
          \/ \E g \in Grupos : ContaUsuarios(e, g) \/ \E troca \in BOOLEAN : LeGrupo(e, g, troca)
          \/ \E novas \in SUBSET Permissoes : GravaGrupo(e, novas)
          \/ \E u \in Contas : LeConta(e, u)
          \/ \E troca \in BOOLEAN, g \in Grupos : GravaConta(e, troca, g)
          \/ Invalida(e) \/ ExcluiGrupo(e)
    \/ Tique

SpecAcessos == InitAcessos /\ [][NextAcessos]_varsAcessos

-----------------------------------------------------------------------------
Entrada == [tem : SUBSET Permissoes, resta : 0..Validade]

NoGuarda == {Ocioso}
    \cup [pc : {"consulta"}, u : Contas, idade : 0..Validade]
    \cup [pc : {"grava"}, u : Contas, idade : 0..Validade, tem : SUBSET Permissoes]

EmEdicao == {Ocioso}
    \cup [pc : {"grupo"}, g : Grupos, troca : BOOLEAN, copia : SUBSET Permissoes, afetados : SUBSET Contas]
    \cup [pc : {"conta"}, u : Contas, copia : Grupos]
    \cup [pc : {"invalida"}, us : SUBSET Contas]
    \cup [pc : {"exclui"}, g : Grupos]

\* The typing of the state; what a user holds has no age.
TypeOKAcessos ==
    /\ grupoDe \in [Contas -> Grupos] /\ escrito \subseteq Contas
    /\ concede \in [Grupos -> SUBSET Permissoes] /\ excluido \in [Grupos -> BOOLEAN]
    /\ cache \in [Contas -> Entrada] /\ guarda \in [Guardas -> NoGuarda]
    /\ edicao \in [Editores -> EmEdicao] /\ edicoes \in 0..MaxEdicao
    /\ perdeu \in [Contas \X Permissoes -> 0..(Validade + 2)]
    /\ \A u \in Contas, p \in Permissoes : perdeu[<<u, p>>] = 0 <=> p \in TemPeloGrupo(u)

(***************************************************************************)
(* An entry in use names only what its user had at most 30 s ago, even     *)
(* when it was written after the edition had discarded the cache: what is  *)
(* lost is granted for CACHE_MS at most, counted with the time the entry   *)
(* still has.                                                              *)
(***************************************************************************)
CacheAtrasaAValidade ==
    \A u \in Contas : Vale(cache[u]) =>
        \A p \in cache[u].tem : perdeu[<<u, p>>] + cache[u].resta <= Validade + 1

(***************************************************************************)
(* A removed group has no user but those whose group an edition wrote:     *)
(* the removal is refused while someone uses the group.                    *)
(***************************************************************************)
ExcluidoSoDeQuemFoiEscrito ==
    \A u \in Contas : excluido[grupoDe[u]] => u \in escrito
=============================================================================
