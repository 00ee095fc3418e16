----------------------------- MODULE Conexoes ------------------------------
(***************************************************************************)
(* The pool of database connections (database.module) and the ways the     *)
(* code uses it: a single query; runInTransaction, which holds a           *)
(* connection while what it calls asks the pool for another; UsersService, *)
(* whose request opens a transaction on a QueryRunner it never releases;   *)
(* SupportsService, whose one QueryRunner keeps its connection for good.   *)
(* PostgreSQL answers every query: what fails here is the pool alone.      *)
(***************************************************************************)
EXTENDS Naturals, FiniteSets

CONSTANTS Chamadas,       \* requests and jobs that use the database at once
          MaxConexoes             \* extra.max: clients in the pool

VARIABLES livres,         \* clients nobody holds
          chamada,        \* [tipo, pc, tem]: what each call does and holds
          doSuporte,      \* the QueryRunner of SupportsService has its connection
          abertas         \* (history) transactions UsersService opened

varsConexoes == <<livres, chamada, doSuporte, abertas>>

ASSUME ConexoesAssumption == MaxConexoes \in Nat \ {0}

TiposDeChamada == {"consulta", "transacao", "usuarios", "suporte"}
SemChamada == [tipo |-> "nenhum", pc |-> "fora", tem |-> 0]

InitConexoes ==
    /\ livres = MaxConexoes
    /\ chamada = [c \in Chamadas |-> SemChamada]
    /\ doSuporte = FALSE
    /\ abertas = 0

\* A call begins by asking the pool for a client.  The first uses of SupportsService
\* share one request for it.
Chega(c, tipo) ==
    /\ chamada[c] = SemChamada
    /\ tipo = "suporte" => ~doSuporte /\ \A k \in Chamadas : chamada[k].tipo # "suporte"
    /\ chamada' = [chamada EXCEPT ![c] = [tipo |-> tipo, pc |-> "espera", tem |-> 0]]
    /\ UNCHANGED <<livres, doSuporte, abertas>>

\* Its QueryRunner already has a connection.
ChegaComConexao(c) ==
    /\ chamada[c] = SemChamada /\ doSuporte
    /\ chamada' = [chamada EXCEPT ![c] = [tipo |-> "suporte", pc |-> "dentro", tem |-> 0]]
    /\ UNCHANGED <<livres, doSuporte, abertas>>

\* How many clients a call of this kind has when it works.
Precisa(tipo) == IF tipo \in {"transacao", "usuarios"} THEN 2 ELSE 1

\* The pool hands out a client.
Recebe(c) ==
    LET ch == chamada[c]
    IN /\ ch.pc = "espera"
       /\ livres > 0
       /\ livres' = livres - 1
       /\ chamada' = [chamada EXCEPT ![c].tem = @ + 1,
                                     ![c].pc = IF ch.tem + 1 = Precisa(ch.tipo) THEN "dentro" ELSE "espera"]
       /\ abertas' = IF ch.tipo = "usuarios" /\ ch.tem = 0 THEN abertas + 1 ELSE abertas
       /\ doSuporte' = (doSuporte \/ ch.tipo = "suporte")

\* (mutant) The client of a transaction is given back only when it commits.
SoNoSucesso(ch, falhou) ==
    CASE ch.tipo = "transacao" /\ falhou /\ ch.tem > 0 -> ch.tem - 1
      [] ch.tipo = "usuarios" -> IF ch.tem = 0 THEN 0 ELSE ch.tem - 1
      [] ch.tipo = "suporte" -> 0
      [] OTHER -> ch.tem

\* What a call gives back when it ends, well or not: runInTransaction releases in its
\* finally; UsersService and SupportsService keep the client of their QueryRunner.
Devolve(ch, falhou) ==
    CASE ch.tipo = "usuarios" -> IF ch.tem = 0 THEN 0 ELSE ch.tem - 1
      [] ch.tipo = "suporte" -> 0
      [] OTHER -> ch.tem

\* (mutant) connectionTimeoutMillis is not set: the pool's default is to wait for ever.
EsperaSemPrazo == FALSE

\* A wait longer than connectionTimeoutMillis is an error.
TemPrazo == TRUE

Larga(c, falhou) ==
    /\ livres' = livres + Devolve(chamada[c], falhou)
    /\ chamada' = [chamada EXCEPT ![c] = SemChamada]
    /\ UNCHANGED <<doSuporte, abertas>>

\* The 2 s are over: the wait fails, and the call with it.
Desiste(c) ==
    /\ TemPrazo
    /\ chamada[c].pc = "espera" /\ livres = 0
    /\ Larga(c, TRUE)

TerminaChamada(c) ==
    /\ chamada[c].pc = "dentro"
    /\ \E falhou \in BOOLEAN : Larga(c, falhou)

Anda(c) == Recebe(c) \/ Desiste(c) \/ TerminaChamada(c)

NextConexoes ==
    \E c \in Chamadas :
        \/ \E tipo \in TiposDeChamada : Chega(c, tipo)
        \/ ChegaComConexao(c)
        \/ Anda(c)

\* Every query ends, and a wait ends by the pool or by its time limit.
SpecConexoes == InitConexoes /\ [][NextConexoes]_varsConexoes
                /\ \A c \in Chamadas : WF_varsConexoes(Anda(c))

-----------------------------------------------------------------------------
\* The typing of the state: a call never has more clients than its kind needs.
TypeOKConexoes ==
    /\ livres \in Nat /\ abertas \in Nat /\ doSuporte \in BOOLEAN
    /\ chamada \in [Chamadas -> [tipo : TiposDeChamada \cup {"nenhum"},
                                 pc : {"fora", "espera", "dentro"}, tem : 0..2]]
    /\ \A c \in Chamadas : /\ chamada[c].tem <= Precisa(chamada[c].tipo)
                           /\ chamada[c].pc = "fora" => chamada[c] = SemChamada
                           /\ chamada[c].pc = "espera" => chamada[c].tem < Precisa(chamada[c].tipo)

PoolOcioso == \A c \in Chamadas : chamada[c] = SemChamada

(***************************************************************************)
(* When nothing runs, the pool lacks exactly the clients that UsersService *)
(* took, one for each transaction it opened, and the one of                *)
(* SupportsService: everyone else gives back what it takes, also when it   *)
(* fails.                                                                  *)
(***************************************************************************)
FaltamSoAsDeUsuarios ==
    PoolOcioso => livres = MaxConexoes - abertas - (IF doSuporte THEN 1 ELSE 0)

(***************************************************************************)
(* Every call ends, although transactions hold a client while they wait    *)
(* for another and may all be waiting at once.                             *)
(***************************************************************************)
TodaChamadaAcaba == \A c \in Chamadas : chamada[c].pc # "fora" ~> chamada[c].pc = "fora"

(***************************************************************************)
(* What the health probe takes for granted ("SELECT 1" within its time     *)
(* tells whether the database answers): a probe that comes when nothing    *)
(* else runs gets a connection.                                            *)
(***************************************************************************)
SondaAchaConexao == PoolOcioso => livres > 0
=============================================================================
