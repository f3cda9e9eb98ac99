------------------------------ MODULE Profiles ------------------------------
(***************************************************************************)
(* What is known of an account beside its coins: its aliases (module       *)
(* alias), whether it wants a memo, its referee (authx), and the comments  *)
(* on a token.  An alias is in two stores, one read by alias and one by    *)
(* account, each with its own copy of the default flag.                    *)
(***************************************************************************)
EXTENDS WalletProperties

CONSTANTS Aliases, NoAlias,
          OnlyForCoinEx,      \* aliases for the owner of CET
          AliasFee,           \* the code's depends on the alias's length
          MaxAliasCount,
          RefereeChangeMinInterval,
          ProfileUsers, MemoUsers, Referees, Comments,  \* inputs: who acts, who is chosen
          MaxComments                         \* bound

Reward == [token: Denoms, amount: Nat, target: Users]

ASSUME ProfilesAssumption ==
  /\ OnlyForCoinEx \subseteq Aliases /\ NoAlias \notin Aliases /\ NoAlias \notin Users \X BOOLEAN
  /\ AliasFee \in Nat \ {0} /\ MaxAliasCount \in Nat \ {0}
  /\ RefereeChangeMinInterval \in Nat
  /\ ProfileUsers \subseteq Users /\ MemoUsers \subseteq Users /\ Referees \subseteq Users
  /\ \A c \in Comments : c.token \in Denoms /\ c.donation \in Nat /\ c.reward \in Reward
  /\ MaxComments \in Nat

VARIABLES
  accountOf,   \* [Aliases -> {<<user, isDefault>>} \cup {NoAlias}]
  aliasesOf,   \* triples <<user, alias, isDefault>>
  memoRequired, referee, refereeTime,
  commentCount \* [Denoms -> Nat]

aliasVars == <<accountOf, aliasesOf>>
authxVars == <<memoRequired, referee, refereeTime>>
profileVars == <<aliasVars, authxVars, commentCount>>
allVars == <<walletVars, profileVars>>
-----------------------------------------------------------------------------
(* alias *)

Of(as, u) == {e \in as : e[1] = u}

SetAlias_OneStore(as, u, a, isDefault) == as \cup {<<u, a, isDefault>>}

\* setAlias's second store
SetAlias(as, u, a, isDefault) ==
  {e \in as : ~(e[1] = u /\ e[2] = a)} \cup {<<u, a, isDefault>>}

\* AddAlias: a new default takes the place of the old one
AddAlias(u, a, isDefault) ==
  LET old == {e \in Of(aliasesOf, u) : e[3]}
      isNew == \A e \in Of(aliasesOf, u) : e[2] # a
      replaced == IF isDefault THEN old ELSE {}
      cleared == [b \in Aliases |-> IF \E e \in replaced : e[2] = b THEN <<u, FALSE>>
                                    ELSE accountOf[b]]
  IN  /\ ~IsTokenIssuer(CET, u) => a \notin OnlyForCoinEx
      /\ accountOf[a] \in {NoAlias, <<u, ~isDefault>>}
      /\ isNew => Cardinality(Of(aliasesOf, u)) < MaxAliasCount /\ HasCoins(u, CET, AliasFee)
      /\ accountOf' = [cleared EXCEPT ![a] = <<u, isDefault>>]
      /\ aliasesOf' = SetAlias(IF replaced = {} THEN aliasesOf
                               ELSE SetAlias(aliasesOf, u, (CHOOSE e \in replaced : TRUE)[2], FALSE),
                               u, a, isDefault)
      /\ coins' = IF isNew THEN Debit(coins, u, CET, AliasFee) ELSE coins
      /\ collected' = IF isNew THEN collected + AliasFee ELSE collected
      /\ UNCHANGED <<tokens, listVars, holdVars, authxVars, commentCount>>

RemoveAlias(u, a) ==
  /\ accountOf[a] # NoAlias /\ accountOf[a][1] = u
  /\ accountOf' = [accountOf EXCEPT ![a] = NoAlias]
  /\ aliasesOf' = {e \in aliasesOf : ~(e[1] = u /\ e[2] = a)}
  /\ UNCHANGED <<assetVars, authxVars, commentCount>>
-----------------------------------------------------------------------------
(* authx and comment *)

SetMemoRequired(u, b) ==
  /\ memoRequired' = IF b THEN memoRequired \cup {u} ELSE memoRequired \ {u}
  /\ UNCHANGED <<assetVars, aliasVars, referee, refereeTime, commentCount>>

\* handleMsgSetReferee; the referee may come to want memos later
SetReferee(u, v) ==
  /\ v # u /\ v \in accounts \ memoRequired
  /\ now - refereeTime[u] >= RefereeChangeMinInterval
  /\ referee' = [referee EXCEPT ![u] = v]
  /\ refereeTime' = [refereeTime EXCEPT ![u] = now]
  /\ UNCHANGED <<assetVars, aliasVars, memoRequired, commentCount>>

\* handleMsgCommentToken: a donation, a reward for one referenced comment, a number
CommentToken(u, c) ==
  LET r == c.reward
      donated == Debit(coins, u, CET, c.donation)
  IN  /\ Exists(c.token) /\ commentCount[c.token] < MaxComments
      /\ HasCoins(u, CET, c.donation)
      /\ r.amount > 0 => /\ r.target \in accounts
                         /\ ~IsForbidden(r.token, u) /\ donated[u][r.token] >= r.amount
      /\ coins' = IF r.amount > 0
                  THEN Credit(Debit(donated, u, r.token, r.amount), r.target, r.token, r.amount)
                  ELSE donated
      /\ collected' = collected + c.donation
      /\ commentCount' = [commentCount EXCEPT ![c.token] = @ + 1]
      /\ UNCHANGED <<tokens, listVars, holdVars, aliasVars, authxVars>>

ProfileTransaction ==
  /\ phase = "deliver"
  /\ \E u \in Signers \cap ProfileUsers :
       \/ \E a \in Aliases, b \in BOOLEAN : AddAlias(u, a, b)
       \/ \E a \in Aliases : RemoveAlias(u, a)
       \/ u \in MemoUsers /\ \E b \in BOOLEAN : SetMemoRequired(u, b)
       \/ \E v \in Referees : SetReferee(u, v)
       \/ \E c \in Comments : CommentToken(u, c)
  /\ UNCHANGED <<queue, blockVars>>
-----------------------------------------------------------------------------
ProfilesInit ==
  /\ WalletsInit
  /\ accountOf = [a \in Aliases |-> NoAlias] /\ aliasesOf = {}
  /\ memoRequired = {} /\ referee = [u \in Users |-> 0] /\ refereeTime = [u \in Users |-> 0]
  /\ commentCount = [d \in Denoms |-> 0]

ProfilesNext ==
  \/ WalletsNext /\ UNCHANGED profileVars
  \/ ProfileTransaction

ProfilesSpec == ProfilesInit /\ [][ProfilesNext]_allVars
-----------------------------------------------------------------------------
\* The two alias stores tell the same, and an account has at most one default alias
\* and not too many, whatever is added, removed, and made the default again
\* (alias keeper.go:84-124).
AliasesConsistent ==
  /\ aliasesOf = {<<accountOf[a][1], a, accountOf[a][2]>> : a \in {b \in Aliases : accountOf[b] # NoAlias}}
  /\ \A u \in Users :
       /\ Cardinality({e \in Of(aliasesOf, u) : e[3]}) <= 1
       /\ Cardinality(Of(aliasesOf, u)) <= MaxAliasCount
=============================================================================
