----------------------------- MODULE MCAuthServer -----------------------------
(***************************************************************************)
(* The auth server for TLC: its process (Application) beside its realm list *)
(* (RealmManager).  They share no variable, and RealmManager lets a reload  *)
(* begin and a logon come at any moment, so what is true of each while the  *)
(* other rests is true of both.  The instance therefore lets one of them    *)
(* leave its initial state.                                                 *)
(***************************************************************************)
EXTENDS Application, RealmManager, TLC

CONSTANTS Here, There, g1, g2, Phone, w1, w2, w3

Realm(name, group, platform, version, compatibility) ==
    [name |-> name, group |-> group, platform |-> platform, version |-> version,
     greater |-> "greater" \in compatibility, equal |-> "equal" \in compatibility]

Both == {"greater", "equal"}

\* The first and the third have one group: their halves fit each other.  The second has
\* another group, the fourth does not list the default country.
MCDatabases ==
    {[realms |-> {Realm(w1, g1, Universal, 2, Both)}, regions |-> (Here :> g1)],
     [realms |-> {Realm(w2, g2, Universal, 1, {"equal"}), Realm(w3, g2, Phone, 2, Both)},
      regions |-> (Here :> g2) @@ (There :> g2)],
     [realms |-> {Realm(w1, g1, Universal, 1, Both), Realm(w2, g1, Universal, 2, {"greater"})},
      regions |-> (Here :> g1) @@ (There :> g1)],
     [realms |-> {Realm(w1, g1, Universal, 1, Both)}, regions |-> (There :> g1)]}

MCRow == UNION {d.realms : d \in MCDatabases}

MCClient ==
    [country : {Here}, platform : {Universal}, version : 1..3]
        \cup [country : {There}, platform : {Phone}, version : 1..3]

-----------------------------------------------------------------------------
ServerInit == AppInit /\ RealmInit

FirstList == CHOOSE l \in Databases : Whole(l)
FirstClient == CHOOSE c \in Client : TRUE

\* One of the initial states of the realm list is enough for the process.
RealmRests ==
    /\ \A h \in Handler : seen[h] = {} /\ logon[h].client = FirstClient
    /\ ~loading.busy
    /\ inUse = FirstList

ServerNext ==
    \/ RealmRests /\ AppNext /\ UNCHANGED realmVars
    \/ AppInit /\ RealmNext /\ UNCHANGED allVars

ServerSpec == ServerInit /\ [][ServerNext]_<<allVars, realmVars>> /\ AppFairness
=============================================================================
