----------------------------- MODULE RealmManager -----------------------------
(***************************************************************************)
(* The realm list of the auth server (authserver/realm/RealmManager.cpp)    *)
(* and the logons that read it (authserver/handlers/LogonHandler.cpp).      *)
(*                                                                          *)
(* The main thread loads the list again on request, with two queries of a   *)
(* database that somebody may be editing, and replaces the list in use      *)
(* under m_loadMutex.  The network threads handle logons meanwhile; a logon *)
(* takes the mutex twice, once to test the version of the client and once   *)
(* to look up its realms.                                                   *)
(*                                                                          *)
(* Abstractions.  The maps of groups, platforms and versions are the set of *)
(* the rows of realm_info they were built from, and the minimum version of  *)
(* a group is what all its rows exceed.  Banned addresses and accounts and  *)
(* the lookup of the country are left out.                                  *)
(***************************************************************************)
EXTENDS Naturals

CONSTANTS
    Handler,        \* the network threads
    Client,         \* [country, platform, version] of the clients that log on
    Row,            \* rows of realm_info: [name, group, platform, version, greater, equal]
    Country,        \* countries region_map may list
    Group,          \* groups region_map may refer to
    Universal,      \* PLATFORM_UNIVERSAL
    Databases,      \* what realmlist.db may hold: [realms, regions]
    DefaultCountry  \* RegionMap.DefaultCountry

List == [realms : SUBSET Row, regions : UNION {[C -> Group] : C \in SUBSET Country}]

(***************************************************************************)
(* What RealmManager::load() demands: the default country is listed, and    *)
(* every country leads to a group that has realms.                          *)
(***************************************************************************)
Whole(l) ==
    /\ DefaultCountry \in DOMAIN l.regions
    /\ \A c \in DOMAIN l.regions : \E r \in l.realms : r.group = l.regions[c]

\* A version is never 0, which load() takes for a minimum that has not been set.
ASSUME VersionAssumption ==
    /\ \A r \in Row : r.version \in Nat \ {0}
    /\ \A c \in Client : c.version \in Nat

\* The server starts only if the list can be loaded.
ASSUME DatabaseAssumption == Databases \subseteq List /\ \E d \in Databases : Whole(d)

VARIABLES
    inUse,      \* m_realmGroups and m_regionMap
    loading,    \* what load() has read, with its two local maps
    logon,      \* for each network thread: the logon it handles
    seen        \* the lists in use since that logon began (history)

realmVars == <<inUse, loading, logon, seen>>

\* An empty answer is ERROR_LOW_CLIENT_VERSION.
Logon == [step : {"none", "allowed", "answered"}, client : Client, answer : SUBSET Row]

RealmTypeOK ==
    /\ inUse \in List
    /\ loading \in [busy : BOOLEAN, realms : SUBSET Row]
    /\ logon \in [Handler -> Logon]
    /\ seen \in [Handler -> SUBSET List]

RealmInit ==
    /\ inUse \in {d \in Databases : Whole(d)}
    /\ loading = [busy |-> FALSE, realms |-> {}]
    /\ \E c \in Client : logon = [h \in Handler |-> [step |-> "none", client |-> c, answer |-> {}]]
    /\ seen = [h \in Handler |-> {}]

-----------------------------------------------------------------------------
(***************************************************************************)
(* The two lookups.                                                         *)
(***************************************************************************)

\* The rows of the group the country, or else the default country, leads to.
GroupOf(l, country) ==
    LET c == IF country \in DOMAIN l.regions THEN country ELSE DefaultCountry
    IN  {r \in l.realms : c \in DOMAIN l.regions /\ r.group = l.regions[c]}

\* version >= getMinRequiredVersion(), which is 0 where there is no group.
MeetsMinimum(l, client) ==
    LET group == GroupOf(l, client.country)
    IN  group = {} \/ \E r \in group : client.version >= r.version

\* getRealmList(): of the realms of the platform, those of the highest version up to the
\* client's, as far as they are compatible with it.
RealmList(l, client) ==
    LET on(p) == {r \in GroupOf(l, client.country) : r.platform = p}
        realms == IF on(client.platform) # {} THEN on(client.platform) ELSE on(Universal)
        known == {r \in realms : client.version >= r.version}
        best == {r \in known : \A q \in known : r.version >= q.version}
    IN  {r \in best : IF client.version = r.version THEN r.equal ELSE r.greater}

-----------------------------------------------------------------------------
(***************************************************************************)
(* The main thread: RealmManager::load().                                   *)
(***************************************************************************)

\* Mutant: the rows are read into the member instead of a local map.
MutQueryRealms(d) ==
    /\ ~loading.busy
    /\ loading' = [busy |-> TRUE, realms |-> d.realms]
    /\ inUse' = [inUse EXCEPT !.realms = d.realms]
    /\ UNCHANGED <<logon, seen>>

\* The first query; if it fails, load() returns.
QueryRealms(d) ==
    /\ ~loading.busy
    /\ loading' = [busy |-> TRUE, realms |-> d.realms]
    /\ UNCHANGED <<inUse, logon, seen>>

\* The second query may already meet another database, or fail.  The list is replaced
\* under the mutex if its parts fit.
QueryRegions(d) ==
    LET l == [realms |-> loading.realms, regions |-> d.regions] IN
    /\ loading.busy
    /\ loading' = [busy |-> FALSE, realms |-> {}]
    /\ \/ /\ Whole(l)
          /\ inUse' = l
          /\ seen' = [h \in Handler |-> IF logon[h].step = "allowed" THEN seen[h] \cup {l}
                                        ELSE seen[h]]
       \/ UNCHANGED <<inUse, seen>>
    /\ UNCHANGED logon

-----------------------------------------------------------------------------
(***************************************************************************)
(* A network thread: handleLogonChallenge().                                *)
(***************************************************************************)

\* The test of the version, under the mutex.
TestVersion(h, client) ==
    /\ logon[h].step # "allowed"
    /\ logon' = [logon EXCEPT ![h] =
                    [step |-> IF MeetsMinimum(inUse, client) THEN "allowed" ELSE "answered",
                     client |-> client, answer |-> {}]]
    /\ seen' = [seen EXCEPT ![h] = {inUse}]
    /\ UNCHANGED <<inUse, loading>>

\* The lookup, under the mutex again, and the answer.
Answer(h) ==
    /\ logon[h].step = "allowed"
    /\ logon' = [logon EXCEPT ![h].step = "answered",
                              ![h].answer = RealmList(inUse, logon[h].client)]
    /\ UNCHANGED <<inUse, loading, seen>>

RealmNext ==
    \/ \E d \in Databases : QueryRealms(d) \/ QueryRegions(d)
    \/ \E h \in Handler : (\E c \in Client : TestVersion(h, c)) \/ Answer(h)

RealmSpec == RealmInit /\ [][RealmNext]_realmVars

-----------------------------------------------------------------------------
(***************************************************************************)
(* The answer to a logon is what one whole realm list gives that was in use *)
(* while it was handled, although the test and the lookup of                *)
(* handleLogonChallenge() may read two different lists and load() may read  *)
(* halves of two databases: no client is told that its version is too low,  *)
(* or offered a realm, unless some such list says so.                       *)
(***************************************************************************)
LogonExplained ==
    \A h \in Handler : logon[h].step = "answered" =>
        \E l \in seen[h] : Whole(l) /\ logon[h].answer = RealmList(l, logon[h].client)
=============================================================================
