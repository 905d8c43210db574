------------------------------ MODULE MCGuildWar -----------------------------
(* Instances of GuildWar: one pair of guilds that one game serves.            *)
EXTENDS GuildWar, TLC
=============================================================================
