----------------------------- MODULE Migrations -----------------------------
(***************************************************************************)
(* The chain of Alembic revisions of src/alembic/versions and the runs of  *)
(* `alembic upgrade` and `alembic downgrade -1` that walk it against a     *)
(* PostgreSQL database the applications go on using.                       *)
(*                                                                         *)
(* A revision is two lists of statements.  A statement says what it needs  *)
(* to find in the schema, what must not be there yet, which rows make it   *)
(* fail, and what it adds, drops, puts and takes.  The schema is a set of  *)
(* objects: tables, the columns, indexes and foreign keys that some        *)
(* revision adds or drops by name, the enum types, and the columns that    *)
(* are `loose` (nullable, or wider than they once were).  Columns and      *)
(* indexes made with their table and never touched again are left out.     *)
(*                                                                         *)
(* Of the rows only the kinds that some revision reads, writes or chokes   *)
(* on are kept.                                                            *)
(*                                                                         *)
(* env.py opens one transaction for a whole run and PostgreSQL's DDL is    *)
(* transactional: a run that fails or dies leaves nothing.  The steps of a *)
(* run still interleave with the writes of the application: a statement    *)
(* sees the rows committed before it, and locks what it alters.  Of two    *)
(* runs at once only one can commit (both update the same version row),    *)
(* so one run in flight is enough.                                         *)
(***************************************************************************)
EXTENDS Integers, Sequences, FiniteSets, SequencesExt

CONSTANTS Releases,    \* the heads that were deployed: where an upgrade may stop
          MaxWrites    \* bound: the rows the application writes in a behaviour

ASSUME MigrationsAssumption == Releases \subseteq Nat /\ MaxWrites \in Nat

VARIABLES version,    \* alembic_version: how many revisions of the chain are applied
          objects,    \* the committed schema
          rows,       \* the kinds of rows there are
          run,        \* the run in flight, or NoRun
          writes      \* counted against MaxWrites

vars == <<version, objects, rows, run, writes>>

-----------------------------------------------------------------------------
(* Statements *)

Nothing == [needs |-> {}, lacks |-> {}, adds |-> {}, drops |-> {}, types |-> {},
            refused |-> {}, optional |-> FALSE, given |-> {}, puts |-> {}, takes |-> {}]

\* an object that goes when `o` goes: all of a table, the foreign key of a column
GoesWith(x, o) == \/ x = o
                  \/ o[1] = "table" /\ x[1] # "type" /\ x[2] = o[2]
                  \/ o[1] = "column" /\ x[1] = "fk" /\ x[2] = o[2] /\ x[3] = o[3]

Add(o, needs) == [Nothing EXCEPT !.needs = needs, !.lacks = {o}, !.adds = {o}]
Drop(o)       == [Nothing EXCEPT !.needs = {o}, !.drops = {o}]

TableOf(t, refs, types) ==
    [Add(<<"table", t>>, {<<"table", r>> : r \in refs}) EXCEPT
        !.adds = {<<"table", t>>} \cup {<<"fk", t, "", r>> : r \in refs},
        !.types = types]
Table(t, refs)      == TableOf(t, refs, {})
Column(t, c)        == Add(<<"column", t, c>>, {<<"table", t>>})
Index(t, i)         == Add(<<"index", t, i>>, {<<"table", t>>})
Fk(t, c, target)    == Add(<<"fk", t, c, target>>, {<<"table", t>>, <<"table", target>>})
Loosen(t, c)        == Add(<<"loose", t, c>>, {<<"table", t>>})
Type(ty)            == Add(<<"type", ty>>, {})

DropTable(t)         == Drop(<<"table", t>>)
DropColumn(t, c)     == Drop(<<"column", t, c>>)
DropIndex(t, i)      == Drop(<<"index", t, i>>)
DropFk(t, c, target) == Drop(<<"fk", t, c, target>>)
Tighten(t, c)        == Drop(<<"loose", t, c>>)
DropType(ty)         == [Nothing EXCEPT !.drops = {<<"type", ty>>}]  \* IF EXISTS

IfMissing(s)    == [s EXCEPT !.optional = TRUE]
RefusedBy(ks)   == [Nothing EXCEPT !.refused = ks]
PutRow(given, k)   == [Nothing EXCEPT !.given = given, !.puts = {k}]
Take(ks)        == [Nothing EXCEPT !.takes = ks]

\* an upgrade is a sequence of blocks between which rows of others are let in
Revision(up, down)              == [up |-> <<up>>, down |-> <<down>>]
RevisionInTwo(copy, drop, down) == [up |-> <<copy, drop>>, down |-> <<down>>]

-----------------------------------------------------------------------------
(* The revisions, in the order of the chain *)

Rev_20260226_0001 == Revision(
    <<Table("users", {}), Table("apps", {}), Table("roles", {"apps"}),
      Table("permissions", {"apps"}), Table("role_permissions", {"permissions", "roles"}),
      Table("user_app_roles", {"apps", "roles", "users"}), Table("refresh_tokens", {"users"})>>,
    <<DropTable("refresh_tokens"), DropTable("user_app_roles"), DropTable("role_permissions"),
      DropTable("permissions"), DropTable("roles"), DropTable("apps"), DropTable("users")>>)

Rev_20260226_0002 == Revision(
    <<Table("projects", {}), Column("projects", "language"), Column("projects", "code"),
      Index("projects", "ix_projects_code"), Table("organizations", {}),
      Table("organization_members", {"organizations", "users"}),
      Table("project_user_access", {"projects", "users"}),
      Table("project_organization_access", {"organizations", "projects"})>>,
    <<DropTable("project_organization_access"), DropTable("project_user_access"),
      DropTable("organization_members"), DropTable("organizations"), DropTable("projects")>>)

Rev_20260226_0003 == Revision(
    <<Table("languages", {}), Column("projects", "language_id"), RefusedBy({"homonyms"}),
      Fk("projects", "language_id", "languages"), Index("projects", "ix_projects_language_id"),
      DropIndex("projects", "ix_projects_code"), DropColumn("projects", "code"),
      DropColumn("projects", "language")>>,
    <<Column("projects", "language"), Column("projects", "code"),
      Index("projects", "ix_projects_code"), DropFk("projects", "language_id", "languages"),
      DropIndex("projects", "ix_projects_language_id"), DropColumn("projects", "language_id"),
      DropTable("languages")>>)

Rev_20260226_0004 == Revision(
    <<Column("projects", "latitude"), Column("projects", "longitude"),
      Column("projects", "location_display_name")>>,
    <<DropColumn("projects", "location_display_name"), DropColumn("projects", "longitude"),
      DropColumn("projects", "latitude")>>)

Rev_20260227_0005 == Revision(
    <<Table("phases", {}), Column("phases", "status"),
      Table("project_phases", {"phases", "projects"}), Table("phase_dependencies", {"phases"})>>,
    <<DropTable("phase_dependencies"), DropTable("project_phases"), DropTable("phases")>>)

Rev_e8d6b0446bcf == Revision(
    <<TableOf("bible_books", {}, {"testament_enum"}), Table("pericopes", {"bible_books"}),
      TableOf("meaning_maps", {"pericopes", "users"}, {"meaning_map_status_enum"}),
      Column("meaning_maps", "project_id"), Fk("meaning_maps", "project_id", "projects"),
      Index("meaning_maps", "ix_meaning_maps_project_id"),
      Table("meaning_map_feedback", {"meaning_maps", "users"})>>,
    <<DropTable("meaning_map_feedback"), DropIndex("meaning_maps", "ix_meaning_maps_project_id"),
      DropTable("meaning_maps"), DropTable("pericopes"), DropTable("bible_books")>>)

Rev_24dc98b94ae1 == Revision(
    <<DropIndex("meaning_maps", "ix_meaning_maps_project_id"),
      DropFk("meaning_maps", "project_id", "projects"), DropColumn("meaning_maps", "project_id")>>,
    <<RefusedBy({"map"}), Column("meaning_maps", "project_id"),
      Fk("meaning_maps", "project_id", "projects"),
      Index("meaning_maps", "ix_meaning_maps_project_id")>>)

Rev_20260303_0001 == Revision(
    <<Index("pericopes", "ix_pericopes_book_chapter"),
      Index("meaning_maps", "ix_meaning_maps_status")>>,
    <<DropIndex("meaning_maps", "ix_meaning_maps_status"),
      DropIndex("pericopes", "ix_pericopes_book_chapter")>>)

Rev_20260303_0002 == Revision(
    <<Table("access_requests", {"apps", "users"})>>,
    <<DropTable("access_requests")>>)

Rev_20260304_0001 == Revision(
    <<Table("notifications", {"apps", "users"}),
      Table("notification_meaning_map_details", {"meaning_maps", "notifications"})>>,
    <<DropTable("notification_meaning_map_details"), DropTable("notifications")>>)

Rev_20260305_0001 == Revision(
    <<IfMissing(Type("bcd_status_enum")), Table("book_context_documents", {"bible_books", "users"}),
      Table("bcd_approvals", {"book_context_documents", "users"}),
      Table("bcd_section_feedback", {"book_context_documents", "users"}),
      Table("bcd_generation_logs", {"book_context_documents"}),
      Column("meaning_maps", "bcd_version_at_creation")>>,
    <<DropColumn("meaning_maps", "bcd_version_at_creation"), DropTable("bcd_generation_logs"),
      DropTable("bcd_section_feedback"), DropTable("bcd_approvals"),
      DropTable("book_context_documents"), DropType("bcd_status_enum")>>)

Rev_20260305_0002 == Revision(
    <<Column("book_context_documents", "is_active"),
      Index("book_context_documents", "ix_bcd_book_active")>>,
    <<DropIndex("book_context_documents", "ix_bcd_book_active"),
      DropColumn("book_context_documents", "is_active")>>)

Rev_20260306_0001 == Revision(
    <<Column("book_context_documents", "regeneration_feedback")>>,
    <<DropColumn("book_context_documents", "regeneration_feedback")>>)

Rev_20260306_0002 == Revision(
    <<Column("bcd_approvals", "roles_at_approval")>>,
    <<DropColumn("bcd_approvals", "roles_at_approval")>>)

Rev_20260306_0003 == Revision(
    <<PutRow({"mm_app"}, "specialist")>>,
    <<Take({"specialist"})>>)

Rev_20260307_0001 == Revision(
    <<Column("apps", "description"), Column("apps", "icon_url"), Column("apps", "app_url"),
      Column("apps", "ios_url"), Column("apps", "android_url"), Column("apps", "platform")>>,
    <<DropColumn("apps", "platform"), DropColumn("apps", "android_url"),
      DropColumn("apps", "ios_url"), DropColumn("apps", "app_url"), DropColumn("apps", "icon_url"),
      DropColumn("apps", "description")>>)

Rev_20260308_0001 == Revision(
    <<Column("users", "avatar_url")>>,
    <<DropColumn("users", "avatar_url")>>)

Rev_20260308_0002 == Revision(
    <<Column("organizations", "description"), Column("organizations", "logo_url"),
      Column("organizations", "manager_id"), Fk("organizations", "manager_id", "users")>>,
    <<DropColumn("organizations", "manager_id"), DropColumn("organizations", "logo_url"),
      DropColumn("organizations", "description")>>)

Rev_20260309_0001 == Revision(
    <<Column("project_phases", "status"), DropColumn("phases", "status")>>,
    <<Column("phases", "status"), DropColumn("project_phases", "status")>>)

Rev_20260309_0002 == Revision(
    <<PutRow({"mm_app"}, "analyst")>>,
    <<Take({"analyst", "holder"})>>)

\* the taxonomy of the first genres
OcGenres == PutRow({}, "genres")
Rev_20260309_0003 == Revision(
    <<IfMissing(Table("oc_genres", {})), IfMissing(Table("oc_subcategories", {"oc_genres"})),
      IfMissing(Table("oc_recordings", {"oc_genres", "oc_subcategories", "projects"})),
      Fk("oc_recordings", "user_id", "users"),
      IfMissing(Table("oc_project_users", {"projects", "users"})),
      IfMissing(Table("oc_project_invites", {"projects", "users"})), OcGenres>>,
    <<DropTable("oc_project_invites"), DropTable("oc_project_users"), DropTable("oc_recordings"),
      DropTable("oc_subcategories"), DropTable("oc_genres")>>)

\* a mutant: the invitations are dropped without being copied
InvitesNotCopied == RevisionInTwo(
    <<Column("project_user_access", "role"), Column("project_user_access", "invited_by"),
      Fk("project_user_access", "invited_by", "users"),
      Table("project_invites", {"projects", "users"}),
      PutRow({"oc_member"}, "member")>>,
    <<DropTable("oc_project_invites"), DropTable("oc_project_users")>>,
    <<Table("oc_project_users", {"projects", "users"}),
      Table("oc_project_invites", {"projects", "users"}),
      DropTable("project_invites"), Take({"member"}),
      DropColumn("project_user_access", "invited_by"), DropColumn("project_user_access", "role")>>)

Rev_20260312_0001 == RevisionInTwo(
    <<Column("project_user_access", "role"), Column("project_user_access", "invited_by"),
      Fk("project_user_access", "invited_by", "users"),
      Table("project_invites", {"projects", "users"}),
      PutRow({"oc_member"}, "member"), PutRow({"oc_invite"}, "invite")>>,
    <<DropTable("oc_project_invites"), DropTable("oc_project_users")>>,
    <<Table("oc_project_users", {"projects", "users"}),
      Table("oc_project_invites", {"projects", "users"}),
      DropTable("project_invites"), Take({"member"}),
      DropColumn("project_user_access", "invited_by"), DropColumn("project_user_access", "role")>>)

Rev_20260316_0001 == Revision(
    <<Column("oc_recordings", "upload_error"), Column("oc_recordings", "cleaning_error"),
      Column("oc_recordings", "splitting_status"), Column("oc_recordings", "split_from_id")>>,
    <<DropColumn("oc_recordings", "split_from_id"), DropColumn("oc_recordings", "splitting_status"),
      DropColumn("oc_recordings", "cleaning_error"), DropColumn("oc_recordings", "upload_error")>>)

\* a mutant: a column of the models that no revision adds
LocaleOfUsersMissing == Revision(
    <<Column("meaning_maps", "translations"),
      Column("book_context_documents", "translations")>>,
    <<DropColumn("book_context_documents", "translations"),
      DropColumn("meaning_maps", "translations")>>)

Rev_20260317_0001 == Revision(
    <<Column("users", "locale"), Column("meaning_maps", "translations"),
      Column("book_context_documents", "translations")>>,
    <<DropColumn("book_context_documents", "translations"),
      DropColumn("meaning_maps", "translations"), DropColumn("users", "locale")>>)

\* the taxonomy that replaces it
V2Genres == PutRow({}, "v2_genres")
Rev_20260318_0001 == Revision(
    <<IfMissing(Column("oc_recordings", "register_id")), PutRow({}, "retired"), V2Genres>>,
    <<Take({"v2_genres", "v2_recording"}), Take({"retired"}),
      DropColumn("oc_recordings", "register_id")>>)

Rev_20260327_0001 == Revision(
    <<Column("book_context_documents", "locked_by"),
      Fk("book_context_documents", "locked_by", "users"),
      Column("book_context_documents", "locked_at")>>,
    <<DropColumn("book_context_documents", "locked_at"),
      DropColumn("book_context_documents", "locked_by")>>)

Rev_20260327_0002 == Revision(
    <<Column("bcd_approvals", "reviewer_locale")>>,
    <<DropColumn("bcd_approvals", "reviewer_locale")>>)

Rev_20260327_0003 == Revision(
    <<Table("password_reset_tokens", {"users"})>>,
    <<DropTable("password_reset_tokens")>>)

Rev_20260401_0001 == Revision(
    <<DropFk("oc_recordings", "user_id", "users"), Loosen("oc_recordings", "user_id"),
      Fk("oc_recordings", "user_id", "users")>>,
    <<DropFk("oc_recordings", "user_id", "users"),
      RefusedBy({"orphan"}), Tighten("oc_recordings", "user_id"),
      Fk("oc_recordings", "user_id", "users")>>)

Rev_20260413_0001 == Revision(
    <<Column("oc_recordings", "description")>>,
    <<DropColumn("oc_recordings", "description")>>)

Rev_20260414_0001 == Revision(
    <<Table("oc_storytellers", {"projects", "users"}), Column("oc_recordings", "storyteller_id"),
      Fk("oc_recordings", "storyteller_id", "oc_storytellers"),
      Index("oc_recordings", "ix_oc_recordings_storyteller_id")>>,
    <<DropIndex("oc_recordings", "ix_oc_recordings_storyteller_id"),
      DropFk("oc_recordings", "storyteller_id", "oc_storytellers"),
      DropColumn("oc_recordings", "storyteller_id"), DropTable("oc_storytellers")>>)

Rev_20260415_0001 == Revision(
    <<PutRow({}, "unclassified")>>,
    <<Take({"unclassified", "unclassified_recording"})>>)

Rev_20260420_0001 == Revision(
    <<Column("oc_recordings", "secondary_genre_id"),
      Column("oc_recordings", "secondary_subcategory_id"),
      Column("oc_recordings", "secondary_register_id"),
      Fk("oc_recordings", "secondary_genre_id", "oc_genres"),
      Fk("oc_recordings", "secondary_subcategory_id", "oc_subcategories")>>,
    <<DropFk("oc_recordings", "secondary_subcategory_id", "oc_subcategories"),
      DropFk("oc_recordings", "secondary_genre_id", "oc_genres"),
      DropColumn("oc_recordings", "secondary_register_id"),
      DropColumn("oc_recordings", "secondary_subcategory_id"),
      DropColumn("oc_recordings", "secondary_genre_id")>>)

Rev_20260420_0002 == Revision(
    <<Column("oc_recordings", "split_index"), Column("oc_recordings", "split_segment_count"),
      Index("oc_recordings", "ix_oc_recordings_split_from_id")>>,
    <<DropIndex("oc_recordings", "ix_oc_recordings_split_from_id"),
      DropColumn("oc_recordings", "split_segment_count"),
      DropColumn("oc_recordings", "split_index")>>)

Rev_20260420_0003 == Revision(
    <<Column("oc_storytellers", "created_by_user_id"),
      Fk("oc_storytellers", "created_by_user_id", "users"),
      Index("oc_storytellers", "ix_oc_storytellers_project_creator")>>,
    <<DropIndex("oc_storytellers", "ix_oc_storytellers_project_creator"),
      DropFk("oc_storytellers", "created_by_user_id", "users"),
      DropColumn("oc_storytellers", "created_by_user_id")>>)

\* a mutant: a table is created before the one it refers to
MessagesBeforeChats == Revision(
    <<TableOf("th_chat_messages", {"th_chats"}, {"th_chat_message_role_enum", "th_agent_id_enum"}),
      TableOf("th_chats", {"users"}, {"th_agent_id_enum"}),
      TableOf("th_agent_prompts", {"users"}, {"th_agent_id_enum"}),
      PutRow({}, "th_app")>>,
    <<Take({"th_app"}), DropTable("th_agent_prompts"), DropTable("th_chat_messages"),
      DropTable("th_chats"), DropType("th_agent_id_enum"), DropType("th_chat_message_role_enum")>>)

Rev_20260516_0001 == Revision(
    <<TableOf("th_chats", {"users"}, {"th_agent_id_enum"}),
      TableOf("th_chat_messages", {"th_chats"}, {"th_chat_message_role_enum", "th_agent_id_enum"}),
      TableOf("th_agent_prompts", {"users"}, {"th_agent_id_enum"}), PutRow({}, "th_app")>>,
    <<Take({"th_app"}), DropTable("th_agent_prompts"), DropTable("th_chat_messages"),
      DropTable("th_chats"), DropType("th_agent_id_enum"), DropType("th_chat_message_role_enum")>>)

Rev_20260517_0001 == Revision(
    <<Column("apps", "auto_approve")>>,
    <<DropColumn("apps", "auto_approve")>>)

\* a mutant: the downgrade drops a table another one refers to
InterviewsBeforeReports == Revision(
    <<TableOf("ph_interviews", {}, {"ph_language_enum", "ph_interview_status_enum"}),
      Table("ph_reports", {"ph_interviews"}), PutRow({}, "ph_app"), PutRow({"bootstrap"}, "ph_admin")>>,
    <<Take({"ph_app", "ph_admin"}), DropTable("ph_interviews"), DropTable("ph_reports"),
      DropType("ph_interview_status_enum"), DropType("ph_language_enum")>>)

Rev_20260518_0001 == Revision(
    <<TableOf("ph_interviews", {}, {"ph_language_enum", "ph_interview_status_enum"}),
      Table("ph_reports", {"ph_interviews"}), PutRow({}, "ph_app"), PutRow({"bootstrap"}, "ph_admin")>>,
    <<Take({"ph_app", "ph_admin"}), DropTable("ph_reports"), DropTable("ph_interviews"),
      DropType("ph_interview_status_enum"), DropType("ph_language_enum")>>)

Rev_20260518_0002 == Revision(
    <<PutRow({"bootstrap", "ph_app"}, "ph_admin")>>,
    <<>>)

Rev_20260519_0001 == Revision(
    <<Table("ph_agent_prompts", {"users"})>>,
    <<DropTable("ph_agent_prompts")>>)

AnnotationTables ==
    <<Table("as_speakers", {"languages"}), Table("as_tier_a_words", {"languages"}),
      Table("as_tier_a_recordings", {"as_speakers", "as_tier_a_words"}),
      Table("as_tier_b_pairs", {"as_speakers", "languages"}),
      Table("as_tier_b_recordings", {"as_tier_b_pairs"}), Table("as_tier_c_clips", {"languages"}),
      Table("as_tier_c_sort_assignments", {"as_tier_c_clips"}), Table("as_exports", {"languages"}),
      Table("as_analysis_results", {"languages"})>>
AnnotationApp == <<PutRow({}, "as_app")>>
AnnotationDowngrade ==
    <<Take({"as_app", "as_user"}), DropTable("as_analysis_results"), DropTable("as_exports"),
      DropTable("as_tier_c_sort_assignments"), DropTable("as_tier_c_clips"),
      DropTable("as_tier_b_recordings"), DropTable("as_tier_b_pairs"),
      DropTable("as_tier_a_recordings"), DropTable("as_tier_a_words"), DropTable("as_speakers")>>
Rev_20260603_0001 == Revision(AnnotationTables \o AnnotationApp, AnnotationDowngrade)

Rev_20260608_0001 == Revision(
    <<Table("as_language_members", {"languages", "users"}),
      Index("as_tier_a_recordings", "ix_as_tier_a_recordings_word_status"),
      Index("as_tier_b_recordings", "ix_as_tier_b_recordings_pair_status"),
      Index("as_tier_c_clips", "ix_as_tier_c_clips_language_status"),
      PutRow({"as_app", "as_user", "as_data"}, "seeded")>>,
    <<DropIndex("as_tier_c_clips", "ix_as_tier_c_clips_language_status"),
      DropIndex("as_tier_b_recordings", "ix_as_tier_b_recordings_pair_status"),
      DropIndex("as_tier_a_recordings", "ix_as_tier_a_recordings_word_status"),
      DropTable("as_language_members")>>)

Rev_20260609_0001 == Revision(
    <<Take({"seeded", "abandoned"})>>,
    <<>>)

Rev_20260709_0001 == Revision(
    <<Table("oc_acousteme_artifacts", {})>>,
    <<DropTable("oc_acousteme_artifacts")>>)

Rev_20260713_0001 == Revision(
    <<Loosen("oc_acousteme_artifacts", "audio_id")>>,
    <<RefusedBy({"long_id"}), Tighten("oc_acousteme_artifacts", "audio_id")>>)

\* a mutant: the downgrade forgets an enum, as e8d6b0446bcf does
StepTypeForgotten == Revision(
    <<TableOf("sn_sessions", {"projects", "users"}, {"sn_granularity_level_enum", "sn_session_status_enum", "sn_session_step_enum"}),
      Loosen("sn_sessions", "audio_ref"), Table("sn_session_state", {"sn_sessions"})>>,
    <<DropTable("sn_session_state"), DropTable("sn_sessions"), 
      DropType("sn_session_status_enum"), DropType("sn_granularity_level_enum")>>)

Rev_20260714_0001 == Revision(
    <<TableOf("sn_sessions", {"projects", "users"}, {"sn_granularity_level_enum", "sn_session_status_enum", "sn_session_step_enum"}),
      Loosen("sn_sessions", "audio_ref"), Table("sn_session_state", {"sn_sessions"})>>,
    <<DropTable("sn_session_state"), DropTable("sn_sessions"), DropType("sn_session_step_enum"),
      DropType("sn_session_status_enum"), DropType("sn_granularity_level_enum")>>)

Rev_20260714_0002 == Revision(
    <<Table("sn_audio_refs", {"projects"})>>,
    <<DropTable("sn_audio_refs")>>)

Rev_20260714_0003 == Revision(
    <<TableOf("sn_artifacts", {"sn_sessions"}, {"sn_artifact_kind_enum"})>>,
    <<DropTable("sn_artifacts"), DropType("sn_artifact_kind_enum")>>)

Rev_20260715_0001 == Revision(
    <<Table("sn_voice_answers", {"sn_sessions"})>>,
    <<DropTable("sn_voice_answers")>>)

Rev_20260717_0001 == Revision(
    <<Column("sn_sessions", "locked_by"), Column("sn_sessions", "lock_expires_at"),
      Fk("sn_sessions", "locked_by", "users")>>,
    <<DropFk("sn_sessions", "locked_by", "users"), DropColumn("sn_sessions", "lock_expires_at"),
      DropColumn("sn_sessions", "locked_by")>>)

Rev_20260717_0002 == Revision(
    <<TableOf("sn_consents", {"sn_sessions", "users"}, {"sn_consent_type_enum"})>>,
    <<DropTable("sn_consents"), DropType("sn_consent_type_enum")>>)

Rev_20260717_0003 == Revision(
    <<TableOf("sn_audit_events", {"projects", "sn_sessions", "users"}, {"sn_audit_event_enum"})>>,
    <<DropTable("sn_audit_events"), DropType("sn_audit_event_enum")>>)

Rev_20260723_0001 == Revision(
    <<TableOf("sn_answer_transcripts", {"sn_voice_answers"}, {"sn_transcript_status_enum"})>>,
    <<DropTable("sn_answer_transcripts"), DropType("sn_transcript_status_enum")>>)

Rev_20260724_0001 == Revision(
    <<Table("sn_project_settings", {"projects", "users"})>>,
    <<DropTable("sn_project_settings")>>)

Rev_20260724_0002 == Revision(
    <<RefusedBy({"stray"}), Tighten("sn_sessions", "audio_ref"),
      Index("sn_sessions", "ix_sn_sessions_audio_ref"),
      Fk("sn_sessions", "audio_ref", "sn_audio_refs")>>,
    <<DropFk("sn_sessions", "audio_ref", "sn_audio_refs"),
      DropIndex("sn_sessions", "ix_sn_sessions_audio_ref"), Loosen("sn_sessions", "audio_ref")>>)

Rev_20260601_0001 == Revision(
    <<RefusedBy({"twins"}), Index("oc_recordings", "uq_oc_recordings_project_title")>>,
    <<DropIndex("oc_recordings", "uq_oc_recordings_project_title")>>)

Rev_20260731_0001 == Revision(
    <<Column("oc_recordings", "review_flags")>>,
    <<DropColumn("oc_recordings", "review_flags")>>)

Chain == <<Rev_20260226_0001, Rev_20260226_0002, Rev_20260226_0003, Rev_20260226_0004,
           Rev_20260227_0005, Rev_e8d6b0446bcf, Rev_24dc98b94ae1, Rev_20260303_0001,
           Rev_20260303_0002, Rev_20260304_0001, Rev_20260305_0001, Rev_20260305_0002,
           Rev_20260306_0001, Rev_20260306_0002, Rev_20260306_0003, Rev_20260307_0001,
           Rev_20260308_0001, Rev_20260308_0002, Rev_20260309_0001, Rev_20260309_0002,
           Rev_20260309_0003, Rev_20260312_0001, Rev_20260316_0001, Rev_20260317_0001,
           Rev_20260318_0001, Rev_20260327_0001, Rev_20260327_0002, Rev_20260327_0003,
           Rev_20260401_0001, Rev_20260413_0001, Rev_20260414_0001, Rev_20260415_0001,
           Rev_20260420_0001, Rev_20260420_0002, Rev_20260420_0003, Rev_20260516_0001,
           Rev_20260517_0001, Rev_20260518_0001, Rev_20260518_0002, Rev_20260519_0001,
           Rev_20260603_0001, Rev_20260608_0001, Rev_20260609_0001, Rev_20260709_0001,
           Rev_20260713_0001, Rev_20260714_0001, Rev_20260714_0002, Rev_20260714_0003,
           Rev_20260715_0001, Rev_20260717_0001, Rev_20260717_0002, Rev_20260717_0003,
           Rev_20260723_0001, Rev_20260724_0001, Rev_20260724_0002, Rev_20260601_0001,
           Rev_20260731_0001>>
Newest == Len(Chain)

-----------------------------------------------------------------------------
(* What a block of statements does to a database *)

\* the rows of a table, which go with it
Home == [homonyms |-> "projects", map |-> "meaning_maps", mm_app |-> "apps",
         specialist |-> "roles", analyst |-> "roles", holder |-> "user_app_roles",
         genres |-> "oc_genres", retired |-> "oc_genres", v2_genres |-> "oc_genres",
         unclassified |-> "oc_genres", v2_recording |-> "oc_recordings",
         unclassified_recording |-> "oc_recordings", orphan |-> "oc_recordings",
         twins |-> "oc_recordings", oc_member |-> "oc_project_users",
         oc_invite |-> "oc_project_invites", member |-> "project_user_access",
         invite |-> "project_invites", bootstrap |-> "users", th_app |-> "apps",
         ph_app |-> "apps", ph_admin |-> "user_app_roles", as_app |-> "apps",
         as_user |-> "user_app_roles", as_data |-> "as_tier_a_words",
         seeded |-> "as_language_members", invited |-> "as_language_members",
         abandoned |-> "as_language_members", long_id |-> "oc_acousteme_artifacts",
         stray |-> "sn_sessions"]
Kinds == DOMAIN Home

\* a table another one still refers to cannot be dropped
StillReferred(t, objs) == \E o \in objs : o[1] = "fk" /\ o[4] = t /\ o[2] # t

\* SQLAlchemy creates the enums of a table it creates, once in a run, and does
\* not look whether they are there
Clashes(s, db) == s.lacks \cap db.objects # {}
Fails(s, db) ==
    \/ ~(s.needs \subseteq db.objects)
    \/ Clashes(s, db) /\ ~s.optional
    \/ \E ty \in s.types \ db.made : <<"type", ty>> \in db.objects
    \/ s.refused \cap db.rows # {}
    \/ \E o \in s.drops : o[1] = "table" /\ StillReferred(o[2], db.objects)

Exec(db, s) ==
    IF ~db.ok \/ Fails(s, db) THEN [db EXCEPT !.ok = FALSE]
    ELSE IF Clashes(s, db) THEN db
    ELSE LET goneTables == {o[2] : o \in {d \in s.drops : d[1] = "table"}}
             left == {x \in db.objects : \A o \in s.drops : ~GoesWith(x, o)}
         IN  [db EXCEPT
                !.objects = left \cup s.adds \cup {<<"type", ty>> : ty \in s.types},
                !.made = @ \cup s.types,
                !.rows = {k \in (@ \ s.takes) : Home[k] \notin goneTables}
                         \cup (IF s.given \subseteq @ THEN s.puts ELSE {}),
                !.altered = @ \cup {o[2] : o \in {d \in s.adds \cup s.drops : d[1] # "type"}},
                !.shared = @ \cup {o[4] : o \in {a \in s.adds : a[1] = "fk"}}]

ExecBlock(db, block) == FoldLeft(Exec, db, block)

Found(objs, rs) == [objects |-> objs, rows |-> rs, made |-> {}, altered |-> {},
                    shared |-> {}, ok |-> TRUE]

\* After[v + 1]: the schema v revisions make of an empty database
After == FoldLeft(LAMBDA schemas, rev :
                    Append(schemas, FoldLeft(ExecBlock, Found(schemas[Len(schemas)], {}),
                                             rev.up).objects),
                  <<{}>>, Chain)

-----------------------------------------------------------------------------
(* The runs of alembic *)

NoRun == [going |-> "nowhere"]

Init == /\ version = 0
        /\ objects = {}
        /\ rows = {}
        /\ run = NoRun
        /\ writes = 0

\* the blocks that lead from one revision to another
UpBlocks(from, to)  == FlattenSeq([i \in 1..(to - from) |-> Chain[from + i].up])
DownBlocks(from)    == Chain[from].down

Begin(going, to, blocks) ==
    /\ run = NoRun
    /\ run' = [going |-> going, to |-> to, left |-> Len(blocks), from |-> version,
               db |-> Found(objects, rows), late |-> {}]
    /\ UNCHANGED <<version, objects, rows, writes>>

BeginUpgrade ==
    \E to \in {version + 1} \cup Releases :
        /\ version < to /\ to <= Newest
        /\ Begin("up", to, UpBlocks(version, to))
BeginDowngrade == version > 0 /\ Begin("down", version - 1, DownBlocks(version))

Running == run # NoRun
Blocks  == IF run.going = "up" THEN UpBlocks(run.from, run.to) ELSE DownBlocks(run.from)
NextBlock == Blocks[Len(Blocks) - run.left + 1]
Result  == ExecBlock(run.db, NextBlock)

Step == /\ Running /\ run.left > 0
        /\ Result.ok
        /\ run' = [run EXCEPT !.db = Result, !.left = @ - 1]
        /\ UNCHANGED <<version, objects, rows, writes>>

Rollback == run' = NoRun /\ UNCHANGED <<version, objects, rows, writes>>
Fail  == Running /\ run.left > 0 /\ ~Result.ok /\ Rollback
Crash == Running /\ Rollback

\* a mutant: the transaction of a finished run stays open
CommitStaysOpen ==
    /\ Running /\ run.left = 0
    /\ version' = run.to
    /\ objects' = run.db.objects
    /\ rows' = run.db.rows
    /\ UNCHANGED <<run, writes>>

Commit ==
    /\ Running /\ run.left = 0
    /\ version' = run.to
    /\ objects' = run.db.objects
    /\ rows' = run.db.rows
    /\ run' = NoRun
    /\ UNCHANGED writes

-----------------------------------------------------------------------------
(* The application *)

\* the rows it can write: what they need of the schema, what must not be there,
\* and the rows they refer to
Writable == [
    homonyms   |-> [needs |-> {<<"column", "projects", "code">>}, lacks |-> {}, refs |-> {}],
    map        |-> [needs |-> {<<"table", "meaning_maps">>}, lacks |-> {}, refs |-> {}],
    mm_app     |-> [needs |-> {<<"table", "apps">>}, lacks |-> {}, refs |-> {}],
    holder     |-> [needs |-> {}, lacks |-> {}, refs |-> {"mm_app", "analyst"}],
    oc_member  |-> [needs |-> {<<"table", "oc_project_users">>}, lacks |-> {}, refs |-> {}],
    oc_invite  |-> [needs |-> {<<"table", "oc_project_invites">>}, lacks |-> {}, refs |-> {}],
    v2_recording |-> [needs |-> {}, lacks |-> {}, refs |-> {"v2_genres"}],
    unclassified_recording |-> [needs |-> {}, lacks |-> {}, refs |-> {"unclassified"}],
    orphan     |-> [needs |-> {<<"loose", "oc_recordings", "user_id">>}, lacks |-> {},
                    refs |-> {}],
    twins      |-> [needs |-> {<<"table", "oc_recordings">>},
                    lacks |-> {<<"index", "oc_recordings", "uq_oc_recordings_project_title">>},
                    refs |-> {}],
    bootstrap  |-> [needs |-> {<<"table", "users">>}, lacks |-> {}, refs |-> {}],
    as_user    |-> [needs |-> {}, lacks |-> {}, refs |-> {"as_app"}],
    as_data    |-> [needs |-> {<<"table", "as_tier_a_words">>}, lacks |-> {}, refs |-> {}],
    invited    |-> [needs |-> {<<"table", "as_language_members">>}, lacks |-> {}, refs |-> {}],
    abandoned  |-> [needs |-> {}, lacks |-> {}, refs |-> {"invited"}],
    long_id    |-> [needs |-> {<<"loose", "oc_acousteme_artifacts", "audio_id">>},
                    lacks |-> {}, refs |-> {}],
    stray      |-> [needs |-> {<<"table", "sn_sessions">>},
                    lacks |-> {<<"fk", "sn_sessions", "audio_ref", "sn_audio_refs">>},
                    refs |-> {}]]

\* the tables the rows of a table refer to
TargetsOf(t) == {o[4] : o \in {x \in objects : x[1] = "fk" /\ x[2] = t}}
\* the run holds a lock the write would wait for
Locked(t) == Running /\ (t \in run.db.altered \cup run.db.shared
                         \/ TargetsOf(t) \cap run.db.altered # {})

\* deleting the admin who granted a membership leaves it without a grantor
Written(rs, k) == (rs \ (IF k = "abandoned" THEN {"invited"} ELSE {})) \cup {k}

Write(k) ==
    /\ writes < MaxWrites
    /\ k \notin rows
    /\ Writable[k].needs \subseteq objects
    /\ Writable[k].lacks \cap objects = {}
    /\ Writable[k].refs \subseteq rows
    /\ ~Locked(Home[k])
    /\ rows' = Written(rows, k)
    /\ writes' = writes + 1
    /\ run' = IF Running THEN [run EXCEPT !.db.rows = Written(@, k), !.late = @ \cup {k}]
              ELSE run
    /\ UNCHANGED <<version, objects>>

Next == \/ BeginUpgrade \/ BeginDowngrade
        \/ Step \/ Fail \/ Crash \/ Commit
        \/ \E k \in DOMAIN Writable : Write(k)

Spec == Init /\ [][Next]_vars

-----------------------------------------------------------------------------
(* Properties *)

\* Nothing hangs in the air: a column, an index or a foreign key is of a table that is
\* there, and points to one that is, in what is committed and in what a run has made.
\* (DROP TABLE and DROP COLUMN in the downgrades, create_table in the upgrades.)
Sound(objs) == \A o \in objs :
    /\ o[1] \in {"column", "index", "fk", "loose"} => <<"table", o[2]>> \in objs
    /\ o[1] = "fk" => <<"table", o[4]>> \in objs
MigTypeOK ==
    /\ version \in 0..Newest
    /\ rows \subseteq Kinds
    /\ writes \in 0..MaxWrites
    /\ Sound(objects)
    /\ Running => /\ run.going \in {"up", "down"}
                  /\ run.to \in 0..Newest /\ run.from = version
                  /\ Sound(run.db.objects)

\* The schema is the one its revision promises whatever the road to it: each downgrade
\* undoes what its upgrade did.  The two enum types of e8d6b0446bcf are the exception:
\* create_table made them and its downgrade forgets them.
Forgotten == {<<"type", "testament_enum">>, <<"type", "meaning_map_status_enum">>}
SchemaIsOfItsRevision ==
    /\ After[version + 1] \subseteq objects
    /\ objects \ After[version + 1] \subseteq Forgotten

\* A deploy gets through: a revision fails on an upgrade only for rows it declares it
\* cannot take (two languages under one code, two recordings with one title, sessions
\* without their audio), or for the types a downgrade of e8d6b0446bcf left behind.
Stuck == Running /\ run.left > 0 /\ ~Result.ok
UpgradesGoThrough ==
    Stuck /\ run.going = "up" =>
        \/ run.db.rows \cap {"homonyms", "twins", "stray"} # {}
        \/ Forgotten \subseteq objects /\ <<"table", "bible_books">> \notin run.db.objects

\* `alembic downgrade -1` gets through from every revision unless there are rows the older
\* schema cannot hold: maps (without a project), recordings (without a user), long ids.
DowngradesGoThrough ==
    Stuck /\ run.going = "down" => run.db.rows \cap {"map", "orphan", "long_id"} # {}

\* An upgrade keeps the rows that were committed before it began: they stay or they move
\* to the table that replaces theirs.  Only 20260609_0001 deletes: the memberships nobody
\* granted, and with them those whose grantor's account has been deleted.  A row written
\* while the run is in flight has no such promise (20260312_0001 drops the tables it has
\* copied).
MovedTo(k) == CASE k = "oc_member" -> "member" [] k = "oc_invite" -> "invite" [] OTHER -> k
NothingLostGoingUp ==
    [][Running /\ run.going = "up" /\ version' = run.to =>
         \A k \in rows \ (run.late \cup {"seeded", "abandoned"}) :
            k \in rows' \/ MovedTo(k) \in rows']_vars

\* At the newest revision the schema holds every table and every added column the ORM
\* models read (src/app/db/models), also after downgrades and upgrades again.
ModelTables ==
    {"access_requests", "apps", "as_analysis_results", "as_exports", "as_language_members",
     "as_speakers", "as_tier_a_recordings", "as_tier_a_words", "as_tier_b_pairs",
     "as_tier_b_recordings", "as_tier_c_clips", "as_tier_c_sort_assignments",
     "bcd_approvals", "bcd_generation_logs", "bcd_section_feedback", "bible_books",
     "book_context_documents", "languages", "meaning_map_feedback", "meaning_maps",
     "notification_meaning_map_details", "notifications", "oc_acousteme_artifacts",
     "oc_genres", "oc_recordings", "oc_storytellers", "oc_subcategories",
     "organization_members", "organizations", "password_reset_tokens", "pericopes",
     "permissions", "ph_agent_prompts", "ph_interviews", "ph_reports",
     "phase_dependencies", "phases", "project_invites", "project_organization_access",
     "project_phases", "project_user_access", "projects", "refresh_tokens",
     "role_permissions", "roles", "sn_answer_transcripts", "sn_artifacts", "sn_audio_refs",
     "sn_audit_events", "sn_consents", "sn_project_settings", "sn_session_state",
     "sn_sessions", "sn_voice_answers", "th_agent_prompts", "th_chat_messages", "th_chats",
     "user_app_roles", "users"}
ModelColumns ==
    {<<"apps", "android_url">>, <<"apps", "app_url">>, <<"apps", "auto_approve">>,
     <<"apps", "description">>, <<"apps", "icon_url">>, <<"apps", "ios_url">>,
     <<"apps", "platform">>, <<"bcd_approvals", "reviewer_locale">>,
     <<"bcd_approvals", "roles_at_approval">>, <<"book_context_documents", "is_active">>,
     <<"book_context_documents", "locked_at">>, <<"book_context_documents", "locked_by">>,
     <<"book_context_documents", "regeneration_feedback">>,
     <<"book_context_documents", "translations">>,
     <<"meaning_maps", "bcd_version_at_creation">>, <<"meaning_maps", "translations">>,
     <<"oc_recordings", "cleaning_error">>, <<"oc_recordings", "description">>,
     <<"oc_recordings", "register_id">>, <<"oc_recordings", "review_flags">>,
     <<"oc_recordings", "secondary_genre_id">>,
     <<"oc_recordings", "secondary_register_id">>,
     <<"oc_recordings", "secondary_subcategory_id">>, <<"oc_recordings", "split_from_id">>,
     <<"oc_recordings", "split_index">>, <<"oc_recordings", "split_segment_count">>,
     <<"oc_recordings", "splitting_status">>, <<"oc_recordings", "storyteller_id">>,
     <<"oc_recordings", "upload_error">>, <<"oc_storytellers", "created_by_user_id">>,
     <<"organizations", "description">>, <<"organizations", "logo_url">>,
     <<"organizations", "manager_id">>, <<"project_phases", "status">>,
     <<"project_user_access", "invited_by">>, <<"project_user_access", "role">>,
     <<"projects", "language_id">>, <<"projects", "latitude">>,
     <<"projects", "location_display_name">>, <<"projects", "longitude">>,
     <<"sn_sessions", "lock_expires_at">>, <<"sn_sessions", "locked_by">>,
     <<"users", "avatar_url">>, <<"users", "locale">>}
HeadServesTheModels ==
    version = Newest =>
        /\ {<<"table", t>> : t \in ModelTables} \subseteq objects
        /\ {<<"column">> \o c : c \in ModelColumns} \subseteq objects

\* Every revision fits the ones around it: upgrades and downgrades get through but for rows they
\* declare, leave the schema their revision promises, and end in the one the models read
\* (.github/workflows/migrations.yml).
RevisionsFit ==
    /\ MigTypeOK /\ SchemaIsOfItsRevision /\ HeadServesTheModels
    /\ UpgradesGoThrough /\ DowngradesGoThrough

=============================================================================
