------------------------------ MODULE Manifest ------------------------------
(***************************************************************************)
(* The manifest: what load_manifest checks of one, what the stages of the  *)
(* pipeline look up in it, and the default project's manifest itself       *)
(* (projects/default/manifest.py).                                         *)
(*                                                                         *)
(* Abstracted: labels, schedules, endpoints, thresholds, and of an auth    *)
(* everything but its kind.                                                *)
(***************************************************************************)
EXTENDS Naturals, SequencesExt

\* The registries the manifest is checked against, and those it is not.
Strategies == {"rest_json", "paged_json", "paged_json_detail", "json_rpc", "ldap", "sdp_cursor"}
Transforms == {"mac", "serial", "name", "lower", "os_family", "first_of_list", "join_list",
               "employee_name_from_url"}
AuthKinds == {"api_key", "oauth_refresh", "ldap", "none"}
LinkStrategies == {"exact", "normalized", "extract_fuzzy"}

\* A spec entry is a FieldSpec or a tuple of paths.
FieldSpec(paths, transform) == [tuple |-> FALSE, paths |-> paths, transform |-> transform]
Paths(paths) == [tuple |-> TRUE, paths |-> paths, transform |-> ""]

\* _normalize_spec: a pair whose second member names a transform is a path and
\* its transform, whatever was meant.
NormalizeSpec(spec) ==
    [f \in DOMAIN spec |->
        LET paths == spec[f].paths
        IN IF spec[f].tuple /\ Len(paths) = 2 /\ paths[2] \in Transforms
           THEN FieldSpec(<<paths[1]>>, paths[2])
           ELSE FieldSpec(paths, spec[f].transform)]

NormalizeFeeds(m) ==
    [m EXCEPT !.feeds = [k \in DOMAIN m.feeds |->
        [m.feeds[k] EXCEPT !.spec = NormalizeSpec(m.feeds[k].spec)]]]

Columns(profile) == Range(profile.fields) \cup DOMAIN profile.derived

AnchorFeeds(m, profile) ==
    {k \in DOMAIN m.feeds : m.feeds[k].role = "anchor" /\ m.feeds[k].profile = profile}

SystemFeeds(m, system) == {k \in DOMAIN m.feeds : m.feeds[k].system = system}

----------------------------------------------------------------------------
(* _validate: its checks, in its order                                     *)

SystemsExist(m) == \A k \in DOMAIN m.feeds : m.feeds[k].system \in DOMAIN m.systems

AnchorsHaveProfiles(m) ==
    \A k \in DOMAIN m.feeds : m.feeds[k].role = "anchor" => m.feeds[k].profile \in DOMAIN m.profiles

SpecsMatchProfiles(m) ==
    \A p \in DOMAIN m.profiles : \A k \in AnchorFeeds(m, p) :
        DOMAIN m.feeds[k].spec \subseteq Columns(m.profiles[p])

LinksOf(m) == UNION {Range(m.feeds[k].links) : k \in DOMAIN m.feeds}

\* Mutant: the scope of a link may name feeds that are no anchors.
LinksResolveAnywhere(m) ==
    \A link \in LinksOf(m) :
        /\ link.to \in DOMAIN m.profiles
        /\ link.on \in Columns(m.profiles[link.to])

LinksResolve(m) ==
    \A link \in LinksOf(m) :
        /\ link.to \in DOMAIN m.profiles
        /\ link.on \in Columns(m.profiles[link.to])
        /\ link.scope \subseteq AnchorFeeds(m, m.profiles[link.to].name)

StrategiesExist(m) == \A s \in DOMAIN m.systems : m.systems[s].strategy \in Strategies

TransformsExist(m) ==
    /\ \A k \in DOMAIN m.feeds : \A f \in DOMAIN m.feeds[k].spec :
          m.feeds[k].spec[f].transform \in Transforms \cup {""}
    /\ \A link \in LinksOf(m) : link.transform \in Transforms \cup {""}

IdsAreNamed(m) == \A k \in DOMAIN m.feeds : m.feeds[k].role # "context" => m.feeds[k].id # ""

ProfilesAreClosed(m) ==
    \A p \in DOMAIN m.profiles :
        LET profile == m.profiles[p]
        IN /\ Range(profile.blocking) \cup Range(profile.deterministic)
                 \cup Range(profile.em_passes) \subseteq Columns(profile)
           /\ \A f \in DOMAIN profile.sot :
                 /\ f \in Columns(profile)
                 /\ Range(profile.sot[f]) \subseteq DOMAIN m.systems \cup {""}

Validate(m) ==
    /\ SystemsExist(m)
    /\ AnchorsHaveProfiles(m)
    /\ LinksResolve(m)
    /\ SpecsMatchProfiles(m)
    /\ StrategiesExist(m)
    /\ TransformsExist(m)
    /\ IdsAreNamed(m)
    /\ ProfilesAreClosed(m)

\* load_manifest: the normalised manifest, or none (ManifestValidationError).
LoadManifest(m) == LET n == NormalizeFeeds(m) IN IF Validate(n) THEN <<n>> ELSE <<>>

----------------------------------------------------------------------------
(* What the stages look up, and fail on: each failure is <<kind, name>>    *)

\* run_system: build_auth raises on an unknown kind; an unknown strategy, or a
\* feed of no system, fetches nothing.
IngestFailures(m) ==
    {<<"auth", s>> : s \in {s \in DOMAIN m.systems : m.systems[s].auth \notin AuthKinds}}
    \cup {<<"strategy", s>> : s \in {s \in DOMAIN m.systems : m.systems[s].strategy \notin Strategies}}
    \cup {<<"feed", k>> : k \in DOMAIN m.feeds \ UNION {SystemFeeds(m, s) : s \in DOMAIN m.systems}}

\* The fields normalize_record adds to what the walker extracts.
Computed == {"source", "source_id", "name_clean", "mac_clean", "name_fallback", "os_family",
             "serial_number", "extra_attributes"}

\* export, run_splink and run_load all take the profile "device": its fields are
\* the columns of the CSV file, whose writer raises on any other key; Splink
\* compares and blocks on columns it has read; the devices table takes the
\* priorities of its columns.
ExportFailures(m) ==
    IF "device" \notin DOMAIN m.profiles THEN {<<"profile", "device">>}
    ELSE LET device == m.profiles["device"]
             written == Computed \cup UNION {DOMAIN m.feeds[k].spec : k \in AnchorFeeds(m, "device")}
         IN {<<"column", f>> : f \in written \ Range(device.fields)}
            \cup {<<"compared", f>> : f \in Range(device.comparisons) \ Range(device.fields)}
            \cup {<<"blocked", f>> : f \in (Range(device.blocking) \cup Range(device.deterministic)
                                              \cup Range(device.em_passes)) \ Range(device.fields)}

\* resolve_feed_attachments: a feed outside the anchors has no source records to
\* link to; an unknown strategy or transform links nothing or something else.
AttachFailures(m) ==
    {<<"scope", k>> : k \in (UNION {link.scope : link \in LinksOf(m)})
                              \ {k \in DOMAIN m.feeds : m.feeds[k].role = "anchor"}}
    \cup {<<"link", link.strategy>> : link \in {l \in LinksOf(m) : l.strategy \notin LinkStrategies}}
    \cup {<<"transform", link.transform>> :
              link \in {l \in LinksOf(m) : l.transform \notin Transforms \cup {""}}}

Failures(m) == IngestFailures(m) \cup ExportFailures(m) \cup AttachFailures(m)

\* What _validate does not look at (manifest/__init__.py:139-248): the kind of an
\* auth, that there is a profile "device", the columns that are compared, the
\* strategy of a link, and that a derived or computed column is a field as well.
Unchecked(m, failure) ==
    \/ failure[1] \in {"auth", "profile", "compared", "link"}
    \/ /\ failure[1] \in {"column", "blocked"}
       /\ failure[2] \in Computed \cup DOMAIN m.profiles["device"].derived

----------------------------------------------------------------------------
(* projects/default/manifest.py                                            *)

System(auth, strategy, coverage) == [auth |-> auth, strategy |-> strategy, coverage |-> coverage]

SYSTEMS ==
    [sp  |-> System("none", "rest_json", 55), me  |-> System("oauth_refresh", "paged_json_detail", 50),
     fg  |-> System("api_key", "rest_json", 40), zbx |-> System("api_key", "json_rpc", 45),
     ad  |-> System("ldap", "ldap", 60), sdp |-> System("oauth_refresh", "sdp_cursor", 30)]

DEVICE_PROFILE ==
    LET keys == <<"serial_number", "mac_clean", "name_clean", "name_fallback">> IN
    [name |-> "device",
     fields |-> <<"source", "source_id", "name", "name_clean", "serial_number", "mac_address", "mac_clean",
                  "name_fallback", "asset_tag", "manufacturer", "model", "os", "os_version",
                  "assigned_user", "ip_address", "imei", "mdm_latitude", "mdm_longitude",
                  "mdm_horizontal_accuracy", "mdm_location_address", "mdm_located_time",
                  "extra_attributes", "os_family">>,
     derived |-> [name_clean |-> "name", mac_clean |-> "mac_address", name_fallback |-> "name",
                  os_family |-> "os"],
     comparisons |-> <<"serial_number", "mac_clean", "name_clean", "ip_address", "manufacturer",
                       "assigned_user", "os_family">>,
     blocking |-> keys, deterministic |-> keys, em_passes |-> keys,
     sot |-> [name |-> <<"sp", "">>, serial_number |-> <<"me", "sp">>, mac_address |-> <<"fg", "me">>,
              ip_address |-> <<"zbx", "fg">>, manufacturer |-> <<"me", "sp">>, model |-> <<"me", "sp">>,
              os |-> <<"me", "sp">>, os_family |-> <<"me", "sp">>, os_version |-> <<"me", "sdp">>,
              assigned_user |-> <<"sp", "me">>, imei |-> <<"sdp", "me">>, asset_tag |-> <<"sp", "sdp">>]]

Anchor(system, id, spec) ==
    [system |-> system, role |-> "anchor", profile |-> "device", id |-> id, spec |-> spec, links |-> <<>>]

AssetFeeds ==
    [sp_devices |-> Anchor("sp", "id",
        [source_id |-> Paths(<<"id">>), name |-> Paths(<<"fields.Title">>),
         serial_number |-> FieldSpec(<<"fields.SerialNumber">>, "serial"),
         mac_address |-> Paths(<<"fields.ETHMAC", "fields.WLANMAC">>),
         asset_tag |-> Paths(<<"fields.AssetNumber">>),
         manufacturer |-> FieldSpec(<<"fields.ManufacturerString">>, "lower"),
         model |-> Paths(<<"fields.Model">>), assigned_user |-> Paths(<<"fields.AssignedUserString">>),
         os |-> Paths(<<"fields.OperatingSystem">>)]),
     me_ec |-> Anchor("me", "resource_id",
        [source_id |-> Paths(<<"resource_id", "RESOURCEID">>),
         name |-> Paths(<<"fqdn_name", "resource_name", "NAME", "name">>),
         serial_number |-> FieldSpec(<<"servicetag", "serial_number", "SERIALNUMBER">>, "serial"),
         mac_address |-> Paths(<<"mac_address", "MACADDRESS">>),
         manufacturer |-> Paths(<<"hardware_vendor", "VENDOR", "manufacturer">>),
         model |-> Paths(<<"model", "MODEL">>), os |-> Paths(<<"os_name", "OSNAME">>),
         os_version |-> Paths(<<"os_version", "OSVERSION">>),
         assigned_user |-> Paths(<<"agent_logged_on_users", "USERNAME", "assigned_user">>),
         ip_address |-> Paths(<<"ip_address", "IPADDRESS">>)]),
     me_mdm |-> Anchor("me", "device_id",
        [source_id |-> Paths(<<"device_id", "DEVICEID">>), name |-> Paths(<<"device_name", "NAME", "name">>),
         serial_number |-> Paths(<<"serial_number", "SERIALNUMBER">>),
         mac_address |-> Paths(<<"wifi_mac", "MACADDRESS", "mac_address">>),
         manufacturer |-> Paths(<<"product_name", "MANUFACTURER", "manufacturer">>),
         model |-> Paths(<<"model", "MODEL">>), os |-> Paths(<<"platform_type", "OS", "platform">>),
         os_version |-> Paths(<<"os_version", "OSVERSION">>),
         assigned_user |-> Paths(<<"user.user_email", "USEREMAIL", "user_email">>),
         imei |-> FieldSpec(<<"imei">>, "first_of_list"),
         mdm_latitude |-> Paths(<<"mdm_latitude", "latitude">>),
         mdm_longitude |-> Paths(<<"mdm_longitude", "longitude">>),
         mdm_horizontal_accuracy |-> Paths(<<"mdm_horizontal_accuracy", "horizontal_accuracy">>),
         mdm_location_address |-> Paths(<<"mdm_location_address", "address">>),
         mdm_located_time |-> Paths(<<"mdm_located_time", "added_time">>)])]

NetworkFeeds ==
    [fg_clients |-> Anchor("fg", "mac",
        [source_id |-> Paths(<<"mac">>), name |-> Paths(<<"hostname">>), mac_address |-> Paths(<<"mac">>),
         ip_address |-> Paths(<<"ipv4_address", "ip">>),
         manufacturer |-> Paths(<<"hardware_vendor", "manufacturer">>),
         model |-> Paths(<<"hardware_family", "hardware_type", "model">>),
         os |-> Paths(<<"os_name", "os">>), os_version |-> Paths(<<"os_version">>),
         assigned_user |-> Paths(<<"unauth_user", "user_name">>)]),
     fg_dhcp |-> Anchor("fg", "mac",
        [source_id |-> Paths(<<"mac">>), name |-> Paths(<<"hostname">>), mac_address |-> Paths(<<"mac">>),
         ip_address |-> Paths(<<"ip">>)]),
     zbx_hosts |-> Anchor("zbx", "hostid",
        [source_id |-> Paths(<<"hostid">>), name |-> FieldSpec(<<"host", "name">>, ""),
         ip_address |-> Paths(<<"interfaces.0.ip", "ip">>),
         os |-> Paths(<<"inventory.os", "inventory.os_full">>), os_version |-> Paths(<<"inventory.os_short">>),
         serial_number |-> FieldSpec(<<"inventory.serial_no_a", "inventory.serial_no_b">>, "serial"),
         mac_address |-> FieldSpec(<<"inventory.macaddress_a", "inventory.macaddress_b">>, "mac"),
         model |-> Paths(<<"inventory.type", "inventory.type_full">>),
         asset_tag |-> Paths(<<"inventory.tag">>)]),
     ad_computers |-> Anchor("ad", "sAMAccountName",
        [source_id |-> Paths(<<"sAMAccountName", "dNSHostName">>), name |-> Paths(<<"dNSHostName">>),
         serial_number |-> FieldSpec(<<"serialNumber">>, "serial"),
         manufacturer |-> Paths(<<"manufacturer">>), model |-> Paths(<<"model">>),
         os |-> Paths(<<"operatingSystem">>), os_version |-> Paths(<<"operatingSystemVersion">>),
         assigned_user |-> Paths(<<"managedBy">>)]),
     sdp_assets |-> Anchor("sdp", "id",
        [source_id |-> Paths(<<"id">>), name |-> Paths(<<"name">>),
         serial_number |-> FieldSpec(<<"serial_number">>, "serial"), mac_address |-> Paths(<<"mac_address">>),
         asset_tag |-> Paths(<<"barcode", "asset_tag">>),
         manufacturer |-> Paths(<<"product.manufacturer", "manufacturer">>),
         model |-> Paths(<<"product.name", "model">>), os |-> Paths(<<"os">>),
         assigned_user |-> Paths(<<"created_by.name", "assigned_user">>)])]

Link(field, on, strategy, transform, multi, scope) ==
    [field |-> field, to |-> "device", on |-> on, strategy |-> strategy, transform |-> transform,
     multi |-> multi, scope |-> scope]

\* The specs of attachment feeds are read by nobody and left out.
Attachment(system, id, links) ==
    [system |-> system, role |-> "attachment", profile |-> "", id |-> id, spec |-> <<>>, links |-> links]

UserFeeds == {"sp_devices", "me_ec", "me_mdm", "fg_clients", "ad_computers"}

DeviceLink == Link("fields.LookupToDevicesLookupId", "source_id", "exact", "", FALSE, {"sp_devices"})

AttachmentFeeds ==
    [zbx_items |-> Attachment("zbx", "itemid", <<Link("hostid", "source_id", "exact", "", FALSE, {"zbx_hosts"})>>),
     sdp_requests |-> Attachment("sdp", "id", <<Link("subject", "name", "extract_fuzzy", "", TRUE, {})>>),
     sp_employees |-> Attachment("sp", "id",
        <<Link("fields.BusEmailAddress", "assigned_user", "exact", "", FALSE, UserFeeds),
          Link("fields.ReadName", "assigned_user", "exact", "", FALSE, UserFeeds),
          Link("fields.MLUsername", "assigned_user", "exact", "", FALSE, UserFeeds)>>),
     sp_accountinfo |-> Attachment("sp", "id",
        <<Link("fields.DeviceString", "name_clean", "exact", "", FALSE, {"sp_devices"}),
          Link("fields.EmployeeString", "assigned_user", "exact", "", FALSE, UserFeeds)>>),
     sp_devicenotes |-> Attachment("sp", "id", <<DeviceLink>>),
     sp_employeedocs |-> Attachment("sp", "fields.ID",
        <<Link("webUrl", "assigned_user", "normalized", "employee_name_from_url", TRUE, UserFeeds)>>),
     sp_componentpurchases |-> Attachment("sp", "id", <<DeviceLink>>)]

Context(system, id) ==
    [system |-> system, role |-> "context", profile |-> "", id |-> id, spec |-> <<>>, links |-> <<>>]

ContextFeeds ==
    [sp_vlans |-> Context("sp", "id"),          sdp_contracts |-> Context("sdp", "id"),
     sdp_purchase_orders |-> Context("sdp", "id"), fg_resource_usage |-> Context("fg", "id"),
     fg_vpn_sessions |-> Context("fg", "id"),   fg_known_devices |-> Context("fg", "mac"),
     fg_firewall_policies |-> Context("fg", "policyid"), fg_interfaces |-> Context("fg", "id"),
     fg_arp_table |-> Context("fg", "mac")]

MANIFEST ==
    [systems |-> SYSTEMS,
     feeds |-> AssetFeeds @@ NetworkFeeds @@ AttachmentFeeds @@ ContextFeeds,
     profiles |-> [device |-> DEVICE_PROFILE]]
=============================================================================
