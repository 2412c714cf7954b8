------------------------------ MODULE AdminApi ------------------------------
(***************************************************************************)
(* The requests of the admin client (src/src/admin): for every operation   *)
(* the HTTP verb it sends and the path it sends it to, from the API root.  *)
(* A path is the sequence of its segments, and "{}" is a segment the       *)
(* caller names (a tenant, a topic, a bundle), percent-encoded so that it  *)
(* is always one segment.  What an operation sends as query parameters and *)
(* as body, and how it reads the answer, is not part of the tables.        *)
(*                                                                         *)
(* A table gives a row, <<verb, segments...>>, to each operation of one    *)
(* group of operations, under the group's base path.  In the tables of     *)
(* policies a row is a policy, with the operations get, set and remove.    *)
(***************************************************************************)
EXTENDS Naturals, Sequences, FiniteSets

\* A policy that is read, set and removed at one path.
Policy(segment) ==
   [get |-> <<"GET", segment>>, set |-> <<"POST", segment>>,
    remove |-> <<"DELETE", segment>>]

\* A policy whose setter is a PUT.
PutPolicy(segment) == [Policy(segment) EXCEPT !.set = <<"PUT", segment>>]

\* A policy that has no remove: the broker has no DELETE route for it.
Kept(verb, segment) ==
   [get |-> <<"GET", segment>>, set |-> <<verb, segment>>]

\* Tenants.
Tenants ==
   [get_tenants |-> <<"GET">>, get_tenant_info |-> <<"GET", "{}">>,
    create_tenant |-> <<"PUT", "{}">>, update_tenant |-> <<"POST", "{}">>,
    delete_tenant |-> <<"DELETE", "{}">>]

\* Clusters and their peers and migration.
ClusterOps ==
   [get_clusters |-> <<"GET">>, get_cluster |-> <<"GET", "{}">>,
    create_cluster |-> <<"PUT", "{}">>, update_cluster |-> <<"POST", "{}">>,
    delete_cluster |-> <<"DELETE", "{}">>,
    get_peer_cluster_names |-> <<"GET", "{}", "peers">>,
    update_peer_cluster_names |-> <<"POST", "{}", "peers">>,
    get_cluster_migration |-> <<"GET", "{}", "migrate">>,
    update_cluster_migration |-> <<"POST", "{}", "migrate">>]

\* Namespace isolation policies and failure domains of a cluster.
ClusterIsolation ==
   [get_namespace_isolation_policies |->
       <<"GET", "{}", "namespaceIsolationPolicies">>,
    get_namespace_isolation_policy |->
       <<"GET", "{}", "namespaceIsolationPolicies", "{}">>,
    set_namespace_isolation_policy |->
       <<"POST", "{}", "namespaceIsolationPolicies", "{}">>,
    delete_namespace_isolation_policy |->
       <<"DELETE", "{}", "namespaceIsolationPolicies", "{}">>,
    get_brokers_with_namespace_isolation_policy |->
       <<"GET", "{}", "namespaceIsolationPolicies", "brokers">>,
    get_broker_with_namespace_isolation_policy |->
       <<"GET", "{}", "namespaceIsolationPolicies", "brokers", "{}">>,
    get_failure_domains |-> <<"GET", "{}", "failureDomains">>,
    get_failure_domain |-> <<"GET", "{}", "failureDomains", "{}">>,
    set_failure_domain |-> <<"POST", "{}", "failureDomains", "{}">>,
    delete_failure_domain |-> <<"DELETE", "{}", "failureDomains", "{}">>]

\* Bookies and their racks.
Bookies ==
   [get_bookies |-> <<"GET", "all">>,
    get_bookies_rack_info |-> <<"GET", "racks-info">>,
    get_bookie_rack_info |-> <<"GET", "racks-info", "{}">>,
    update_bookie_rack_info |-> <<"POST", "racks-info", "{}">>,
    delete_bookie_rack_info |-> <<"DELETE", "racks-info", "{}">>]

\* Brokers and their dynamic configuration.
Brokers ==
   [get_active_brokers |-> <<"GET">>,
    get_active_brokers_in_cluster |-> <<"GET", "{}">>,
    get_leader_broker |-> <<"GET", "leaderBroker">>,
    get_owned_namespaces |-> <<"GET", "{}", "{}", "ownedNamespaces">>,
    get_dynamic_configuration_names |-> <<"GET", "configuration">>,
    get_all_dynamic_configurations |-> <<"GET", "configuration", "values">>,
    get_runtime_configurations |-> <<"GET", "configuration", "runtime">>,
    update_dynamic_configuration |-> <<"POST", "configuration", "{}", "{}">>,
    delete_dynamic_configuration |-> <<"DELETE", "configuration", "{}">>]

\* What a broker says of itself, and its shutdown.
BrokerHealth ==
   [get_internal_configuration_data |-> <<"GET", "internal-configuration">>,
    get_broker_version |-> <<"GET", "version">>,
    healthcheck |-> <<"GET", "health">>,
    healthcheck_broker |-> <<"GET", "health">>,
    shutdown_broker_gracefully |-> <<"POST", "shutdown">>,
    backlog_quota_check |-> <<"GET", "backlog-quota-check">>]

\* Statistics of a broker.
BrokerStats ==
   [get_metrics |-> <<"GET", "metrics">>, get_topics |-> <<"GET", "topics">>,
    get_mbeans |-> <<"GET", "mbeans">>,
    get_pending_bookie_ops_stats |-> <<"GET", "bookieops">>,
    get_allocator_stats |-> <<"GET", "allocator-stats", "{}">>,
    get_load_report |-> <<"GET", "load-report">>]

\* Resource groups.
ResourceGroups ==
   [get_resource_groups |-> <<"GET">>, get_resource_group |-> <<"GET", "{}">>,
    create_resource_group |-> <<"PUT", "{}">>,
    update_resource_group |-> <<"PUT", "{}">>,
    delete_resource_group |-> <<"DELETE", "{}">>]

\* Resource quotas, the default one and those of a bundle.
ResourceQuotas ==
   [get_default_resource_quota |-> <<"GET">>,
    set_default_resource_quota |-> <<"POST">>,
    get_namespace_bundle_resource_quota |-> <<"GET", "{}", "{}", "{}">>,
    set_namespace_bundle_resource_quota |-> <<"POST", "{}", "{}", "{}">>,
    reset_namespace_bundle_resource_quota |-> <<"DELETE", "{}", "{}", "{}">>]

\* The function workers.
Workers ==
   [get_cluster |-> <<"GET", "worker", "cluster">>,
    get_cluster_leader |-> <<"GET", "worker", "cluster", "leader">>,
    get_assignments |-> <<"GET", "worker", "assignments">>,
    rebalance |-> <<"PUT", "worker", "rebalance">>,
    get_functions_stats |-> <<"GET", "worker-stats", "functionsmetrics">>,
    get_metrics |-> <<"GET", "worker-stats", "metrics">>]

\* Migration of the metadata store.
MetadataMigration ==
   [status |-> <<"GET", "metadata", "migration", "status">>,
    start |-> <<"POST", "metadata", "migration", "start">>]

\* The namespaces of a tenant.
NamespaceLists ==
   [get_namespaces |-> <<"GET", "namespaces", "{}">>]

\* Creation, deletion and permissions of a namespace.
NamespaceOps ==
   [create_namespace |-> <<"PUT">>,
    create_namespace_with_bundles |-> <<"PUT">>,
    delete_namespace |-> <<"DELETE">>, get_policies |-> <<"GET">>,
    get_namespace_topics |-> <<"GET", "topics">>,
    get_bundles |-> <<"GET", "bundles">>,
    get_permissions |-> <<"GET", "permissions">>,
    grant_permission_on_namespace |-> <<"POST", "permissions", "{}">>,
    revoke_permissions_on_namespace |-> <<"DELETE", "permissions", "{}">>,
    grant_permission_on_subscription |->
       <<"POST", "permissions", "subscription", "{}">>,
    revoke_permission_on_subscription |->
       <<"DELETE", "permissions", "{}", "{}">>]

\* Replication and backlog quotas of a namespace.
NamespaceQuotas ==
   [namespace_replication_clusters |-> Kept("POST", "replication"),
    backlog_quota |->
       [get |-> <<"GET", "backlogQuotaMap">>,
        set |-> <<"POST", "backlogQuota">>,
        remove |-> <<"DELETE", "backlogQuota">>]]

\* Bundles and backlogs of a namespace.
NamespaceBundles ==
   [unload_namespace |-> <<"PUT", "unload">>,
    unload_namespace_bundle |-> <<"PUT", "{}", "unload">>,
    split_namespace_bundle |-> <<"PUT", "{}", "split">>,
    clear_namespace_backlog |-> <<"POST", "clearBacklog">>,
    clear_namespace_backlog_for_subscription |->
       <<"POST", "clearBacklog", "{}">>,
    clear_namespace_bundle_backlog |-> <<"POST", "{}", "clearBacklog">>,
    clear_namespace_bundle_backlog_for_subscription |->
       <<"POST", "{}", "clearBacklog", "{}">>,
    unsubscribe_namespace_bundle |-> <<"POST", "{}", "unsubscribe", "{}">>,
    unsubscribe_namespace |-> <<"POST", "unsubscribe", "{}">>]

\* Properties of a namespace.
NamespaceProperties ==
   [get_namespace_properties |-> <<"GET", "properties">>,
    set_namespace_properties |-> <<"PUT", "properties">>,
    clear_namespace_properties |-> <<"DELETE", "properties">>,
    set_namespace_property |-> <<"PUT", "property", "{}", "{}">>,
    remove_namespace_property |-> <<"DELETE", "property", "{}">>]

\* Policies on expiry and on the clients of a topic.
NamespaceClients ==
   [message_ttl |-> Policy("messageTTL"),
    subscription_expiration_time |-> Policy("subscriptionExpirationTime"),
    max_producers_per_topic |-> Policy("maxProducersPerTopic"),
    max_consumers_per_topic |-> Policy("maxConsumersPerTopic"),
    max_consumers_per_subscription |-> Policy("maxConsumersPerSubscription")]

\* Policies on unacknowledged messages, subscriptions and topics.
NamespaceUnacked ==
   [max_unacked_messages_per_consumer |->
       Policy("maxUnackedMessagesPerConsumer"),
    max_unacked_messages_per_subscription |->
       Policy("maxUnackedMessagesPerSubscription"),
    max_subscriptions_per_topic |-> Policy("maxSubscriptionsPerTopic"),
    max_topics_per_namespace |-> Policy("maxTopicsPerNamespace")]

\* Policies on deduplication snapshots, compaction and offloading.
NamespaceStorage ==
   [deduplication_snapshot_interval |->
       [get |-> <<"GET", "deduplicationSnapshotInterval">>,
        set |-> <<"POST", "deduplicationSnapshotInterval">>,
        remove |-> <<"POST", "deduplicationSnapshotInterval">>],
    compaction_threshold |-> PutPolicy("compactionThreshold"),
    offload_threshold |-> Kept("PUT", "offloadThreshold"),
    offload_threshold_in_seconds |-> Kept("PUT", "offloadThresholdInSeconds"),
    offload_deletion_lag |-> PutPolicy("offloadDeletionLagMs")]

\* Policies that switch a check on or off.
NamespaceChecks ==
   [deduplication_status |-> Policy("deduplication"),
    encryption_required_status |-> Kept("POST", "encryptionRequired"),
    schema_validation_enforced |-> Kept("POST", "schemaValidationEnforced"),
    is_allow_auto_update_schema |-> Kept("POST", "isAllowAutoUpdateSchema"),
    dispatcher_pause_on_ack_state_persistent |->
       Policy("dispatcherPauseOnAckStatePersistent")]

\* Groups, authorization mode and schema compatibility.
NamespaceGroups ==
   [namespace_anti_affinity_group |-> Policy("antiAffinity"),
    namespace_resource_group |->
       [get |-> <<"GET", "resourcegroup">>,
        set |-> <<"POST", "resourcegroup", "{}">>,
        remove |-> <<"DELETE", "resourcegroup">>],
    subscription_auth_mode |-> Kept("POST", "subscriptionAuthMode"),
    schema_compatibility_strategy |->
       Kept("PUT", "schemaCompatibilityStrategy")]

\* Retention, persistence and dispatch rates.
NamespaceRetention ==
   [retention |-> Policy("retention"), persistence |-> Policy("persistence"),
    dispatch_rate |-> Policy("dispatchRate"),
    subscription_dispatch_rate |-> Policy("subscriptionDispatchRate")]

\* Replicator, publish and subscribe rates, inactive topics.
NamespaceRates ==
   [replicator_dispatch_rate |-> Policy("replicatorDispatchRate"),
    publish_rate |-> Policy("publishRate"),
    subscribe_rate |-> Policy("subscribeRate"),
    inactive_topic_policies |-> Policy("inactiveTopicPolicies")]

\* Delayed delivery, automatic creation, entry filters.
NamespaceCreation ==
   [delayed_delivery_messages |-> Policy("delayedDelivery"),
    auto_topic_creation |-> Policy("autoTopicCreation"),
    auto_subscription_creation |-> Policy("autoSubscriptionCreation"),
    namespace_entry_filters |-> Policy("entryFilters")]

\* Bookie affinity, subscription types, offloading and scaling.
NamespaceOffload ==
   [bookie_affinity_group |->
       [get |-> <<"GET", "persistence", "bookieAffinity">>,
        set |-> <<"POST", "persistence", "bookieAffinity">>,
        remove |-> <<"DELETE", "persistence", "bookieAffinity">>],
    subscription_types_enabled |-> Policy("subscriptionTypesEnabled"),
    offload_policies |->
       [get |-> <<"GET", "offloadPolicies">>,
        set |-> <<"POST", "offloadPolicies">>,
        remove |-> <<"DELETE", "removeOffloadPolicies">>],
    scalable_topic_auto_scale_policy |->
       Policy("scalableTopicAutoScalePolicy")]

\* Operations on one bundle, migration, one property.
NamespaceBundleOps ==
   [delete_namespace_bundle |-> <<"DELETE", "{}">>,
    get_topic_hash_positions |-> <<"GET", "{}", "topicHashPositions">>,
    update_migration_state |-> <<"POST", "migration">>,
    get_permission_on_subscription |->
       <<"GET", "permissions", "subscription">>,
    get_namespace_property |-> <<"GET", "property", "{}">>]

\* The namespaces of an anti-affinity group.
AntiAffinity ==
   [get_anti_affinity_namespaces |->
       <<"GET", "namespaces", "{}", "antiAffinity", "{}">>]

\* Allowed clusters and metric keys.
NamespaceMetrics ==
   [namespace_allowed_clusters |-> Kept("POST", "allowedClusters"),
    allowed_topic_property_keys_for_metrics |->
       Policy("allowedTopicPropertyKeysForMetrics")]

\* Permissions on a set of topics.
TopicGrants ==
   [grant_permission_on_topics |->
       <<"POST", "namespaces", "grantPermissionsOnTopics">>,
    revoke_permission_on_topics |->
       <<"POST", "namespaces", "revokePermissionsOnTopics">>]

\* The legacy schema strategy.
NamespaceAutoUpdate ==
   [schema_auto_update_compatibility_strategy |->
       Kept("PUT", "schemaAutoUpdateCompatibilityStrategy")]

\* The topics of a namespace.
TopicLists ==
   [get_list |-> <<"GET", "persistent", "{}", "{}">>,
    get_non_persistent_list |-> <<"GET", "non-persistent", "{}", "{}">>,
    get_partitioned_topic_list |->
       <<"GET", "persistent", "{}", "{}", "partitioned">>,
    get_list_in_bundle |-> <<"GET", "non-persistent", "{}", "{}", "{}">>]

\* The life of a topic.
TopicOps ==
   [create_non_partitioned_topic |-> <<"PUT">>,
    create_partitioned_topic |-> <<"PUT", "partitions">>,
    update_partitioned_topic |-> <<"POST", "partitions">>,
    create_missed_partitions |-> <<"POST", "createMissedPartitions">>,
    get_partitioned_topic_metadata |-> <<"GET", "partitions">>,
    delete |-> <<"DELETE">>,
    delete_partitioned_topic |-> <<"DELETE", "partitions">>,
    unload |-> <<"PUT", "unload">>,
    terminate_topic |-> <<"POST", "terminate">>,
    terminate_partitioned_topic |-> <<"POST", "terminate", "partitions">>,
    truncate |-> <<"DELETE", "truncate">>]

\* Properties, permissions and statistics of a topic.
TopicProperties ==
   [get_properties |-> <<"GET", "properties">>,
    update_properties |-> <<"PUT", "properties">>,
    remove_properties |-> <<"DELETE", "properties">>,
    get_permissions |-> <<"GET", "permissions">>,
    grant_permission |-> <<"POST", "permissions", "{}">>,
    revoke_permissions |-> <<"DELETE", "permissions", "{}">>,
    get_stats |-> <<"GET", "stats">>,
    get_internal_stats |-> <<"GET", "internalStats">>,
    get_partitioned_stats |-> <<"GET", "partitioned-stats">>,
    get_partitioned_internal_stats |-> <<"GET", "partitioned-internalStats">>,
    get_subscriptions |-> <<"GET", "subscriptions">>]

\* Subscriptions of a topic and their cursors.
Subscriptions ==
   [create_subscription |-> <<"PUT", "subscription", "{}">>,
    delete_subscription |-> <<"DELETE", "subscription", "{}">>,
    get_subscription_properties |->
       <<"GET", "subscription", "{}", "properties">>,
    update_subscription_properties |->
       <<"PUT", "subscription", "{}", "properties">>,
    skip_all_messages |-> <<"POST", "subscription", "{}", "skip_all">>,
    skip_messages |-> <<"POST", "subscription", "{}", "skip", "{}">>,
    expire_messages |->
       <<"POST", "subscription", "{}", "expireMessages", "{}">>,
    expire_messages_for_all_subscriptions |->
       <<"POST", "all_subscription", "expireMessages", "{}">>,
    reset_cursor |-> <<"POST", "subscription", "{}", "resetcursor", "{}">>,
    reset_cursor_to_message_id |->
       <<"POST", "subscription", "{}", "resetcursor">>]

\* Backlog analysis, compaction, offload and message ids.
TopicTasks ==
   [analyze_subscription_backlog |->
       <<"POST", "subscription", "{}", "analyzeBacklog">>,
    get_replicated_subscription_status |->
       <<"GET", "subscription", "{}", "replicatedSubscriptionStatus">>,
    set_replicated_subscription_status |->
       <<"POST", "subscription", "{}", "replicatedSubscriptionStatus">>,
    trigger_compaction |-> <<"PUT", "compaction">>,
    compaction_status |-> <<"GET", "compaction">>,
    trim_topic |-> <<"POST", "trim">>,
    trigger_offload |-> <<"PUT", "offload">>,
    offload_status |-> <<"GET", "offload">>,
    get_last_message_id |-> <<"GET", "lastMessageId">>,
    get_message_id_by_timestamp |-> <<"GET", "messageid", "{}">>,
    get_messages_by_id |-> <<"GET", "ledger", "{}", "entry", "{}">>]

\* Messages of a topic and its shadows.
TopicMessages ==
   [get_message_id_by_index |-> <<"GET", "getMessageIdByIndex">>,
    get_backlog_size_by_message_id |-> <<"PUT", "backlogSize">>,
    get_internal_info |-> <<"GET", "internal-info">>,
    peek_messages |-> <<"GET", "subscription", "{}", "position", "{}">>,
    examine_message |-> <<"GET", "examinemessage">>,
    get_shadow_topics |-> <<"GET", "shadowTopics">>,
    set_shadow_topics |-> <<"PUT", "shadowTopics">>,
    remove_shadow_topics |-> <<"DELETE", "shadowTopics">>]

\* The non-persistent topics of a namespace.
NonPersistentLists ==
   [get_list |-> <<"GET", "non-persistent", "{}", "{}">>,
    get_list_in_bundle |-> <<"GET", "non-persistent", "{}", "{}", "{}">>]

\* Non-persistent topics.
NonPersistent ==
   [create_partitioned_topic |-> <<"PUT", "partitions">>,
    get_partitioned_topic_metadata |-> <<"GET", "partitions">>,
    get_stats |-> <<"GET", "stats">>,
    get_internal_stats |-> <<"GET", "internalStats">>,
    unload |-> <<"PUT", "unload">>]

\* Topic policies: replication, subscription types, retention.
TopicReplication ==
   [replication_clusters |-> Policy("replication"),
    subscription_types_enabled |-> Policy("subscriptionTypesEnabled"),
    retention |-> Policy("retention")]

\* Topic policies: persistence and dispatch rates.
TopicRates ==
   [persistence |-> Policy("persistence"),
    dispatch_rate |-> Policy("dispatchRate"),
    subscription_dispatch_rate |-> Policy("subscriptionDispatchRate")]

\* Topic policies: replicator, publish and subscribe rates, inactivity.
TopicThrottles ==
   [replicator_dispatch_rate |-> Policy("replicatorDispatchRate"),
    publish_rate |-> Policy("publishRate"),
    subscribe_rate |-> Policy("subscribeRate"),
    inactive_topic_policies |-> Policy("inactiveTopicPolicies")]

\* Topic policies: delayed delivery, offload, subscription creation.
TopicDelivery ==
   [delayed_delivery_policy |-> Policy("delayedDelivery"),
    offload_policies |-> Policy("offloadPolicies"),
    auto_subscription_creation |-> Policy("autoSubscriptionCreation")]

\* Topic policies: entry filters, schema strategy, unacknowledged messages.
TopicFilters ==
   [entry_filters |-> Policy("entryFilters"),
    schema_compatibility_strategy |-> PutPolicy("schemaCompatibilityStrategy"),
    max_unacked_messages_on_consumer |->
       Policy("maxUnackedMessagesOnConsumer")]

\* Topic policies: producers, consumers and their backlog.
TopicLimits ==
   [max_unacked_messages_on_subscription |->
       Policy("maxUnackedMessagesOnSubscription"),
    max_producers |-> Policy("maxProducers"),
    max_consumers |-> Policy("maxConsumers")]

\* Topic policies: subscriptions, message size, compaction.
TopicSizes ==
   [max_consumers_per_subscription |-> Policy("maxConsumersPerSubscription"),
    max_subscriptions_per_topic |-> Policy("maxSubscriptionsPerTopic"),
    max_message_size |-> Policy("maxMessageSize"),
    compaction_threshold |-> Policy("compactionThreshold")]

\* Topic policies: deduplication and expiry of subscriptions.
TopicExpiry ==
   [deduplication_snapshot_interval |->
       Policy("deduplicationSnapshotInterval"),
    subscription_expiration_time |-> Policy("subscriptionExpirationTime"),
    deduplication_status |-> Policy("deduplicationEnabled")]

\* Mutant: a policy keeps the path of the one it was copied from.
TopicQuotasCopied ==
   [backlog_quota |->
       [get |-> <<"GET", "backlogQuotaMap">>,
        set |-> <<"POST", "backlogQuota">>,
        remove |-> <<"DELETE", "backlogQuota">>],
    message_ttl |-> Policy("messageTTL"),
    dispatcher_pause_on_ack_state_persistent |->
       Policy("messageTTL")]

\* Topic policies: backlog quota, message expiry, dispatcher pause.
TopicQuotas ==
   [backlog_quota |->
       [get |-> <<"GET", "backlogQuotaMap">>,
        set |-> <<"POST", "backlogQuota">>,
        remove |-> <<"DELETE", "backlogQuota">>],
    message_ttl |-> Policy("messageTTL"),
    dispatcher_pause_on_ack_state_persistent |->
       Policy("dispatcherPauseOnAckStatePersistent")]

\* Schemas of a topic.
Schemas ==
   [get_schema_info |-> <<"GET", "schema">>,
    get_schema_info_at_version |-> <<"GET", "schema", "{}">>,
    get_all_schemas |-> <<"GET", "schemas">>,
    get_schema_metadata |-> <<"GET", "metadata">>,
    create_schema |-> <<"POST", "schema">>,
    delete_schema |-> <<"DELETE", "schema">>,
    test_compatibility |-> <<"POST", "compatibility">>,
    get_version_by_schema |-> <<"POST", "version">>]

\* The scalable topics of a namespace.
ScalableLists ==
   [list_scalable_topics |-> <<"GET", "scalable", "{}", "{}">>,
    list_scalable_topics_by_properties |-> <<"GET", "scalable", "{}", "{}">>]

\* Scalable topics.
Scalable ==
   [create_scalable_topic |-> <<"PUT">>,
    create_scalable_topic_with_properties |-> <<"PUT">>,
    migrate_to_scalable |-> <<"POST", "migrate">>,
    delete_scalable_topic |-> <<"DELETE">>, get_metadata |-> <<"GET">>,
    get_stats |-> <<"GET", "stats">>,
    get_auto_scale_policy |-> <<"GET", "autoScalePolicy">>,
    set_auto_scale_policy |-> <<"POST", "autoScalePolicy">>,
    remove_auto_scale_policy |-> <<"DELETE", "autoScalePolicy">>,
    create_subscription |-> <<"PUT", "subscriptions", "{}">>,
    delete_subscription |-> <<"DELETE", "subscriptions", "{}">>,
    seek_subscription |-> <<"POST", "subscriptions", "{}", "seek">>]

\* Cursors and layout of a scalable topic.
ScalableLayout ==
   [clear_backlog |-> <<"POST", "subscriptions", "{}", "skip-all">>,
    split_segment |-> <<"POST", "split", "{}">>,
    merge_segments |-> <<"POST", "merge", "{}", "{}">>]

\* Segments of a scalable topic.
Segments ==
   [terminate_segment |-> <<"POST", "terminate">>,
    delete_segment |-> <<"DELETE">>, create_segment |-> <<"PUT">>,
    create_segment_subscription |-> <<"PUT", "subscription", "{}">>,
    delete_segment_subscription |-> <<"DELETE", "subscription", "{}">>,
    seek_segment_subscription |-> <<"POST", "subscription", "{}", "seek">>,
    get_segment_subscription_backlog |->
       <<"GET", "subscription", "{}", "backlog">>,
    clear_segment_subscription_backlog |->
       <<"POST", "subscription", "{}", "skip-all">>]

\* Registration of functions.
FunctionConfigs ==
   [get_functions |-> <<"GET", "{}", "{}">>,
    get_function |-> <<"GET", "{}", "{}", "{}">>,
    create_function |-> <<"POST", "{}", "{}", "{}">>,
    create_function_with_url |-> <<"POST", "{}", "{}", "{}">>,
    update_function |-> <<"PUT", "{}", "{}", "{}">>,
    update_function_with_url |-> <<"PUT", "{}", "{}", "{}">>,
    delete_function |-> <<"DELETE", "{}", "{}", "{}">>]

\* Instances of a function.
FunctionRuns ==
   [get_function_status |-> <<"GET", "{}", "{}", "{}", "status">>,
    get_function_instance_status |->
       <<"GET", "{}", "{}", "{}", "{}", "status">>,
    get_function_stats |-> <<"GET", "{}", "{}", "{}", "stats">>,
    get_function_instance_stats |-> <<"GET", "{}", "{}", "{}", "{}", "stats">>,
    restart_function |-> <<"POST", "{}", "{}", "{}", "restart">>,
    restart_function_instance |->
       <<"POST", "{}", "{}", "{}", "{}", "restart">>,
    stop_function |-> <<"POST", "{}", "{}", "{}", "stop">>,
    stop_function_instance |-> <<"POST", "{}", "{}", "{}", "{}", "stop">>,
    start_function |-> <<"POST", "{}", "{}", "{}", "start">>,
    start_function_instance |-> <<"POST", "{}", "{}", "{}", "{}", "start">>]

\* State, triggers and packages of functions.
FunctionData ==
   [get_function_state |-> <<"GET", "{}", "{}", "{}", "state", "{}">>,
    put_function_state |-> <<"POST", "{}", "{}", "{}", "state", "{}">>,
    trigger_function |-> <<"POST", "{}", "{}", "{}", "trigger">>,
    upload_function |-> <<"POST", "upload">>,
    download_function |-> <<"GET", "{}", "{}", "{}", "download">>,
    download_function_by_path |-> <<"GET", "download">>,
    get_connectors_list |-> <<"GET", "connectors">>,
    get_built_in_functions |-> <<"GET", "builtins">>,
    reload_built_in_functions |-> <<"POST", "builtins", "reload">>]

\* Registration of sinks.
SinkConfigs ==
   [list_sinks |-> <<"GET", "{}", "{}">>,
    get_sink |-> <<"GET", "{}", "{}", "{}">>,
    create_sink |-> <<"POST", "{}", "{}", "{}">>,
    create_sink_with_url |-> <<"POST", "{}", "{}", "{}">>,
    update_sink |-> <<"PUT", "{}", "{}", "{}">>,
    update_sink_with_url |-> <<"PUT", "{}", "{}", "{}">>,
    delete_sink |-> <<"DELETE", "{}", "{}", "{}">>]

\* Instances of a sink.
SinkRuns ==
   [get_sink_status |-> <<"GET", "{}", "{}", "{}", "status">>,
    get_sink_instance_status |-> <<"GET", "{}", "{}", "{}", "{}", "status">>,
    restart_sink |-> <<"POST", "{}", "{}", "{}", "restart">>,
    restart_sink_instance |-> <<"POST", "{}", "{}", "{}", "{}", "restart">>,
    stop_sink |-> <<"POST", "{}", "{}", "{}", "stop">>,
    stop_sink_instance |-> <<"POST", "{}", "{}", "{}", "{}", "stop">>,
    start_sink |-> <<"POST", "{}", "{}", "{}", "start">>,
    start_sink_instance |-> <<"POST", "{}", "{}", "{}", "{}", "start">>,
    get_built_in_sinks |-> <<"GET", "builtinsinks">>,
    reload_built_in_sinks |-> <<"POST", "reloadBuiltInSinks">>]

\* Registration of sources.
SourceConfigs ==
   [list_sources |-> <<"GET", "{}", "{}">>,
    get_source |-> <<"GET", "{}", "{}", "{}">>,
    create_source |-> <<"POST", "{}", "{}", "{}">>,
    create_source_with_url |-> <<"POST", "{}", "{}", "{}">>,
    update_source |-> <<"PUT", "{}", "{}", "{}">>,
    update_source_with_url |-> <<"PUT", "{}", "{}", "{}">>,
    delete_source |-> <<"DELETE", "{}", "{}", "{}">>]

\* Instances of a source.
SourceRuns ==
   [get_source_status |-> <<"GET", "{}", "{}", "{}", "status">>,
    get_source_instance_status |-> <<"GET", "{}", "{}", "{}", "{}", "status">>,
    restart_source |-> <<"POST", "{}", "{}", "{}", "restart">>,
    restart_source_instance |-> <<"POST", "{}", "{}", "{}", "{}", "restart">>,
    stop_source |-> <<"POST", "{}", "{}", "{}", "stop">>,
    stop_source_instance |-> <<"POST", "{}", "{}", "{}", "{}", "stop">>,
    start_source |-> <<"POST", "{}", "{}", "{}", "start">>,
    start_source_instance |-> <<"POST", "{}", "{}", "{}", "{}", "start">>,
    get_built_in_sources |-> <<"GET", "builtinsources">>,
    reload_built_in_sources |-> <<"POST", "reloadBuiltInSources">>]

\* Packages and their versions.
Packages ==
   [list_packages |-> <<"GET", "{}", "{}", "{}">>,
    list_package_versions |-> <<"GET", "{}", "{}", "{}", "{}">>,
    get_metadata |-> <<"GET", "{}", "{}", "{}", "{}", "{}", "metadata">>,
    update_metadata |-> <<"PUT", "{}", "{}", "{}", "{}", "{}", "metadata">>,
    upload |-> <<"POST", "{}", "{}", "{}", "{}", "{}">>,
    download |-> <<"GET", "{}", "{}", "{}", "{}", "{}">>,
    delete |-> <<"DELETE", "{}", "{}", "{}", "{}", "{}">>]

\* Transaction coordinators and transactions.
Coordinators ==
   [list_transaction_coordinators |-> <<"GET", "coordinators">>,
    get_coordinator_stats |-> <<"GET", "coordinatorStats">>,
    get_coordinator_stats_by_id |-> <<"GET", "coordinatorStats">>,
    get_coordinator_internal_stats |->
       <<"GET", "coordinatorInternalStats", "{}">>,
    get_transaction_metadata |-> <<"GET", "transactionMetadata", "{}", "{}">>,
    get_transaction_in_buffer_stats |->
       <<"GET", "transactionInBufferStats", "{}", "{}", "{}", "{}", "{}">>,
    get_transaction_in_pending_ack_stats |->
       <<"GET", "transactionInPendingAckStats", "{}", "{}", "{}", "{}", "{}",
        "{}">>]

\* Transaction buffers and pending acks.
TransactionBuffers ==
   [get_transaction_buffer_stats |->
       <<"GET", "transactionBufferStats", "{}", "{}", "{}">>,
    get_transaction_buffer_internal_stats |->
       <<"GET", "transactionBufferInternalStats", "{}", "{}", "{}">>,
    get_pending_ack_stats |->
       <<"GET", "pendingAckStats", "{}", "{}", "{}", "{}">>,
    get_pending_ack_internal_stats |->
       <<"GET", "pendingAckInternalStats", "{}", "{}", "{}", "{}">>]

\* Slow transactions, coordinators and aborts.
TransactionTasks ==
   [get_slow_transactions |-> <<"GET", "slowTransactions", "{}">>,
    get_slow_transactions_by_coordinator_id |->
       <<"GET", "slowTransactions", "{}">>,
    scale_transaction_coordinators |->
       <<"POST", "transactionCoordinator", "replicas">>,
    abort_transaction |-> <<"POST", "abortTransaction", "{}", "{}">>,
    get_position_stats_in_pending_ack |->
       <<"GET", "positionStatsInPendingAck", "{}", "{}", "{}", "{}", "{}",
        "{}">>]

\* Lookup over HTTP.
Lookups ==
   [lookup_topic |-> <<"GET", "lookup", "{}", "{}", "{}", "{}">>,
    get_bundle_range |-> <<"GET", "lookup", "{}", "{}", "{}", "{}", "bundle">>]

\* Statistics of a proxy.
ProxyStats ==
   [get_connections |-> <<"GET", "proxy-stats", "connections">>,
    get_topics |-> <<"GET", "proxy-stats", "topics">>,
    get_log_level |-> <<"GET", "proxy-stats", "logging">>,
    set_log_level |-> <<"POST", "proxy-stats", "logging", "{}">>]

\* Removal of all the policies of a topic.
TopicPolicyReset ==
   [delete_topic_policies |-> <<"DELETE", "policies">>]

\* The methods of AdminClient itself, older than the groups.
Direct ==
   [set_max_unacked_messages_on_consumer |->
       <<"POST", "{}", "{}", "{}", "{}", "maxUnackedMessagesOnConsumer">>,
    remove_max_unacked_messages_on_consumer |->
       <<"DELETE", "{}", "{}", "{}", "{}", "maxUnackedMessagesOnConsumer">>,
    get_schema |-> <<"GET", "schemas", "{}", "{}", "{}", "schema">>,
    get_schema_by_version |->
       <<"GET", "schemas", "{}", "{}", "{}", "schema", "{}">>]

\* ------------------------------------------------------------------------

\* The base paths of namespaces, of topics, and of the /admin/v3 groups.
NamespacePath == <<"namespaces", "{}", "{}">>
TopicPath == <<"{}", "{}", "{}", "{}">>
V3(group) == <<"v3", group>>

\* The request of a row under a base path.
Request(base, row) == [verb |-> Head(row), path |-> base \o Tail(row)]

\* The operations of a table, and those of a table of policies, by name.
Operations(group, base, table) ==
   {[name |-> <<group, op>>, request |-> Request(base, table[op])] :
       op \in DOMAIN table}

Policies(group, base, table) ==
   UNION {{[name |-> <<group, policy, act>>,
            request |-> Request(base, table[policy][act])] :
              act \in DOMAIN table[policy]} : policy \in DOMAIN table}

\* Every operation of the client, by the handle it belongs to.
OperationEndpoints ==
   UNION {Operations("tenants", <<"tenants">>, Tenants),
          Operations("clusterOps", <<"clusters">>, ClusterOps),
          Operations("clusterIsolation", <<"clusters">>, ClusterIsolation),
          Operations("bookies", <<"bookies">>, Bookies),
          Operations("brokers", <<"brokers">>, Brokers),
          Operations("brokerHealth", <<"brokers">>, BrokerHealth),
          Operations("brokerStats", <<"broker-stats">>, BrokerStats),
          Operations("resourceGroups", <<"resourcegroups">>, ResourceGroups),
          Operations("resourceQuotas", <<"resource-quotas">>, ResourceQuotas),
          Operations("workers", <<>>, Workers),
          Operations("metadataMigration", <<>>, MetadataMigration),
          Operations("namespaceLists", <<"namespaces">>, NamespaceLists),
          Operations("namespaceOps", NamespacePath, NamespaceOps),
          Operations("namespaceBundles", NamespacePath, NamespaceBundles),
          Operations("namespaceProperties", NamespacePath,
                     NamespaceProperties),
          Operations("namespaceBundleOps", NamespacePath, NamespaceBundleOps),
          Operations("antiAffinity", <<"namespaces">>, AntiAffinity),
          Operations("topicGrants", <<"namespaces">>, TopicGrants),
          Operations("topicLists", <<>>, TopicLists),
          Operations("topicOps", TopicPath, TopicOps),
          Operations("topicProperties", TopicPath, TopicProperties),
          Operations("subscriptions", TopicPath, Subscriptions),
          Operations("topicTasks", TopicPath, TopicTasks),
          Operations("topicMessages", TopicPath, TopicMessages),
          Operations("nonPersistentLists", <<>>, NonPersistentLists),
          Operations("nonPersistent", <<"non-persistent", "{}", "{}", "{}">>,
                     NonPersistent),
          Operations("schemas", <<"schemas", "{}", "{}", "{}">>, Schemas),
          Operations("scalableLists", <<>>, ScalableLists),
          Operations("scalable", <<"scalable", "{}", "{}", "{}">>, Scalable),
          Operations("scalableLayout", <<"scalable", "{}", "{}", "{}">>,
                     ScalableLayout),
          Operations("segments", <<"segments", "{}", "{}", "{}", "{}">>,
                     Segments),
          Operations("functionConfigs", V3("functions"), FunctionConfigs),
          Operations("functionRuns", V3("functions"), FunctionRuns),
          Operations("functionData", V3("functions"), FunctionData),
          Operations("sinkConfigs", V3("sink"), SinkConfigs),
          Operations("sinkRuns", V3("sink"), SinkRuns),
          Operations("sourceConfigs", V3("source"), SourceConfigs),
          Operations("sourceRuns", V3("source"), SourceRuns),
          Operations("packages", V3("packages"), Packages),
          Operations("coordinators", V3("transactions"), Coordinators),
          Operations("transactionBuffers", V3("transactions"),
                     TransactionBuffers),
          Operations("transactionTasks", V3("transactions"), TransactionTasks),
          Operations("lookups", <<>>, Lookups),
          Operations("proxyStats", <<>>, ProxyStats),
          Operations("topicPolicyReset", TopicPath, TopicPolicyReset),
          Operations("direct", <<>>, Direct)}

PolicyEndpoints ==
   UNION {Policies("namespaceQuotas", NamespacePath, NamespaceQuotas),
          Policies("namespaceClients", NamespacePath, NamespaceClients),
          Policies("namespaceUnacked", NamespacePath, NamespaceUnacked),
          Policies("namespaceStorage", NamespacePath, NamespaceStorage),
          Policies("namespaceChecks", NamespacePath, NamespaceChecks),
          Policies("namespaceGroups", NamespacePath, NamespaceGroups),
          Policies("namespaceRetention", NamespacePath, NamespaceRetention),
          Policies("namespaceRates", NamespacePath, NamespaceRates),
          Policies("namespaceCreation", NamespacePath, NamespaceCreation),
          Policies("namespaceOffload", NamespacePath, NamespaceOffload),
          Policies("namespaceMetrics", NamespacePath, NamespaceMetrics),
          Policies("namespaceAutoUpdate", NamespacePath, NamespaceAutoUpdate),
          Policies("topicReplication", TopicPath, TopicReplication),
          Policies("topicRates", TopicPath, TopicRates),
          Policies("topicThrottles", TopicPath, TopicThrottles),
          Policies("topicDelivery", TopicPath, TopicDelivery),
          Policies("topicFilters", TopicPath, TopicFilters),
          Policies("topicLimits", TopicPath, TopicLimits),
          Policies("topicSizes", TopicPath, TopicSizes),
          Policies("topicExpiry", TopicPath, TopicExpiry),
          Policies("topicQuotas", TopicPath, TopicQuotas)}

Endpoints == OperationEndpoints \cup PolicyEndpoints

\* The requests that more than one operation sends, and the paths of DELETEs.
SentByMany ==
   {e.request : e \in {f \in Endpoints : \E g \in Endpoints :
                         g.request = f.request /\ g.name # f.name}}

Deleted ==
   {e.request.path : e \in {f \in Endpoints : f.request.verb = "DELETE"}}

\* The requests that are meant to be sent by more than one operation: with and
\* without a query, a body or a URL instead of an upload, or from two handles.
SharedRequests ==
   {Request(NamespacePath, <<"PUT">>),
    Request(NamespacePath, <<"POST", "deduplicationSnapshotInterval">>),
    Request(<<"resourcegroups">>, <<"PUT", "{}">>),
    Request(<<"brokers">>, <<"GET", "health">>),
    Request(TopicPath, <<"POST", "maxUnackedMessagesOnConsumer">>),
    Request(TopicPath, <<"DELETE", "maxUnackedMessagesOnConsumer">>),
    Request(<<"schemas">>, <<"GET", "{}", "{}", "{}", "schema">>),
    Request(<<"schemas">>, <<"GET", "{}", "{}", "{}", "schema", "{}">>),
    Request(<<"scalable">>, <<"GET", "{}", "{}">>),
    Request(<<"scalable">>, <<"PUT", "{}", "{}", "{}">>),
    Request(<<"non-persistent">>, <<"GET", "{}", "{}">>),
    Request(<<"non-persistent">>, <<"GET", "{}", "{}", "{}">>),
    Request(V3("transactions"), <<"GET", "coordinatorStats">>),
    Request(V3("transactions"), <<"GET", "slowTransactions", "{}">>)}
   \cup {Request(V3(group), <<verb, "{}", "{}", "{}">>) :
            group \in {"functions", "sink", "source"},
            verb \in {"POST", "PUT"}}

\* The namespace policies for which the broker has no DELETE route: a DELETE
\* there reaches the handler that deletes a bundle.
NoDeleteRoute ==
   {NamespacePath \o <<segment>> : segment \in
      {"deduplicationSnapshotInterval", "offloadThreshold",
       "offloadThresholdInSeconds", "encryptionRequired",
       "schemaValidationEnforced", "isAllowAutoUpdateSchema",
       "subscriptionAuthMode", "schemaCompatibilityStrategy"}}

=============================================================================
